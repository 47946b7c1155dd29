------------------------------- MODULE Bulletin -------------------------------
(***************************************************************************)
(* What administrators publish and what sponsors advertise: the services   *)
(* of acme.features.administrator.{announcement, challenge, companyrecord, *)
(* investorRecord, configuration}, sponsor.{commercialBanner,              *)
(* nonCommercialBanner} and authenticated.sponsor (update), over           *)
(* Transactions, with the active role of AbstractController.               *)
(*                                                                         *)
(* The requests of one session share one principal, and the active role is *)
(* a field of it: a request sets it when it comes in, and its service asks *)
(* for it later, maybe after another request has set it again.  A renewal  *)
(* gives the session a new principal; requests under way keep the old one. *)
(***************************************************************************)
EXTENDS Transactions, Sequences

CONSTANTS
    Notices, Commercials, NonCommercials,  \* ids of notices and of banners
    Sponsors,                              \* ids of Sponsor roles
    Configuration,                         \* the id of the one customisation
    NoSponsor,
    Sessions,
    SessionOf,      \* the session of the request a server thread serves
    SponsorOf,      \* the Sponsor role of a session's account, or NoSponsor
    RolesOf         \* the roles of a session's account that have services here

Banners == Commercials \cup NonCommercials

ASSUME IdsAre == Ids = Notices \cup Banners \cup Sponsors \cup {Configuration}

ASSUME IdsDisjoint ==
    /\ Commercials \cap NonCommercials = {}
    /\ Notices \cap Banners = {}
    /\ Sponsors \cap (Notices \cup Banners) = {}
    /\ Configuration \notin Notices \cup Banners \cup Sponsors
    /\ NoSponsor \notin Sponsors

Roles == {"Authenticated", "Sponsor", "Administrator"}

ASSUME SessionsTyped ==
    /\ SessionOf \in [Threads -> Sessions]
    /\ SponsorOf \in [Sessions -> Sponsors \cup {NoSponsor}]
    /\ RolesOf \in [Sessions -> SUBSET Roles]
    /\ \A s \in Sessions : "Sponsor" \in RolesOf[s] <=> SponsorOf[s] # NoSponsor

VARIABLES
    active,   \* the active roles of each session's principals, the current one last
    desk      \* how far the service of each thread has got

vars == <<db, tx, active, desk>>

-----------------------------------------------------------------------------
(* Rows *)

NoticeRow == [st : {"live"}, version : Nat]
BannerRow == [st : {"live"}, version : Nat, sponsor : Sponsors \cup {NoSponsor}]
SponsorRow == [st : {"live"}, version : Nat, card : BOOLEAN]

RowOf(i) == {Unborn, Gone} \cup
    (CASE i \in Notices \cup {Configuration} -> NoticeRow
       [] i \in Banners -> BannerRow
       [] i \in Sponsors -> SponsorRow)

NewNotice == [st |-> "live", version |-> 0]

\* mutant: instantiate forgets setSponsor
NewBannerAdrift(sponsor) == [st |-> "live", version |-> 0]

NewBanner(sponsor) == [st |-> "live", version |-> 0, sponsor |-> sponsor]

-----------------------------------------------------------------------------
(* Requests *)

\* A request holds its principal, the k-th of its session, until it ends.
Away == [at |-> "away", principal |-> 0, sponsor |-> NoSponsor]
In(role, k) == [at |-> role, principal |-> k, sponsor |-> NoSponsor]

Current(s) == Len(active[s])

ActiveRole(t) == active[SessionOf[t]][desk[t].principal]

\* getActiveRoleId, used as the id of a Sponsor: the id of any other role finds none.
ActiveSponsor(t) ==
    IF ActiveRole(t) = "Sponsor" THEN SponsorOf[SessionOf[t]] ELSE NoSponsor

\* mutant: handleRequest checks the role and forgets setActiveRole
EnterQuietly(t, role) ==
    /\ desk[t] = Away
    /\ role \in RolesOf[SessionOf[t]]
    /\ desk' = [desk EXCEPT ![t] = In(role, Current(SessionOf[t]))]
    /\ UNCHANGED <<db, tx, active>>

\* The Request takes the principal of the session; AbstractController.handleRequest,
\* until it asks the service: hasRole, setActiveRole.
Enter(t, role) ==
    /\ desk[t] = Away
    /\ role \in RolesOf[SessionOf[t]]
    /\ active' = [active EXCEPT ![SessionOf[t]][Current(SessionOf[t])] = role]
    /\ desk' = [desk EXCEPT ![t] = In(role, Current(SessionOf[t]))]
    /\ UNCHANGED <<db, tx>>

\* The request is refused, throws, also in onSuccess, or was only a GET.
Leave(t) ==
    /\ desk[t] # Away
    /\ Idle(t)
    /\ desk' = [desk EXCEPT ![t] = Away]
    /\ UNCHANGED <<db, tx, active>>

Serve(t, work) == Hold(t, work) /\ UNCHANGED <<active, desk>>

-----------------------------------------------------------------------------
(* administrator/{announcement, challenge, companyrecord, investorRecord,  *)
(* configuration}: any administrator edits what any other has written.     *)

NoticeCreate(t) ==
    \E i \in Notices :
        /\ desk[t].at = "Administrator"
        /\ FreshId(i)
        /\ Serve(t, Write(i, NewNotice))

NoticeUpdate(t) ==
    \E i \in Notices \cup {Configuration} :
        /\ desk[t].at = "Administrator"
        /\ Editable(i)
        /\ Serve(t, Write(i, Bump(db[i])))

NoticeDelete(t) ==
    \E i \in Notices :
        /\ desk[t].at = "Administrator"
        /\ Live(db[i])
        /\ Serve(t, DeleteAll({i}))

-----------------------------------------------------------------------------
(* sponsor/{commercialBanner, nonCommercialBanner}, authenticated/sponsor  *)

\* AuthenticatedSponsorUpdateService: finds the role by the account, not by the
\* active role, and lets a sponsor add or clear his card.
SponsorUpdate(t) ==
    LET s == SponsorOf[SessionOf[t]]
    IN  /\ desk[t].at = "Authenticated"
        /\ s # NoSponsor
        /\ Editable(s)
        /\ \E card \in BOOLEAN : Serve(t, Write(s, [Bump(db[s]) EXCEPT !.card = card]))

\* instantiate of both CreateServices
BannerInstantiate(t) ==
    /\ desk[t].at = "Sponsor"
    /\ Idle(t)
    /\ desk' = [desk EXCEPT ![t] = [@ EXCEPT !.at = "made", !.sponsor = ActiveSponsor(t)]]
    /\ UNCHANGED <<db, tx, active>>

\* SponsorCommercialBannerCreateService: validate looks the sponsor up again, and
\* throws if there is none.
CommercialCreate(t) ==
    \E b \in Commercials :
        /\ desk[t].at = "made"
        /\ FreshId(b)
        /\ ActiveSponsor(t) # NoSponsor
        /\ db[ActiveSponsor(t)].card
        /\ Serve(t, Write(b, NewBanner(desk[t].sponsor)))

\* SponsorNonCommercialBannerCreateService
NonCommercialCreate(t) ==
    \E b \in NonCommercials :
        /\ desk[t].at = "made"
        /\ FreshId(b)
        /\ Serve(t, Write(b, NewBanner(desk[t].sponsor)))

\* mutant: authorise only asks that somebody's sponsor be active
IsCreatorAnyway(t, b) == Live(db[b]) /\ ActiveSponsor(t) # NoSponsor

\* authorise of the Update and DeleteServices: it throws for a banner without sponsor.
IsCreator(t, b) ==
    /\ Live(db[b])
    /\ db[b].sponsor # NoSponsor
    /\ db[b].sponsor = ActiveSponsor(t)

BannerUpdate(t) ==
    \E b \in Banners :
        /\ desk[t].at = "Sponsor"
        /\ IsCreator(t, b)
        /\ Editable(b)
        /\ Serve(t, Write(b, Bump(db[b])))

BannerDelete(t) ==
    \E b \in Banners :
        /\ desk[t].at = "Sponsor"
        /\ IsCreator(t, b)
        /\ Serve(t, DeleteAll({b}))

-----------------------------------------------------------------------------
(* The end of a transaction *)

\* The one service of the role Authenticated has an onSuccess.
Commit(t) ==
    /\ Flush(t)
    /\ desk' = [desk EXCEPT ![t] =
                   IF @.at = "Authenticated" THEN [@ EXCEPT !.at = "due"] ELSE Away]
    /\ UNCHANGED active

\* onSuccess of AuthenticatedSponsorUpdateService: PrincipalHelper.handleUpdate sets a
\* new principal, which loadUserByUsername makes with the role Authenticated.
Renew(t) ==
    /\ desk[t].at = "due"
    /\ active' = [active EXCEPT ![SessionOf[t]] = Append(@, "Authenticated")]
    /\ desk' = [desk EXCEPT ![t] = Away]
    /\ UNCHANGED <<db, tx>>

Rollback(t) ==
    /\ Discard(t)
    /\ desk' = [desk EXCEPT ![t] = Away]
    /\ UNCHANGED active

-----------------------------------------------------------------------------
\* The population files bring the customisation and the sponsors.
Init ==
    /\ \E card \in [Sponsors -> BOOLEAN] :
        db = [i \in Ids |->
                CASE i = Configuration -> NewNotice
                  [] i \in Sponsors -> [st |-> "live", version |-> 0, card |-> card[i]]
                  [] OTHER -> Unborn]
    /\ tx = [t \in Threads |-> NoWork]
    /\ active = [s \in Sessions |-> <<"Authenticated">>]
    /\ desk = [t \in Threads |-> Away]

Administrator(t) == NoticeCreate(t) \/ NoticeUpdate(t) \/ NoticeDelete(t)

Sponsor(t) ==
    \/ SponsorUpdate(t) \/ BannerInstantiate(t) \/ CommercialCreate(t) \/ NonCommercialCreate(t)
    \/ BannerUpdate(t) \/ BannerDelete(t)

Next ==
    \E t \in Threads :
        \/ \E role \in Roles : Enter(t, role)
        \/ Administrator(t) \/ Sponsor(t)
        \/ Commit(t) \/ Rollback(t) \/ Renew(t) \/ Leave(t)

Spec == Init /\ [][Next]_vars

-----------------------------------------------------------------------------
(* Properties *)

\* Every row, committed or pending, is a row of its table.
TypeOK ==
    /\ db = [i \in Ids |-> db[i]]
    /\ \A i \in Ids : db[i] \in RowOf(i)
    /\ tx = [t \in Threads |-> tx[t]]
    /\ \A t \in Threads : \A i \in DOMAIN tx[t] :
        /\ i \in Ids
        /\ tx[t][i].old \in RowOf(i)
        /\ tx[t][i].new \in RowOf(i)
    /\ active \in [Sessions -> Seq(Roles) \ {<<>>}]
    /\ desk \in [Threads -> [at : Roles \cup {"away", "made", "due"}, principal : Nat,
                            sponsor : Sponsors \cup {NoSponsor}]]
    /\ \A t \in Threads : desk[t] = Away \/ desk[t].principal \in 1 .. Current(SessionOf[t])

\* A banner is changed or deleted only by its own sponsor, though authorise
\* compares it with an active role that other requests of the session set, and
\* with that of a principal a renewal may have replaced: a banner left without
\* sponsor is therefore beyond everybody's reach.
OnlyItsSponsorEdits ==
    [][\A b \in Banners : Live(db[b]) /\ db'[b] # db[b] =>
          \E t \in Threads :
              /\ b \in DOMAIN tx[t] /\ tx'[t] = NoWork
              /\ db[b].sponsor # NoSponsor
              /\ db[b].sponsor = SponsorOf[SessionOf[t]]]_vars

\* A sponsor with one request at a time, in all his sessions, creates banners of
\* his own, and commercial ones only while he has a credit card, which he may
\* clear in another request.  With two at a time a banner may have no sponsor.
Alone(t) == \A u \in Threads \ {t} : SponsorOf[SessionOf[u]] # SponsorOf[SessionOf[t]]

PaidByItsMaker ==
    [][\A t \in Threads : \A b \in Banners \cap DOMAIN tx[t] :
          Alone(t) /\ db[b] = Unborn /\ db'[b] # Unborn =>
              /\ db'[b].sponsor = SponsorOf[SessionOf[t]]
              /\ b \in Commercials => db[db'[b].sponsor].card]_vars

=============================================================================
