---------------------------- MODULE MessageThreads ----------------------------
(***************************************************************************)
(* Message threads, who takes part in them and what they post: the         *)
(* services of acme.features.authenticated.{messageThread, canParticipate, *)
(* message}.  Nothing here is ever updated, only inserted, and of the rows *)
(* only participations are deleted.                                        *)
(***************************************************************************)
EXTENDS Transactions

CONSTANTS
    Talks, Participations, Messages,   \* ids of message_thread, can_participate, message
    Users,                             \* ids of Authenticated roles
    Requester,                         \* whose request a server thread serves
    Queried     \* Queried[k]: the talks the query string of an invitation to talk
                \* k may name; the pages send an invitation without query string

ASSUME IdsAre == Ids = Talks \cup Participations \cup Messages

ASSUME IdsDisjoint ==
    /\ Talks \cap Participations = {}
    /\ Talks \cap Messages = {}
    /\ Participations \cap Messages = {}

ASSUME RequesterTyped == Requester \in [Threads -> Users]

ASSUME QueriedTyped == Queried \in [Talks -> SUBSET Talks]

vars == <<db, tx>>

-----------------------------------------------------------------------------
(* Rows *)

MessageThreadRow == [st : {"live"}, version : {0}, creator : Users]
CanParticipateRow == [st : {"live"}, version : {0}, user : Users, talk : Talks]
MessageRow == [st : {"live"}, version : {0}, author : Users, talk : Talks]

RowOf(i) == {Unborn, Gone} \cup
    (CASE i \in Talks -> MessageThreadRow
       [] i \in Participations -> CanParticipateRow
       [] i \in Messages -> MessageRow)

\* mutant: instantiate forgets setMessageThread
NewMessageAdrift(u, k) == [st |-> "live", version |-> 0, author |-> u]

NewTalk(u) == [st |-> "live", version |-> 0, creator |-> u]
NewParticipation(u, k) == [st |-> "live", version |-> 0, user |-> u, talk |-> k]

NewMessage(u, k) == [st |-> "live", version |-> 0, author |-> u, talk |-> k]

\* The participations of u in talk k, and the talks u has opened.
Involved(u, k) ==
    {p \in Participations : Live(db[p]) /\ db[p].user = u /\ db[p].talk = k}
Created(u) == {k \in Talks : Live(db[k]) /\ db[k].creator = u}

-----------------------------------------------------------------------------
(* Services *)

\* AuthenticatedMessageThreadCreateService: a thread and its creator's
\* participation are saved together.
ThreadCreate(t) ==
    \E k \in Talks, p \in Participations :
        /\ FreshId(k) /\ FreshId(p)
        /\ Hold(t, Changes([i \in {k, p} |->
               IF i = k THEN NewTalk(Requester[t]) ELSE NewParticipation(Requester[t], k)]))

\* mutant: authorise lets anybody invite
InviteByAnybody(t) ==
    \E p \in Participations, k \in Talks, u \in Users :
        /\ FreshId(p)
        /\ Live(db[k])
        /\ Involved(u, k) = {}
        /\ Hold(t, Write(p, NewParticipation(u, k)))

\* The talks authorise may look at for an invitation to talk k: that of the query
\* string if there is one, else that of the form, as instantiate and validate do.
Asked(k) == {k} \cup Queried[k]

\* AuthenticatedCanParticipateCreateService: the creator invites somebody new.
Invite(t) ==
    \E p \in Participations, k \in Talks, u \in Users :
        /\ FreshId(p)
        /\ Asked(k) \cap Created(Requester[t]) # {}
        /\ Live(db[k])
        /\ Involved(u, k) = {}
        /\ Hold(t, Write(p, NewParticipation(u, k)))

\* mutant: authorise does not ask who is removed
RemoveAnybody(t) ==
    \E k \in Created(Requester[t]), u \in Users :
        \E p \in Involved(u, k) : Hold(t, DeleteAll({p}))

\* AuthenticatedCanParticipateDeleteService: the creator removes somebody else.
Remove(t) ==
    \E k \in Created(Requester[t]), u \in Users \ {Requester[t]} :
        \E p \in Involved(u, k) : Hold(t, DeleteAll({p}))

\* mutant: authorise asks that there be a talk, not that the author take part
PostFromOutside(t) ==
    \E m \in Messages, k \in Talks :
        /\ FreshId(m)
        /\ Live(db[k])
        /\ Hold(t, Write(m, NewMessage(Requester[t], k)))

\* AuthenticatedMessageCreateService: the query for the author's participation
\* throws when there are two.
Post(t) ==
    \E m \in Messages, k \in Talks :
        /\ FreshId(m)
        /\ \E p \in Participations : Involved(Requester[t], k) = {p}
        /\ Hold(t, Write(m, NewMessage(Requester[t], k)))

Commit(t) == Flush(t)
Rollback(t) == Discard(t)

-----------------------------------------------------------------------------
Init ==
    /\ db = [i \in Ids |-> Unborn]
    /\ tx = [t \in Threads |-> NoWork]

Service(t) == ThreadCreate(t) \/ Invite(t) \/ Remove(t) \/ Post(t)

Next == \E t \in Threads : Service(t) \/ Commit(t) \/ Rollback(t)

Spec == Init /\ [][Next]_vars

-----------------------------------------------------------------------------
(* Properties *)

\* Every row, committed or pending, is a row of its table.
TypeOK ==
    /\ db = [i \in Ids |-> db[i]]
    /\ \A i \in Ids : db[i] \in RowOf(i)
    /\ tx = [t \in Threads |-> tx[t]]
    /\ \A t \in Threads : \A i \in DOMAIN tx[t] :
        /\ i \in Ids
        /\ tx[t][i].old \in RowOf(i)
        /\ tx[t][i].new \in RowOf(i)

\* A thread is never left without its creator, whoever is invited and removed
\* meanwhile: he may invite and remove others because he created it, and nobody
\* but him could bring him back.
CreatorTakesPart ==
    \A k \in Talks : Live(db[k]) => Involved(db[k].creator, k) # {}

\* Nobody takes part twice.  Whoever does is locked out, since the query for his
\* one participation then throws.  validate looks, another row is inserted: this
\* holds of a thread its creator alone invites to, with one request at a time.
InvolvedOnce ==
    \A u \in Users, k \in Talks : Queried[k] = {} =>
        \A p, q \in Involved(u, k) : p = q

\* Once somebody takes no part, and has neither a post nor an invitation under
\* way, nothing of his is added to the thread until he is invited, by the creator
\* of the thread authorise looked at.
Underway(u, k) ==
    \E t \in Threads : \E i \in DOMAIN tx[t] :
        /\ tx[t][i].old = Unborn
        /\ \/ i \in Participations /\ tx[t][i].new = NewParticipation(u, k)
           \/ i \in Messages /\ tx[t][i].new = NewMessage(u, k)
Outside(u, k) == Live(db[k]) /\ Involved(u, k) = {} /\ ~Underway(u, k)
Said(u, k) == {m \in Messages : db[m] = NewMessage(u, k)}
InvitationHeld(u, k) ==
    \E t \in Threads :
        /\ Asked(k) \cap Created(Requester[t]) # {}
        /\ tx'[t] # tx[t] /\ Underway(u, k)'

OutsiderStaysSilent ==
    [][\A u \in Users, k \in Talks : Outside(u, k) =>
          /\ Said(u, k)' = Said(u, k)
          /\ Outside(u, k)' \/ InvitationHeld(u, k)]_vars

=============================================================================
