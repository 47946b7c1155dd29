------------------------------- MODULE Accounts -------------------------------
(***************************************************************************)
(* User accounts, the roles they take, and the principals that sessions    *)
(* keep of them: the services of acme.features.authenticated.{employer,    *)
(* worker, sponsor, notActiveAuditor, userAccount}, administrator.         *)
(* {notActiveAuditor, userAccount} and anonymous.userAccount over          *)
(* Transactions, with AuthenticationService and PrincipalHelper.           *)
(*                                                                         *)
(* A principal is a copy of its account's roles.  onSuccess renews it in a *)
(* transaction of its own, after the commit: it loads the account, then    *)
(* replaces the principal of the session (hook).                           *)
(***************************************************************************)
EXTENDS Transactions

CONSTANTS
    UserAccounts, Roles,   \* ids of user_account and of the tables of roles
    Names,                 \* user names
    SelfMade,              \* the kinds of role a user gives himself at once
    Administrators,        \* accounts that are there from the start, as administrators
    NoAccount,             \* nobody is signed in
    Sessions,
    SessionOf,             \* the session of the request a server thread serves
    Owner                  \* who uses the browser of a session, with one account

ASSUME IdsAre == Ids = UserAccounts \cup Roles

ASSUME ConstantsTyped ==
    /\ UserAccounts \cap Roles = {}
    /\ Administrators \subseteq UserAccounts
    /\ NoAccount \notin UserAccounts
    /\ SessionOf \in [Threads -> Sessions]
    /\ Owner \in [Sessions -> UserAccounts]
    /\ SelfMade \cap {"NotActiveAuditor", "Auditor", "Administrator"} = {}

VARIABLES
    session,   \* the principal of each session
    hook       \* what is left to do after the commit of each thread's request

vars == <<db, tx, session, hook>>

-----------------------------------------------------------------------------
(* Rows and principals.  Every account has an Authenticated role from its  *)
(* first to its last day; the two are one row here.                        *)

Requested == SelfMade \cup {"NotActiveAuditor"}
Kinds == Requested \cup {"Auditor"}

UserAccountRow == [st : {"live"}, version : Nat, username : Names, enabled : BOOLEAN]
UserRoleRow == [st : {"live"}, version : Nat, userAccount : UserAccounts, kind : Kinds,
                enabled : BOOLEAN]

RowOf(i) == {Unborn, Gone} \cup (IF i \in UserAccounts THEN UserAccountRow ELSE UserRoleRow)

\* mutant: instantiate forgets setUserAccount
NewRoleAdrift(a, kind) ==
    [st |-> "live", version |-> 0, kind |-> kind, enabled |-> kind # "NotActiveAuditor"]

NewRole(a, kind) ==
    [st |-> "live", version |-> 0, userAccount |-> a, kind |-> kind,
     enabled |-> kind # "NotActiveAuditor"]

RolesOf(a, kind) ==
    {r \in Roles : Live(db[r]) /\ db[r].userAccount = a /\ db[r].kind = kind}

KindsOf(a) ==
    {kind \in Kinds : RolesOf(a, kind) # {}}
        \cup (IF a \in Administrators THEN {"Administrator"} ELSE {})

Principal == [account : UserAccounts \cup {NoAccount}, kinds : SUBSET (Kinds \cup {"Administrator"})]
Nobody == [account |-> NoAccount, kinds |-> {}]

\* AuthenticationService.loadUserByUsername
loadUser(a) == [account |-> a, kinds |-> KindsOf(a)]

Off == [st |-> "off", who |-> Nobody]
Armed == [st |-> "armed", who |-> Nobody]
Due == [st |-> "due", who |-> Nobody]
Loaded(p) == [st |-> "loaded", who |-> p]

Me(t) == session[SessionOf[t]].account
SignedIn(t) == Me(t) # NoAccount
IsAdministrator(t) == "Administrator" \in session[SessionOf[t]].kinds

\* The service step; next is what onSuccess will do.
Serve(t, work, next) ==
    /\ hook[t] = Off
    /\ Hold(t, work)
    /\ hook' = [hook EXCEPT ![t] = next]
    /\ UNCHANGED session

-----------------------------------------------------------------------------
(* Services *)

NameFree(n) == \A b \in UserAccounts : Live(db[b]) => db[b].username # n

\* AnonymousUserAccountCreateService
SignUp(t) ==
    LET a == Owner[SessionOf[t]]
    IN  \E n \in Names :
            /\ ~SignedIn(t)
            /\ FreshId(a)
            /\ NameFree(n)
            /\ Serve(t, Write(a, [st |-> "live", version |-> 0, username |-> n,
                                  enabled |-> TRUE]), Off)

\* mutant: authorise forgets to look for the role
CreateRoleAgain(t) ==
    \E r \in Roles, kind \in Requested :
        /\ SignedIn(t)
        /\ FreshId(r)
        /\ Serve(t, Write(r, NewRole(Me(t), kind)), Armed)

\* mutant: create renews the principal itself, before the commit
CreateRoleAndShow(t) ==
    \E r \in Roles, kind \in Requested :
        /\ SignedIn(t)
        /\ FreshId(r)
        /\ RolesOf(Me(t), kind) = {}
        /\ hook[t] = Off
        /\ Hold(t, Write(r, NewRole(Me(t), kind)))
        /\ session' = [session EXCEPT ![SessionOf[t]].kinds = @ \cup {kind}]
        /\ UNCHANGED hook

\* The CreateService of authenticated/{employer, worker, sponsor, notActiveAuditor}
CreateRole(t) ==
    \E r \in Roles, kind \in Requested :
        /\ SignedIn(t)
        /\ FreshId(r)
        /\ RolesOf(Me(t), kind) = {}
        /\ Serve(t, Write(r, NewRole(Me(t), kind)), Armed)

\* The UpdateService of authenticated/{employer, worker, sponsor}; the query for
\* one role throws when there are two.
UpdateRole(t) ==
    \E r \in Roles, kind \in SelfMade :
        /\ SignedIn(t)
        /\ RolesOf(Me(t), kind) = {r}
        /\ Editable(r)
        /\ Serve(t, Write(r, Bump(db[r])), Armed)

\* AuthenticatedNotActiveAuditorUpdateService: the Auditor, if any, is updated too.
UpdateAuditor(t) ==
    \E n \in Roles : \E auditors \in {{}} \cup {{r} : r \in Roles} :
        /\ SignedIn(t)
        /\ RolesOf(Me(t), "NotActiveAuditor") = {n}
        /\ RolesOf(Me(t), "Auditor") = auditors
        /\ \A r \in {n} \cup auditors : Editable(r)
        /\ Serve(t, Changes([r \in {n} \cup auditors |-> Bump(db[r])]), Armed)

\* AuthenticatedUserAccountUpdateService: password and identity.
UpdateProfile(t) ==
    /\ SignedIn(t)
    /\ Editable(Me(t))
    /\ Serve(t, Write(Me(t), Bump(db[Me(t)])), Armed)

\* mutant: the Auditor is saved for the principal's account, as in the other services
DecideAuditorOfMine(t) ==
    \E n \in Roles, r \in Roles :
        /\ IsAdministrator(t)
        /\ Live(db[n]) /\ db[n].kind = "NotActiveAuditor"
        /\ Editable(n)
        /\ FreshId(r)
        /\ Serve(t, Changes([i \in {n, r} |->
                IF i = n THEN [Bump(db[n]) EXCEPT !.enabled = TRUE]
                         ELSE NewRole(Me(t), "Auditor")]), Armed)

\* AdministratorNotActiveAuditorUpdateService: whenever the form says enabled,
\* an Auditor is saved, whatever the request said before; the request itself is
\* written when the form changes it.
DecideAuditor(t) ==
    \E n \in Roles, enabled \in BOOLEAN :
        \E decided \in SUBSET {n}, auditor \in SUBSET {r \in Roles : FreshId(r)} :
            /\ IsAdministrator(t)
            /\ Live(db[n]) /\ db[n].kind = "NotActiveAuditor"
            /\ \A i \in decided : Editable(i)
            /\ enabled # db[n].enabled => decided = {n}
            /\ IF enabled THEN \E r \in Roles : auditor = {r} ELSE auditor = {}
            /\ decided \cup auditor # {}
            /\ Serve(t, Changes([i \in decided \cup auditor |->
                    IF i = n THEN [Bump(db[n]) EXCEPT !.enabled = enabled]
                             ELSE NewRole(db[n].userAccount, "Auditor")]), Armed)

\* AdministratorUserAccountUpdateService
SetStatus(t) ==
    \E a \in UserAccounts, enabled \in BOOLEAN :
        /\ IsAdministrator(t)
        /\ Editable(a)
        /\ enabled # db[a].enabled
        /\ Serve(t, Write(a, [Bump(db[a]) EXCEPT !.enabled = enabled]), Off)

-----------------------------------------------------------------------------
(* The end of a transaction, and onSuccess *)

\* unique(username)
NamesUnique(rows) ==
    \A a, b \in UserAccounts :
        Live(rows[a]) /\ Live(rows[b]) /\ rows[a].username = rows[b].username => a = b

Commit(t) ==
    /\ Flush(t)
    /\ NamesUnique(After(t))
    /\ hook' = [hook EXCEPT ![t] = IF @ = Armed THEN Due ELSE @]
    /\ UNCHANGED session

Rollback(t) ==
    /\ Discard(t)
    /\ hook' = [hook EXCEPT ![t] = Off]
    /\ UNCHANGED session

\* mutant: onSuccess reads in the snapshot of the request, before its commit
LoadEarly(t) ==
    /\ hook[t] = Armed \/ hook[t] = Due
    /\ hook' = [hook EXCEPT ![t] = Loaded(loadUser(Me(t)))]
    /\ UNCHANGED <<db, tx, session>>

\* PrincipalHelper.handleUpdate loads the account the session is signed in with,
\* then sets the authentication of the session.
Load(t) ==
    /\ hook[t] = Due
    /\ hook' = [hook EXCEPT ![t] = Loaded(loadUser(Me(t)))]
    /\ UNCHANGED <<db, tx, session>>

Install(t) ==
    /\ hook[t].st = "loaded"
    /\ Idle(t)
    /\ session' = [session EXCEPT ![SessionOf[t]] = hook[t].who]
    /\ hook' = [hook EXCEPT ![t] = Off]
    /\ UNCHANGED <<db, tx>>

\* onSuccess throws: the roles are committed, the principal is not renewed.
HookFails(t) ==
    /\ hook[t] = Due
    /\ hook' = [hook EXCEPT ![t] = Off]
    /\ UNCHANGED <<db, tx, session>>

-----------------------------------------------------------------------------
(* Sessions *)

SignIn(s) ==
    /\ session[s] = Nobody
    /\ Live(db[Owner[s]])
    /\ db[Owner[s]].enabled
    /\ session' = [session EXCEPT ![s] = loadUser(Owner[s])]
    /\ UNCHANGED <<db, tx, hook>>

\* The session ends; what its requests still do to it is done to nobody's.
SignOut(s) ==
    /\ session[s] # Nobody
    /\ session' = [session EXCEPT ![s] = Nobody]
    /\ hook' = [t \in Threads |-> IF SessionOf[t] = s THEN Off ELSE hook[t]]
    /\ UNCHANGED <<db, tx>>

-----------------------------------------------------------------------------
\* The population files bring the administrators.
Init ==
    /\ \E name \in [Administrators -> Names] :
        /\ \A a, b \in Administrators : name[a] = name[b] => a = b
        /\ db = [i \in Ids |->
                   IF i \in Administrators
                   THEN [st |-> "live", version |-> 0, username |-> name[i], enabled |-> TRUE]
                   ELSE Unborn]
    /\ tx = [t \in Threads |-> NoWork]
    /\ session = [s \in Sessions |-> Nobody]
    /\ hook = [t \in Threads |-> Off]

Service(t) ==
    \/ SignUp(t) \/ CreateRole(t) \/ UpdateRole(t) \/ UpdateAuditor(t) \/ UpdateProfile(t)
    \/ DecideAuditor(t) \/ SetStatus(t)

Next ==
    \/ \E t \in Threads :
        Service(t) \/ Commit(t) \/ Rollback(t) \/ Load(t) \/ Install(t) \/ HookFails(t)
    \/ \E s \in Sessions : SignIn(s) \/ SignOut(s)

Spec == Init /\ [][Next]_vars

-----------------------------------------------------------------------------
(* Properties *)

\* Rows, pending changes and principals are what their classes say.
TypeOK ==
    /\ db = [i \in Ids |-> db[i]]
    /\ \A i \in Ids : db[i] \in RowOf(i)
    /\ tx = [t \in Threads |-> tx[t]]
    /\ \A t \in Threads : \A i \in DOMAIN tx[t] :
        /\ i \in Ids
        /\ tx[t][i].old \in RowOf(i)
        /\ tx[t][i].new \in RowOf(i)
    /\ session \in [Sessions -> Principal]
    /\ hook \in [Threads -> [st : {"off", "armed", "due", "loaded"}, who : Principal]]

\* Nobody audits who has not asked to: the role an administrator's decision saves
\* goes to the account whose request he decided, whatever else is pending or
\* rolled back, and no later step leaves an Auditor without that request.
AuditorsAsked ==
    \A r \in Roles :
        Live(db[r]) /\ db[r].kind = "Auditor" =>
            RolesOf(db[r].userAccount, "NotActiveAuditor") # {}

\* A user has one role of each kind he may ask for: what authorise did not find
\* is still not there when the role is flushed.  This holds as long as a user
\* sends one request at a time; with two, both are stored.
OneOfAKind ==
    \A a \in UserAccounts, kind \in Requested :
        \A r, q \in RolesOf(a, kind) : r = q

\* A session only claims roles its account really has, though it is told of
\* them while others are rolled back.
PrincipalBacked ==
    \A s \in Sessions : session[s] # Nobody => session[s].kinds \subseteq KindsOf(session[s].account)

\* A principal that is installed knows every role its user has asked for and
\* got by then: the renewal never misses what the same session has just done.
RenewedIsComplete ==
    [][\A s \in Sessions :
          session'[s] \notin {session[s], Nobody} =>
              KindsOf(session'[s].account) \ {"Auditor"} \subseteq session'[s].kinds]_vars

\* An account is disabled, or enabled, by a request that set out to do so: an
\* owner who saves his profile, from what he read before, does not undo it.
StatusOnPurpose ==
    [][\A a \in UserAccounts :
          Live(db[a]) /\ db'[a].enabled # db[a].enabled =>
              \E t \in Threads :
                  /\ a \in DOMAIN tx[t] /\ tx'[t] = NoWork
                  /\ tx[t][a].new.enabled # tx[t][a].old.enabled]_vars

\* UserAccount.addRole asserts that an account has no role of the class yet.
OneRoleOfEachClass ==
    \A a \in UserAccounts, kind \in Kinds :
        \A r, q \in RolesOf(a, kind) : r = q

=============================================================================
