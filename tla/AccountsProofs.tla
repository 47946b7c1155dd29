--------------------------- MODULE AccountsProofs ---------------------------
(***************************************************************************)
(* What Accounts guarantees for any number of accounts, sessions and       *)
(* requests.  No role is ever taken away and none changes hands, so what a *)
(* principal once copied stays true.  What authorise found missing is      *)
(* still missing at the flush when a user sends one request at a time.     *)
(***************************************************************************)
EXTENDS Accounts, TransactionsProofs

\* What a transaction may do to a row: nothing is deleted, no role changes hands.
LawfulChange(i, was, new) ==
    /\ was \in RowOf(i) /\ was # Gone
    /\ new \in RowOf(i) /\ Live(new)
    /\ Raises(was, new)
    /\ i \in Roles /\ Live(was) => new.userAccount = was.userAccount /\ new.kind = was.kind

LawfulWork(w) == \A i \in DOMAIN w : i \in Ids /\ LawfulChange(i, w[i].old, w[i].new)

PendingLawful == \A t \in Threads : LawfulWork(tx[t])

\* A principal claims no role that its account has not.
TrueOf(p) == p.kinds \subseteq KindsOf(p.account)

PrincipalsTrue ==
    /\ \A s \in Sessions : TrueOf(session[s])
    /\ \A t \in Threads : TrueOf(hook[t].who)

IInv == TypeOK /\ PendingLawful /\ OptimisticReads /\ PrincipalsTrue

-----------------------------------------------------------------------------
(* Rows *)

LEMMA RowKinds ==
    /\ \A i \in UserAccounts : RowOf(i) = {Unborn, Gone} \cup UserAccountRow
    /\ \A i \in Roles : RowOf(i) = {Unborn, Gone} \cup UserRoleRow
BY ConstantsTyped DEF RowOf

LEMMA LiveRows ==
    \A row \in UserAccountRow \cup UserRoleRow :
        Live(row) /\ row.version \in Nat /\ row # Unborn /\ row # Gone
BY BlankRows DEF Live, UserAccountRow, UserRoleRow

\* What the services make of a row.
LEMMA ChangedRows ==
    /\ \A row \in UserAccountRow : \A enabled \in BOOLEAN :
          /\ Bump(row) \in UserAccountRow /\ Bump(row).version = row.version + 1
          /\ [Bump(row) EXCEPT !.enabled = enabled] \in UserAccountRow
          /\ [Bump(row) EXCEPT !.enabled = enabled].version = row.version + 1
    /\ \A row \in UserRoleRow : \A enabled \in BOOLEAN :
          \A new \in {Bump(row), [Bump(row) EXCEPT !.enabled = enabled]} :
              /\ new \in UserRoleRow /\ new.version = row.version + 1
              /\ new.userAccount = row.userAccount /\ new.kind = row.kind
<1>1. ASSUME NEW row \in UserAccountRow
      PROVE  Bump(row) \in UserAccountRow /\ Bump(row).version = row.version + 1
  BY DEF Bump, UserAccountRow
<1>2. ASSUME NEW row \in UserAccountRow, NEW enabled \in BOOLEAN
      PROVE  /\ [row EXCEPT !.enabled = enabled] \in UserAccountRow
             /\ [row EXCEPT !.enabled = enabled].version = row.version
  BY DEF UserAccountRow
<1>3. ASSUME NEW row \in UserRoleRow
      PROVE  /\ Bump(row) \in UserRoleRow /\ Bump(row).version = row.version + 1
             /\ Bump(row).userAccount = row.userAccount /\ Bump(row).kind = row.kind
  BY DEF Bump, UserRoleRow
<1>4. ASSUME NEW row \in UserRoleRow, NEW enabled \in BOOLEAN
      PROVE  /\ [row EXCEPT !.enabled = enabled] \in UserRoleRow
             /\ [row EXCEPT !.enabled = enabled].version = row.version
             /\ [row EXCEPT !.enabled = enabled].userAccount = row.userAccount
             /\ [row EXCEPT !.enabled = enabled].kind = row.kind
  BY DEF UserRoleRow
<1>5. QED
  BY <1>1, <1>2, <1>3, <1>4

LEMMA NewRows ==
    /\ \A n \in Names :
          [st |-> "live", version |-> 0, username |-> n, enabled |-> TRUE] \in UserAccountRow
    /\ \A a \in UserAccounts, kind \in Kinds :
          /\ NewRole(a, kind) \in UserRoleRow
          /\ NewRole(a, kind).userAccount = a /\ NewRole(a, kind).kind = kind
BY DEF NewRole, UserAccountRow, UserRoleRow

LEMMA TypedTables ==
    ASSUME TypeOK PROVE Tables /\ AllVersioned
<1>1. Tables
  BY DEF TypeOK, Tables
<1>2. \A i \in Ids : \A row \in RowOf(i) : Versioned(row)
  BY RowKinds, LiveRows, IdsAre DEF Versioned
<1>3. AllVersioned
  BY <1>2 DEF TypeOK, AllVersioned
<1>4. QED
  BY <1>1, <1>3

LEMMA CommittedRows ==
    ASSUME TypeOK
    PROVE  /\ \A i \in UserAccounts : Live(db[i]) => db[i] \in UserAccountRow
           /\ \A i \in Roles : Live(db[i]) => db[i] \in UserRoleRow
<1>1. \A i \in Ids : db[i] \in RowOf(i)
  BY DEF TypeOK
<1>2. QED
  BY <1>1, RowKinds, BlankRows, IdsAre

-----------------------------------------------------------------------------
(* Service steps *)

\* A role its user has asked for is the only one inserted, and the first of its kind.
Careful(t, w) ==
    \A r \in Roles \cap DOMAIN w :
        w[r].old = Unborn /\ w[r].new.kind \in Requested =>
            /\ SignedIn(t) /\ w[r].new.userAccount = Me(t)
            /\ RolesOf(Me(t), w[r].new.kind) = {}
            /\ DOMAIN w = {r}

\* An Auditor is only inserted for an account that has asked.
Appointed(w) ==
    \A r \in Roles \cap DOMAIN w :
        w[r].old = Unborn /\ w[r].new.kind = "Auditor" =>
            RolesOf(w[r].new.userAccount, "NotActiveAuditor") # {}

Safe(t, w) == LawfulWork(w) /\ ReadHere(w) /\ Careful(t, w) /\ Appointed(w)

Served(t) == \E w : \E next \in {Off, Armed} : Serve(t, w, next) /\ Safe(t, w)

LEMMA InsertIsLawful ==
    ASSUME NEW i \in Ids, NEW row \in RowOf(i), Live(row)
    PROVE  LawfulChange(i, Unborn, row)
BY BlankRows DEF LawfulChange, RowOf, Raises

LEMMA UpdateIsLawful ==
    ASSUME TypeOK, NEW i \in Ids, Live(db[i]), NEW row \in RowOf(i), Live(row),
           row.version = db[i].version + 1,
           i \in Roles => row.userAccount = db[i].userAccount /\ row.kind = db[i].kind
    PROVE  LawfulChange(i, db[i], row)
<1>1. db[i] \in RowOf(i) /\ db[i] # Gone
  BY BlankRows DEF TypeOK
<1>2. db[i].version \in Nat
  BY <1>1, TypedTables, BlankRows DEF AllVersioned, Versioned
<1>3. Raises(db[i], row)
  BY <1>2 DEF Raises
<1>4. QED
  BY <1>1, <1>3 DEF LawfulChange

LEMMA RoleBumpIsLawful ==
    ASSUME TypeOK, NEW r \in Roles, Live(db[r]), NEW enabled \in BOOLEAN,
           NEW row \in {Bump(db[r]), [Bump(db[r]) EXCEPT !.enabled = enabled]}
    PROVE  LawfulChange(r, db[r], row)
<1>1. db[r] \in UserRoleRow /\ r \in Ids
  BY CommittedRows, IdsAre
<1>2. /\ row \in UserRoleRow /\ row.version = db[r].version + 1
      /\ row.userAccount = db[r].userAccount /\ row.kind = db[r].kind
  BY <1>1, ChangedRows
<1>3. row \in RowOf(r) /\ Live(row)
  BY <1>2, RowKinds, LiveRows
<1>4. QED
  BY <1>1, <1>2, <1>3, UpdateIsLawful

LEMMA AccountWriteIsSafe ==
    ASSUME NEW t \in Threads, NEW a \in UserAccounts, NEW row, LawfulChange(a, db[a], row)
    PROVE  Safe(t, Write(a, row))
<1>1. a \in Ids /\ a \notin Roles
  BY IdsAre, ConstantsTyped
<1>2. QED
  BY <1>1 DEF Safe, LawfulWork, ReadHere, Careful, Appointed, Write

LEMMA AccountServicesAreSafe ==
    ASSUME TypeOK, NEW t \in Threads, SignUp(t) \/ UpdateProfile(t) \/ SetStatus(t)
    PROVE  Served(t)
<1>1. CASE SignUp(t)
  <2> DEFINE a == Owner[SessionOf[t]]
  <2>1. PICK n \in Names :
          FreshId(a) /\ Serve(t, Write(a, [st |-> "live", version |-> 0, username |-> n,
                                           enabled |-> TRUE]), Off)
    BY <1>1 DEF SignUp
  <2> DEFINE row == [st |-> "live", version |-> 0, username |-> n, enabled |-> TRUE]
  <2>2. a \in UserAccounts /\ a \in Ids
    BY ConstantsTyped, IdsAre
  <2>3. row \in UserAccountRow /\ db[a] = Unborn
    BY <2>1, NewRows DEF FreshId
  <2>4. Serve(t, Write(a, row), Off)
    BY <2>1
  <2> HIDE DEF row, a
  <2>5. LawfulChange(a, db[a], row)
    BY <2>2, <2>3, RowKinds, LiveRows, InsertIsLawful
  <2>6. QED
    BY <2>2, <2>4, <2>5, AccountWriteIsSafe DEF Served
<1>2. CASE UpdateProfile(t)
  <2> DEFINE a == Me(t)
  <2>1. a # NoAccount /\ Live(db[a]) /\ Serve(t, Write(a, Bump(db[a])), Armed)
    BY <1>2 DEF UpdateProfile, SignedIn, Editable
  <2>2. a \in UserAccounts /\ a \in Ids /\ a \notin Roles
    BY <2>1, ConstantsTyped, IdsAre DEF TypeOK, Me, Principal
  <2> HIDE DEF a
  <2>3. Bump(db[a]) \in UserAccountRow /\ Bump(db[a]).version = db[a].version + 1
    BY <2>1, <2>2, CommittedRows, ChangedRows
  <2>4. LawfulChange(a, db[a], Bump(db[a]))
    BY <2>1, <2>2, <2>3, RowKinds, LiveRows, UpdateIsLawful
  <2>5. QED
    BY <2>1, <2>2, <2>4, AccountWriteIsSafe DEF Served
<1>3. CASE SetStatus(t)
  <2>1. PICK a \in UserAccounts, enabled \in BOOLEAN :
          Live(db[a]) /\ Serve(t, Write(a, [Bump(db[a]) EXCEPT !.enabled = enabled]), Off)
    BY <1>3 DEF SetStatus, Editable
  <2> DEFINE row == [Bump(db[a]) EXCEPT !.enabled = enabled]
  <2>2. a \in Ids /\ a \notin Roles
    BY ConstantsTyped, IdsAre
  <2>3. row \in UserAccountRow /\ row.version = db[a].version + 1
    BY <2>1, CommittedRows, ChangedRows
  <2>4. Serve(t, Write(a, row), Off)
    BY <2>1
  <2> HIDE DEF row
  <2>5. LawfulChange(a, db[a], row)
    BY <2>1, <2>2, <2>3, RowKinds, LiveRows, UpdateIsLawful
  <2>6. QED
    BY <2>4, <2>5, AccountWriteIsSafe DEF Served
<1>4. QED
  BY <1>1, <1>2, <1>3

LEMMA RoleServicesAreSafe ==
    ASSUME TypeOK, NEW t \in Threads, CreateRole(t) \/ UpdateRole(t) \/ UpdateAuditor(t)
    PROVE  Served(t)
<1>1. CASE CreateRole(t)
  <2>1. PICK r \in Roles, kind \in Requested :
          /\ SignedIn(t) /\ FreshId(r) /\ RolesOf(Me(t), kind) = {}
          /\ Serve(t, Write(r, NewRole(Me(t), kind)), Armed)
    BY <1>1 DEF CreateRole
  <2> DEFINE row == NewRole(Me(t), kind)
  <2>2. Me(t) \in UserAccounts /\ kind \in Kinds /\ r \in Ids
    BY <2>1, ConstantsTyped, IdsAre DEF TypeOK, Me, Principal, SignedIn, Kinds
  <2>3. row \in UserRoleRow /\ row.userAccount = Me(t) /\ row.kind = kind /\ db[r] = Unborn
    BY <2>1, <2>2, NewRows DEF FreshId
  <2> HIDE DEF row
  <2>4. LawfulChange(r, db[r], row)
    BY <2>2, <2>3, RowKinds, LiveRows, InsertIsLawful
  <2>5. Safe(t, Write(r, row))
    <3>1. kind # "Auditor"
      BY <2>1, ConstantsTyped DEF Requested
    <3>2. QED
      BY <2>1, <2>2, <2>3, <2>4, <3>1 DEF Safe, LawfulWork, ReadHere, Careful, Appointed, Write
  <2>6. QED
    BY <2>1, <2>5 DEF Served, row
<1>2. CASE UpdateRole(t)
  <2>1. PICK r \in Roles, kind \in SelfMade :
          Live(db[r]) /\ Serve(t, Write(r, Bump(db[r])), Armed)
    BY <1>2 DEF UpdateRole, Editable
  <2>2. LawfulChange(r, db[r], Bump(db[r])) /\ r \in Ids
    BY <2>1, RoleBumpIsLawful, IdsAre
  <2>3. Safe(t, Write(r, Bump(db[r])))
    BY <2>1, <2>2, BlankRows DEF Safe, LawfulWork, ReadHere, Careful, Appointed, Write
  <2>4. QED
    BY <2>1, <2>3 DEF Served
<1>3. CASE UpdateAuditor(t)
  <2>1. PICK n \in Roles : \E auditors \in {{}} \cup {{r} : r \in Roles} :
          /\ \A r \in {n} \cup auditors : Live(db[r])
          /\ Serve(t, Changes([r \in {n} \cup auditors |-> Bump(db[r])]), Armed)
    BY <1>3 DEF UpdateAuditor, Editable
  <2>2. PICK auditors \in SUBSET Roles :
          /\ \A r \in {n} \cup auditors : Live(db[r])
          /\ Serve(t, Changes([r \in {n} \cup auditors |-> Bump(db[r])]), Armed)
    BY <2>1
  <2> DEFINE w == Changes([r \in {n} \cup auditors |-> Bump(db[r])])
  <2>3. /\ DOMAIN w = {n} \cup auditors
        /\ \A r \in DOMAIN w : w[r].old = db[r] /\ w[r].new = Bump(db[r])
    BY DEF Changes
  <2> HIDE DEF w
  <2>4. \A r \in DOMAIN w : r \in Roles /\ r \in Ids /\ LawfulChange(r, db[r], Bump(db[r]))
    BY <2>2, <2>3, RoleBumpIsLawful, IdsAre
  <2>5. LawfulWork(w) /\ ReadHere(w)
    BY <2>3, <2>4 DEF LawfulWork, ReadHere
  <2>6. \A r \in DOMAIN w : w[r].old # Unborn
    BY <2>2, <2>3, BlankRows
  <2>7. Safe(t, w)
    BY <2>5, <2>6 DEF Safe, Careful, Appointed
  <2>8. QED
    BY <2>2, <2>7 DEF Served, w
<1>4. QED
  BY <1>1, <1>2, <1>3

LEMMA DecisionIsSafe ==
    ASSUME TypeOK, NEW t \in Threads, DecideAuditor(t)
    PROVE  Served(t)
<1>1. PICK n \in Roles, enabled \in BOOLEAN, decided \in SUBSET Roles,
           auditor \in SUBSET {r \in Roles : FreshId(r)} :
        /\ Live(db[n]) /\ db[n].kind = "NotActiveAuditor" /\ decided \subseteq {n}
        /\ Serve(t, Changes([i \in decided \cup auditor |->
                IF i = n THEN [Bump(db[n]) EXCEPT !.enabled = enabled]
                         ELSE NewRole(db[n].userAccount, "Auditor")]), Armed)
  BY DEF DecideAuditor
<1> DEFINE w == Changes([i \in decided \cup auditor |->
                IF i = n THEN [Bump(db[n]) EXCEPT !.enabled = enabled]
                         ELSE NewRole(db[n].userAccount, "Auditor")])
<1>2. /\ DOMAIN w = decided \cup auditor
      /\ \A i \in DOMAIN w :
            /\ w[i].old = db[i]
            /\ w[i].new = IF i = n THEN [Bump(db[n]) EXCEPT !.enabled = enabled]
                                   ELSE NewRole(db[n].userAccount, "Auditor")
  BY DEF Changes
<1> HIDE DEF w
<1>3. db[n] \in UserRoleRow /\ db[n].userAccount \in UserAccounts
  BY <1>1, CommittedRows DEF UserRoleRow
<1> DEFINE a == db[n].userAccount
<1>4. /\ NewRole(a, "Auditor") \in UserRoleRow /\ NewRole(a, "Auditor").kind = "Auditor"
      /\ NewRole(a, "Auditor").userAccount = a
  BY <1>3, NewRows DEF Kinds
<1>5. "Auditor" \notin Requested
  BY ConstantsTyped DEF Requested
<1>6. ASSUME NEW i \in DOMAIN w
      PROVE  /\ i \in Roles /\ i \in Ids /\ w[i].old = db[i]
             /\ LawfulChange(i, w[i].old, w[i].new)
             /\ w[i].old = Unborn => w[i].new.kind = "Auditor" /\ w[i].new.userAccount = a
  <2>1. CASE i = n
    <3>1. n \in Ids /\ w[n].old = db[n] /\ w[n].new = [Bump(db[n]) EXCEPT !.enabled = enabled]
      BY <1>2, <2>1, IdsAre
    <3>2. LawfulChange(n, db[n], w[n].new)
      BY <1>1, <3>1, RoleBumpIsLawful
    <3>3. QED
      BY <1>1, <2>1, <3>1, <3>2, BlankRows
  <2>2. CASE i # n
    <3>1. /\ i \in Roles /\ i \in Ids /\ w[i].old = Unborn /\ w[i].old = db[i]
          /\ w[i].new = NewRole(a, "Auditor")
      BY <1>1, <1>2, <2>2, IdsAre DEF FreshId
    <3>2. LawfulChange(i, Unborn, NewRole(a, "Auditor"))
      BY <1>4, <3>1, RowKinds, LiveRows, InsertIsLawful
    <3>3. QED
      BY <1>4, <3>1, <3>2
  <2>3. QED
    BY <2>1, <2>2
<1>7. Safe(t, w)
  <2>1. n \in RolesOf(a, "NotActiveAuditor")
    BY <1>1 DEF RolesOf
  <2>2. Appointed(w)
    BY <1>6, <2>1 DEF Appointed
  <2>3. QED
    BY <1>5, <1>6, <2>2 DEF Safe, LawfulWork, ReadHere, Careful
<1>8. QED
  BY <1>1, <1>7 DEF Served, w

LEMMA ServiceIsSafe ==
    ASSUME TypeOK, NEW t \in Threads, Service(t)
    PROVE  Served(t)
BY AccountServicesAreSafe, RoleServicesAreSafe, DecisionIsSafe DEF Service

-----------------------------------------------------------------------------
(* The inductive invariant *)

LEMMA LoadedIsTrue ==
    ASSUME TypeOK
    PROVE  \A a \in UserAccounts \cup {NoAccount} : loadUser(a) \in Principal /\ TrueOf(loadUser(a))
<1>1. ASSUME NEW a \in UserAccounts \cup {NoAccount}
      PROVE  loadUser(a) \in Principal /\ TrueOf(loadUser(a))
  <2>1. KindsOf(a) \subseteq Kinds \cup {"Administrator"}
    BY DEF KindsOf
  <2>2. loadUser(a).kinds = KindsOf(a) /\ loadUser(a).account = a
    BY DEF loadUser
  <2>3. loadUser(a) \in Principal
    BY <2>1 DEF loadUser, Principal
  <2>4. QED
    BY <2>2, <2>3 DEF TrueOf
<1>2. QED
  BY <1>1

\* Hooks and principals, typed.
Hooks == [st : {"off", "armed", "due", "loaded"}, who : Principal]

LEMMA HookStates ==
    /\ Nobody \in Principal /\ Nobody.kinds = {} /\ Nobody.account = NoAccount
    /\ Off \in Hooks /\ Off.who = Nobody /\ Armed \in Hooks /\ Armed.who = Nobody
    /\ Due \in Hooks /\ Due.who = Nobody
    /\ \A p \in Principal : Loaded(p) \in Hooks /\ Loaded(p).who = p
BY DEF Nobody, Principal, Off, Armed, Due, Loaded, Hooks

LEMMA InitInv == Init => IInv
<1> SUFFICES ASSUME Init PROVE IInv
  OBVIOUS
<1>1. PICK name \in [Administrators -> Names] :
        db = [i \in Ids |->
                   IF i \in Administrators
                   THEN [st |-> "live", version |-> 0, username |-> name[i], enabled |-> TRUE]
                   ELSE Unborn]
  BY DEF Init
<1>2. tx = [t \in Threads |-> NoWork] /\ \A t \in Threads : DOMAIN tx[t] = {}
  BY DEF Init, NoWork
<1>3. ASSUME NEW i \in Ids PROVE db[i] \in RowOf(i)
  <2>1. CASE i \in Administrators
    <3>1. db[i] = [st |-> "live", version |-> 0, username |-> name[i], enabled |-> TRUE]
      BY <1>1, <2>1
    <3>2. db[i] \in UserAccountRow
      BY <2>1, <3>1, NewRows
    <3>3. QED
      BY <2>1, <3>2, RowKinds, ConstantsTyped
  <2>2. CASE i \notin Administrators
    BY <1>1, <2>2 DEF RowOf
  <2>3. QED
    BY <2>1, <2>2
<1>4. /\ session \in [Sessions -> Principal] /\ hook \in [Threads -> Hooks]
      /\ \A s \in Sessions : session[s] = Nobody
      /\ \A t \in Threads : hook[t].who = Nobody
  BY HookStates DEF Init
<1>5. db = [i \in Ids |-> db[i]]
  BY <1>1
<1>6. TypeOK
  BY <1>2, <1>3, <1>4, <1>5 DEF TypeOK, Hooks
<1>7. PendingLawful /\ OptimisticReads
  BY <1>2 DEF PendingLawful, LawfulWork, OptimisticReads
<1>8. PrincipalsTrue
  BY <1>4, HookStates DEF PrincipalsTrue, TrueOf
<1>9. QED
  BY <1>6, <1>7, <1>8 DEF IInv

\* A step that leaves the rows alone, and gives out true principals only.
LEMMA QuietInv ==
    ASSUME IInv, db' = db,
           tx' = [u \in Threads |-> tx'[u]],
           \A u \in Threads : tx'[u] = tx[u] \/ tx'[u] = NoWork,
           session' \in [Sessions -> Principal], hook' \in [Threads -> Hooks],
           \A s \in Sessions : TrueOf(session'[s]),
           \A u \in Threads : TrueOf(hook'[u].who)
    PROVE  IInv'
<1>1. /\ tx' = [u \in Threads |-> tx'[u]]
      /\ \A u \in Threads : tx'[u] = tx[u] \/ tx'[u] = NoWork
  OBVIOUS
<1>2. TypeOK'
  <2>1. \A u \in Threads : \A i \in DOMAIN tx'[u] :
           i \in Ids /\ tx'[u][i].old \in RowOf(i) /\ tx'[u][i].new \in RowOf(i)
    BY <1>1 DEF NoWork, IInv, TypeOK
  <2>2. db' = [i \in Ids |-> db'[i]] /\ \A i \in Ids : db'[i] \in RowOf(i)
    BY DEF IInv, TypeOK
  <2>3. QED
    BY <1>1, <2>1, <2>2 DEF TypeOK, RowOf, Hooks
<1>3. PendingLawful'
  <2>1. \A u \in Threads : LawfulWork(tx'[u])
    BY <1>1 DEF NoWork, IInv, PendingLawful, LawfulWork
  <2>2. QED
    BY <2>1 DEF PendingLawful, LawfulWork, LawfulChange, RowOf
<1>4. OptimisticReads'
  BY <1>1 DEF IInv, OptimisticReads, NoWork
<1>5. PrincipalsTrue'
  <2>1. \A p : TrueOf(p) => TrueOf(p)'
    BY DEF TrueOf, KindsOf, RolesOf
  <2>2. QED
    BY <2>1 DEF PrincipalsTrue, TrueOf, KindsOf, RolesOf
<1>6. QED
  BY <1>2, <1>3, <1>4, <1>5 DEF IInv

LEMMA ServeInv ==
    ASSUME IInv, NEW t \in Threads, Served(t)
    PROVE  IInv'
<1>1. PICK w : \E next \in {Off, Armed} : Serve(t, w, next) /\ Safe(t, w)
  BY DEF Served
<1>2. PICK next \in {Off, Armed} : Serve(t, w, next)
  BY <1>1
<1>3. /\ db' = db /\ session' = session
      /\ tx' = [u \in Threads |-> tx'[u]]
      /\ \A u \in Threads : tx'[u] = IF u = t THEN w ELSE tx[u]
      /\ hook' = [hook EXCEPT ![t] = next]
  BY <1>2 DEF Serve, Hold, IInv, TypeOK
<1>4. TypeOK'
  <2>1. \A u \in Threads : \A i \in DOMAIN tx'[u] :
           i \in Ids /\ tx'[u][i].old \in RowOf(i) /\ tx'[u][i].new \in RowOf(i)
    BY <1>1, <1>3 DEF Safe, LawfulWork, LawfulChange, IInv, TypeOK
  <2>2. db' = [i \in Ids |-> db'[i]] /\ \A i \in Ids : db'[i] \in RowOf(i)
    BY <1>3 DEF IInv, TypeOK
  <2>3. hook' \in [Threads -> Hooks]
    BY <1>2, <1>3, HookStates DEF IInv, TypeOK, Hooks
  <2>4. session' \in [Sessions -> Principal]
    BY <1>3 DEF IInv, TypeOK
  <2>5. QED
    BY <1>3, <2>1, <2>2, <2>3, <2>4 DEF TypeOK, RowOf, Hooks
<1>5. PendingLawful'
  <2>1. \A u \in Threads : LawfulWork(tx'[u])
    BY <1>1, <1>3 DEF IInv, PendingLawful, Safe
  <2>2. QED
    BY <2>1 DEF PendingLawful, LawfulWork, LawfulChange, RowOf
<1>6. OptimisticReads'
  BY <1>1, <1>2, HoldKeepsReads, TypedTables DEF IInv, Serve, Safe
<1>7. PrincipalsTrue'
  <2>1. \A u \in Threads : hook'[u].who \in {Nobody, hook[u].who}
    BY <1>2, <1>3, HookStates DEF IInv, TypeOK
  <2>2. TrueOf(Nobody)
    BY HookStates DEF TrueOf
  <2>3. QED
    BY <1>3, <2>1, <2>2 DEF IInv, PrincipalsTrue, TrueOf, KindsOf, RolesOf
<1>8. QED
  BY <1>4, <1>5, <1>6, <1>7 DEF IInv

\* A flush replaces rows as they were read.
LEMMA FlushedRows ==
    ASSUME IInv, NEW t \in Threads, Flush(t)
    PROVE  /\ \A i \in Ids : IF i \in DOMAIN tx[t]
                             THEN /\ db'[i] = tx[t][i].new /\ db[i] = tx[t][i].old
                                  /\ LawfulChange(i, db[i], db'[i])
                             ELSE db'[i] = db[i]
           /\ DOMAIN tx[t] \subseteq Ids
           /\ db' = [i \in Ids |-> db'[i]]
<1>1. Tables /\ AllVersioned /\ OptimisticReads
  BY TypedTables DEF IInv
<1>2. \A i \in DOMAIN tx[t] : db[i] = tx[t][i].old
  BY <1>1, UnstaleIsUnchanged DEF Flush
<1>3. QED
  BY <1>1, <1>2 DEF Flush, After, IInv, PendingLawful, LawfulWork, Tables

\* Roles stay with their accounts.
LEMMA RolesStay ==
    ASSUME IInv, NEW t \in Threads, Flush(t), NEW r \in Roles, Live(db[r])
    PROVE  Live(db'[r]) /\ db'[r].userAccount = db[r].userAccount /\ db'[r].kind = db[r].kind
BY FlushedRows, IdsAre DEF LawfulChange

LEMMA KindsGrow ==
    ASSUME IInv, NEW t \in Threads, Flush(t)
    PROVE  \A a : KindsOf(a) \subseteq KindsOf(a)'
<1>1. ASSUME NEW a, NEW kind \in Kinds, RolesOf(a, kind) # {}
      PROVE  RolesOf(a, kind)' # {}
  BY <1>1, RolesStay DEF RolesOf
<1>2. QED
  BY <1>1 DEF KindsOf

LEMMA CommitInv ==
    ASSUME IInv, NEW t \in Threads, Commit(t)
    PROVE  IInv'
<1>1. /\ Flush(t) /\ session' = session
      /\ tx' = [u \in Threads |-> tx'[u]]
      /\ \A u \in Threads : tx'[u] = IF u = t THEN NoWork ELSE tx[u]
      /\ hook' = [hook EXCEPT ![t] = IF @ = Armed THEN Due ELSE @]
  BY DEF Commit, Flush, IInv, TypeOK
<1>2. hook' \in [Threads -> Hooks] /\ \A u \in Threads : hook'[u].who \in {Nobody, hook[u].who}
  BY <1>1, HookStates DEF IInv, TypeOK, Hooks
<1>3. TypeOK'
  <2>1. \A i \in Ids : db'[i] \in RowOf(i)
    BY <1>1, FlushedRows DEF IInv, TypeOK, LawfulChange
  <2>2. \A u \in Threads : \A i \in DOMAIN tx'[u] :
           i \in Ids /\ tx'[u][i].old \in RowOf(i) /\ tx'[u][i].new \in RowOf(i)
    BY <1>1 DEF NoWork, IInv, TypeOK
  <2>3. db' = [i \in Ids |-> db'[i]]
    BY <1>1, FlushedRows
  <2>4. session' \in [Sessions -> Principal]
    BY <1>1 DEF IInv, TypeOK
  <2>5. QED
    BY <1>1, <1>2, <2>1, <2>2, <2>3, <2>4 DEF TypeOK, RowOf, Hooks
<1>4. PendingLawful'
  <2>1. \A u \in Threads : LawfulWork(tx'[u])
    BY <1>1 DEF NoWork, IInv, PendingLawful, LawfulWork
  <2>2. QED
    BY <2>1 DEF PendingLawful, LawfulWork, LawfulChange, RowOf
<1>5. OptimisticReads'
  <2>1. \A i \in Ids : \A row \in RowOf(i) : Versioned(row)
    BY RowKinds, LiveRows, IdsAre DEF Versioned
  <2>2. \A i \in DOMAIN tx[t] : Versioned(tx[t][i].new) /\ Raises(tx[t][i].old, tx[t][i].new)
    BY <2>1 DEF IInv, PendingLawful, LawfulWork, LawfulChange
  <2>3. QED
    BY <1>1, <2>2, FlushKeepsReads, TypedTables DEF IInv
<1>6. PrincipalsTrue'
  <2>1. \A a : KindsOf(a) \subseteq KindsOf(a)'
    BY <1>1, KindsGrow
  <2>2. TrueOf(Nobody)
    BY HookStates DEF TrueOf
  <2>3. \A p : TrueOf(p) => p.kinds \subseteq KindsOf(p.account)'
    BY <2>1 DEF TrueOf
  <2>4. \A p : TrueOf(p) => TrueOf(p)'
    BY <2>3 DEF TrueOf
  <2>5. /\ \A s \in Sessions : TrueOf(session'[s])
        /\ \A u \in Threads : TrueOf(hook'[u].who)
    BY <1>1, <1>2, <2>2 DEF IInv, PrincipalsTrue
  <2>6. QED
    BY <2>4, <2>5 DEF PrincipalsTrue, TrueOf, KindsOf, RolesOf
<1>7. QED
  BY <1>3, <1>4, <1>5, <1>6 DEF IInv

LEMMA NextInv == IInv /\ [Next]_vars => IInv'
<1> SUFFICES ASSUME IInv, [Next]_vars PROVE IInv'
  OBVIOUS
<1>1. /\ session \in [Sessions -> Principal] /\ hook \in [Threads -> Hooks]
      /\ tx = [u \in Threads |-> tx[u]]
      /\ \A s \in Sessions : TrueOf(session[s])
      /\ \A u \in Threads : TrueOf(hook[u].who) /\ hook[u].who \in Principal
      /\ \A u \in Threads : Me(u) \in UserAccounts \cup {NoAccount} /\ SessionOf[u] \in Sessions
      /\ TrueOf(Nobody)
  BY ConstantsTyped, HookStates DEF IInv, TypeOK, PrincipalsTrue, Hooks, Me, Principal, TrueOf
<1>2. ASSUME NEW t \in Threads, Service(t)
      PROVE  IInv'
  BY <1>2, ServiceIsSafe, ServeInv DEF IInv
<1>3. ASSUME NEW t \in Threads, Commit(t)
      PROVE  IInv'
  BY <1>3, CommitInv
<1>4. ASSUME NEW t \in Threads, Rollback(t)
      PROVE  IInv'
  <2>1. /\ db' = db /\ session' = session
        /\ tx' = [u \in Threads |-> tx'[u]]
        /\ \A u \in Threads : tx'[u] = tx[u] \/ tx'[u] = NoWork
        /\ hook' = [hook EXCEPT ![t] = Off]
    BY <1>1, <1>4 DEF Rollback, Discard
  <2>2. hook' \in [Threads -> Hooks] /\ \A u \in Threads : hook'[u].who \in {Nobody, hook[u].who}
    BY <1>1, <2>1, HookStates
  <2>3. QED
    BY <1>1, <2>1, <2>2, QuietInv
<1>5. ASSUME NEW t \in Threads, Load(t)
      PROVE  IInv'
  <2> DEFINE p == loadUser(Me(t))
  <2>1. p \in Principal /\ TrueOf(p)
    BY <1>1, LoadedIsTrue DEF IInv
  <2>2. db' = db /\ tx' = tx /\ session' = session /\ hook' = [hook EXCEPT ![t] = Loaded(p)]
    BY <1>5 DEF Load
  <2> HIDE DEF p
  <2>3. hook' \in [Threads -> Hooks] /\ \A u \in Threads : hook'[u].who \in {p, hook[u].who}
    BY <1>1, <2>1, <2>2, HookStates
  <2>4. QED
    BY <1>1, <2>1, <2>2, <2>3, QuietInv
<1>6. ASSUME NEW t \in Threads, Install(t)
      PROVE  IInv'
  <2>1. /\ db' = db /\ tx' = tx
        /\ session' = [session EXCEPT ![SessionOf[t]] = hook[t].who]
        /\ hook' = [hook EXCEPT ![t] = Off]
    BY <1>6 DEF Install
  <2>2. hook' \in [Threads -> Hooks] /\ \A u \in Threads : hook'[u].who \in {Nobody, hook[u].who}
    BY <1>1, <2>1, HookStates
  <2>3. session' \in [Sessions -> Principal] /\ \A s \in Sessions : session'[s] \in {hook[t].who, session[s]}
    BY <1>1, <2>1
  <2>4. \A s \in Sessions : TrueOf(session'[s])
    BY <1>1, <2>3
  <2>5. QED
    BY <1>1, <2>1, <2>2, <2>3, <2>4, QuietInv
<1>7. ASSUME NEW t \in Threads, HookFails(t)
      PROVE  IInv'
  <2>1. db' = db /\ tx' = tx /\ session' = session /\ hook' = [hook EXCEPT ![t] = Off]
    BY <1>7 DEF HookFails
  <2>2. hook' \in [Threads -> Hooks] /\ \A u \in Threads : hook'[u].who \in {Nobody, hook[u].who}
    BY <1>1, <2>1, HookStates
  <2>3. QED
    BY <1>1, <2>1, <2>2, QuietInv
<1>8. ASSUME NEW s \in Sessions, SignIn(s)
      PROVE  IInv'
  <2> DEFINE p == loadUser(Owner[s])
  <2>1. db' = db /\ tx' = tx /\ hook' = hook /\ session' = [session EXCEPT ![s] = p]
    BY <1>8 DEF SignIn
  <2>2. p \in Principal /\ TrueOf(p)
    BY ConstantsTyped, LoadedIsTrue DEF IInv
  <2> HIDE DEF p
  <2>3. session' \in [Sessions -> Principal] /\ \A r \in Sessions : session'[r] \in {p, session[r]}
    BY <1>1, <2>1, <2>2
  <2>4. \A r \in Sessions : TrueOf(session'[r])
    BY <1>1, <2>2, <2>3
  <2>5. QED
    BY <1>1, <2>1, <2>3, <2>4, QuietInv
<1>9. ASSUME NEW s \in Sessions, SignOut(s)
      PROVE  IInv'
  <2>1. /\ db' = db /\ tx' = tx
        /\ session' = [session EXCEPT ![s] = Nobody]
        /\ hook' = [u \in Threads |-> IF SessionOf[u] = s THEN Off ELSE hook[u]]
    BY <1>9 DEF SignOut
  <2>2. hook' \in [Threads -> Hooks] /\ \A u \in Threads : hook'[u].who \in {Nobody, hook[u].who}
    BY <1>1, <2>1, HookStates
  <2>3. session' \in [Sessions -> Principal] /\ \A r \in Sessions : session'[r] \in {Nobody, session[r]}
    BY <1>1, <2>1, HookStates
  <2>4. \A r \in Sessions : TrueOf(session'[r])
    BY <1>1, <2>3
  <2>5. QED
    BY <1>1, <2>1, <2>2, <2>3, <2>4, QuietInv
<1>10. CASE UNCHANGED vars
  BY <1>1, <1>10, QuietInv DEF vars
<1>11. QED
  BY <1>2, <1>3, <1>4, <1>5, <1>6, <1>7, <1>8, <1>9, <1>10 DEF Next

LEMMA Invariance == Spec => []IInv
BY InitInv, NextInv, PTL DEF Spec

-----------------------------------------------------------------------------
(* The theorems *)

\* Rows, pending changes, principals and hooks keep to their types.
THEOREM TypeCorrect == Spec => []TypeOK
BY Invariance, PTL DEF IInv

\* A session never claims a role its account has not, whatever is rolled back and
\* however late a renewal comes.
THEOREM PrincipalsAreBacked == Spec => []PrincipalBacked
<1>1. IInv => PrincipalBacked
  BY DEF IInv, PrincipalsTrue, TrueOf, PrincipalBacked
<1>2. QED
  BY <1>1, Invariance, PTL

\* No request changes the status of an account that did not mean to, though every
\* update writes the row as a whole.
THEOREM StatusIsMeant == Spec => StatusOnPurpose
<1>1. ASSUME IInv, [Next]_vars, NEW a \in UserAccounts, Live(db[a]), db'[a].enabled # db[a].enabled
      PROVE  \E t \in Threads :
                /\ a \in DOMAIN tx[t] /\ tx'[t] = NoWork
                /\ tx[t][a].new.enabled # tx[t][a].old.enabled
  <2>1. ASSUME NEW t \in Threads, Service(t) PROVE db' = db
    BY <1>1, <2>1, ServiceIsSafe DEF IInv, Served, Serve, Hold
  <2>2. PICK t \in Threads : Commit(t)
    BY <1>1, <2>1 DEF Next, vars, Rollback, Discard, Load, Install, HookFails, SignIn, SignOut
  <2>3. a \in Ids /\ Flush(t)
    BY <2>2, IdsAre DEF Commit
  <2>4. a \in DOMAIN tx[t] /\ db'[a] = tx[t][a].new /\ db[a] = tx[t][a].old
    BY <1>1, <2>3, FlushedRows
  <2>5. tx'[t] = NoWork
    BY <1>1, <2>3 DEF Flush, IInv, TypeOK
  <2>6. QED
    BY <1>1, <2>4, <2>5
<1>2. IInv /\ [Next]_vars =>
        [\A a \in UserAccounts :
            Live(db[a]) /\ db'[a].enabled # db[a].enabled =>
                \E t \in Threads :
                    /\ a \in DOMAIN tx[t] /\ tx'[t] = NoWork
                    /\ tx[t][a].new.enabled # tx[t][a].old.enabled]_vars
  BY <1>1
<1>3. QED
  BY <1>2, Invariance, PTL DEF Spec, StatusOnPurpose

-----------------------------------------------------------------------------
(* Auditors.  A pending Auditor has its request already; requests are kept. *)

PendingAuditorsAsked ==
    \A t \in Threads : \A r \in Roles \cap DOMAIN tx[t] :
        tx[t][r].new.kind = "Auditor" =>
            RolesOf(tx[t][r].new.userAccount, "NotActiveAuditor") # {}

AuditorInv == IInv /\ AuditorsAsked /\ PendingAuditorsAsked

LEMMA AuditorInit == Init => AuditorInv
<1> SUFFICES ASSUME Init PROVE AuditorInv
  OBVIOUS
<1>1. \A r \in Roles : db[r] = Unborn
  BY ConstantsTyped, IdsAre DEF Init
<1>2. \A t \in Threads : DOMAIN tx[t] = {}
  BY DEF Init, NoWork
<1>3. QED
  BY <1>1, <1>2, InitInv, BlankRows DEF AuditorInv, AuditorsAsked, PendingAuditorsAsked

LEMMA AuditorServe ==
    ASSUME AuditorInv, NEW t \in Threads, Service(t)
    PROVE  AuditorsAsked' /\ PendingAuditorsAsked'
<1>1. PICK w : \E next \in {Off, Armed} : Serve(t, w, next) /\ Safe(t, w)
  BY ServiceIsSafe DEF Served, AuditorInv, IInv
<1>2. db' = db /\ \A u \in Threads : tx'[u] = IF u = t THEN w ELSE tx[u]
  BY <1>1 DEF Serve, Hold, AuditorInv, IInv, TypeOK
<1>3. ASSUME NEW r \in Roles \cap DOMAIN w, w[r].new.kind = "Auditor"
      PROVE  RolesOf(w[r].new.userAccount, "NotActiveAuditor") # {}
  <2>1. w[r].old = db[r] /\ LawfulChange(r, db[r], w[r].new)
    BY <1>1 DEF Safe, LawfulWork, ReadHere
  <2>2. CASE Live(db[r])
    <3>1. w[r].new.userAccount = db[r].userAccount /\ db[r].kind = "Auditor"
      BY <1>3, <2>1, <2>2 DEF LawfulChange
    <3>2. QED
      BY <2>2, <3>1 DEF AuditorInv, AuditorsAsked
  <2>3. CASE ~Live(db[r])
    <3>1. db[r] = Unborn
      BY <2>1, <2>3, RowKinds, LiveRows DEF LawfulChange
    <3>2. QED
      BY <1>1, <1>3, <2>1, <3>1 DEF Safe, Appointed
  <2>4. QED
    BY <2>2, <2>3
<1>4. \A a, kind : RolesOf(a, kind)' = RolesOf(a, kind)
  BY <1>2 DEF RolesOf
<1>5. AuditorsAsked'
  BY <1>2 DEF AuditorInv, AuditorsAsked, RolesOf
<1>6. ASSUME NEW u \in Threads, NEW r \in Roles \cap DOMAIN tx'[u], tx'[u][r].new.kind = "Auditor"
      PROVE  RolesOf(tx'[u][r].new.userAccount, "NotActiveAuditor") # {}
  BY <1>2, <1>3, <1>6 DEF AuditorInv, PendingAuditorsAsked
<1>7. PendingAuditorsAsked'
  BY <1>2, <1>6 DEF PendingAuditorsAsked, RolesOf
<1>8. QED
  BY <1>5, <1>7

LEMMA AuditorCommit ==
    ASSUME AuditorInv, NEW t \in Threads, Commit(t)
    PROVE  AuditorsAsked' /\ PendingAuditorsAsked'
<1>1. Flush(t) /\ \A u \in Threads : tx'[u] = IF u = t THEN NoWork ELSE tx[u]
  BY DEF Commit, Flush, AuditorInv, IInv, TypeOK
<1>2. ASSUME NEW a, RolesOf(a, "NotActiveAuditor") # {}
      PROVE  \E n \in Roles : Live(db'[n]) /\ db'[n].userAccount = a /\ db'[n].kind = "NotActiveAuditor"
  BY <1>1, <1>2, RolesStay DEF AuditorInv, RolesOf
<1>3. ASSUME NEW r \in Roles, Live(db'[r]), db'[r].kind = "Auditor"
      PROVE  RolesOf(db'[r].userAccount, "NotActiveAuditor") # {}
  <2>1. CASE r \in DOMAIN tx[t]
    <3>1. db'[r] = tx[t][r].new
      BY <1>1, <2>1, FlushedRows, IdsAre DEF AuditorInv
    <3>2. QED
      BY <1>3, <2>1, <3>1 DEF AuditorInv, PendingAuditorsAsked
  <2>2. CASE r \notin DOMAIN tx[t]
    <3>1. db'[r] = db[r]
      BY <1>1, <2>2, FlushedRows, IdsAre DEF AuditorInv
    <3>2. QED
      BY <1>3, <3>1 DEF AuditorInv, AuditorsAsked
  <2>3. QED
    BY <2>1, <2>2
<1>4. AuditorsAsked'
  BY <1>2, <1>3 DEF AuditorsAsked, RolesOf
<1>5. ASSUME NEW u \in Threads, NEW r \in Roles \cap DOMAIN tx'[u], tx'[u][r].new.kind = "Auditor"
      PROVE  RolesOf(tx'[u][r].new.userAccount, "NotActiveAuditor") # {}
  BY <1>1, <1>5 DEF AuditorInv, PendingAuditorsAsked, NoWork
<1>6. PendingAuditorsAsked'
  BY <1>2, <1>5 DEF PendingAuditorsAsked, RolesOf
<1>7. QED
  BY <1>4, <1>6

LEMMA AuditorNext == AuditorInv /\ [Next]_vars => AuditorInv'
<1> SUFFICES ASSUME AuditorInv, [Next]_vars PROVE AuditorInv'
  OBVIOUS
<1>1. IInv' /\ tx = [u \in Threads |-> tx[u]]
  BY NextInv DEF AuditorInv, IInv, TypeOK
<1>2. ASSUME NEW t \in Threads, Service(t)
      PROVE  AuditorInv'
  BY <1>1, <1>2, AuditorServe DEF AuditorInv
<1>3. ASSUME NEW t \in Threads, Commit(t)
      PROVE  AuditorInv'
  BY <1>1, <1>3, AuditorCommit DEF AuditorInv
<1>4. ASSUME db' = db, \A u \in Threads : tx'[u] = tx[u] \/ tx'[u] = NoWork
      PROVE  AuditorInv'
  <2>1. AuditorsAsked'
    BY <1>4 DEF AuditorInv, AuditorsAsked, RolesOf
  <2>2. PendingAuditorsAsked'
    BY <1>4 DEF AuditorInv, PendingAuditorsAsked, RolesOf, NoWork
  <2>3. QED
    BY <1>1, <2>1, <2>2 DEF AuditorInv
<1>5. ASSUME NEW t \in Threads, Rollback(t)
      PROVE  AuditorInv'
  BY <1>1, <1>4, <1>5 DEF Rollback, Discard
<1>6. ASSUME \/ \E t \in Threads : Load(t) \/ Install(t) \/ HookFails(t)
             \/ \E s \in Sessions : SignIn(s) \/ SignOut(s)
             \/ UNCHANGED vars
      PROVE  AuditorInv'
  BY <1>4, <1>6 DEF Load, Install, HookFails, SignIn, SignOut, vars
<1>7. QED
  BY <1>2, <1>3, <1>5, <1>6 DEF Next

\* Whoever is an Auditor has asked to be one: the account an administrator's
\* decision saves the role for is the one of the request, in every interleaving.
THEOREM NobodyIsDrafted == Spec => []AuditorsAsked
<1>1. AuditorInv => AuditorsAsked
  BY DEF AuditorInv
<1>2. QED
  BY <1>1, AuditorInit, AuditorNext, PTL DEF Spec

-----------------------------------------------------------------------------
(* One request at a time for each user, in all his sessions.               *)

Home(t) == Owner[SessionOf[t]]

OneRequestEach == \A t, u \in Threads : Home(t) = Home(u) => t = u

\* Sessions and hooks are about those who use the browser.
AtHome ==
    /\ \A s \in Sessions : session[s].account \in {Owner[s], NoAccount}
    /\ \A t \in Threads : hook[t].who.account \in {Home(t), NoAccount}

\* A role its user has asked for, under way.
Asked(t, r) ==
    r \in DOMAIN tx[t] /\ tx[t][r].old = Unborn /\ tx[t][r].new.kind \in Requested

StillFirst(t) ==
    \A r \in Roles : Asked(t, r) =>
        /\ tx[t][r].new.userAccount = Home(t)
        /\ RolesOf(Home(t), tx[t][r].new.kind) = {}
        /\ DOMAIN tx[t] = {r}

\* What a request has loaded after its commit misses no role its user has got.
StillComplete(t) ==
    /\ hook[t].st \in {"due", "loaded"} => Idle(t)
    /\ hook[t].st = "loaded" => KindsOf(hook[t].who.account) \ {"Auditor"} \subseteq hook[t].who.kinds

SoloInv ==
    /\ IInv /\ AtHome /\ OneOfAKind
    /\ \A t \in Threads : StillFirst(t) /\ StillComplete(t)

LEMMA Homes ==
    ASSUME IInv
    PROVE  /\ \A s \in Sessions : Owner[s] \in UserAccounts /\ Owner[s] # NoAccount
           /\ \A t \in Threads : SessionOf[t] \in Sessions /\ Home(t) \in UserAccounts /\ Home(t) # NoAccount
BY ConstantsTyped DEF Home

\* A flush brings in the role that was asked for, and no other of its kinds.
LEMMA FlushBringsAsked ==
    ASSUME SoloInv, NEW t \in Threads, Flush(t), NEW a, NEW kind \in Requested,
           NEW r \in RolesOf(a, kind)'
    PROVE  \/ r \in RolesOf(a, kind)
           \/ Asked(t, r) /\ a = Home(t) /\ kind = tx[t][r].new.kind
<1>1. r \in Roles /\ Live(db'[r]) /\ db'[r].userAccount = a /\ db'[r].kind = kind /\ r \in Ids
  BY IdsAre DEF RolesOf
<1>2. CASE Live(db[r])
  BY <1>1, <1>2, RolesStay DEF RolesOf, SoloInv
<1>3. CASE ~Live(db[r])
  <2>1. /\ r \in DOMAIN tx[t] /\ db'[r] = tx[t][r].new /\ db[r] = tx[t][r].old
        /\ LawfulChange(r, db[r], db'[r])
    BY <1>1, <1>3, FlushedRows DEF SoloInv
  <2>2. db[r] = Unborn
    BY <1>1, <1>3, <2>1, RowKinds, LiveRows DEF LawfulChange
  <2>3. Asked(t, r)
    BY <1>1, <2>1, <2>2 DEF Asked
  <2>4. QED
    BY <1>1, <2>1, <2>3 DEF SoloInv, StillFirst
<1>4. QED
  BY <1>2, <1>3

\* Another user's kinds, but for Auditor, are what they were.
LEMMA OthersKindsStay ==
    ASSUME SoloInv, NEW t \in Threads, Flush(t), NEW a, a # Home(t)
    PROVE  /\ \A kind \in Requested : RolesOf(a, kind)' \subseteq RolesOf(a, kind)
           /\ KindsOf(a)' \ {"Auditor"} \subseteq KindsOf(a)
<1>1. \A kind \in Requested : RolesOf(a, kind)' \subseteq RolesOf(a, kind)
  BY FlushBringsAsked
<1>2. \A kind \in Kinds \ {"Auditor"} : kind \in Requested
  BY DEF Kinds
<1>3. QED
  BY <1>1, <1>2 DEF KindsOf

LEMMA SoloServe ==
    ASSUME SoloInv, NEW t \in Threads, Service(t)
    PROVE  SoloInv'
<1>1. PICK w : \E next \in {Off, Armed} : Serve(t, w, next) /\ Safe(t, w)
  BY ServiceIsSafe DEF Served, SoloInv, IInv
<1>2. PICK next \in {Off, Armed} : Serve(t, w, next)
  BY <1>1
<1>3. /\ db' = db /\ session' = session
      /\ \A u \in Threads : tx'[u] = IF u = t THEN w ELSE tx[u]
      /\ \A u \in Threads : hook'[u] = IF u = t THEN next ELSE hook[u]
  BY <1>2 DEF Serve, Hold, SoloInv, IInv, TypeOK
<1>4. IInv'
  BY ServiceIsSafe, ServeInv DEF SoloInv, IInv
<1>5. AtHome'
  <2>1. next.who.account = NoAccount
    BY <1>2, HookStates
  <2>2. QED
    BY <1>3, <2>1 DEF SoloInv, AtHome, Home
<1>6. OneOfAKind'
  BY <1>3 DEF SoloInv, OneOfAKind, RolesOf
<1>7. ASSUME NEW u \in Threads, u # t
      PROVE  StillFirst(u)' /\ StillComplete(u)'
  BY <1>3, <1>7 DEF SoloInv, StillFirst, StillComplete, Asked, Home, RolesOf, KindsOf, Idle
<1>8. StillFirst(t)'
  <2>1. tx'[t] = w /\ Home(t)' = Home(t) /\ \A a, kind : RolesOf(a, kind)' = RolesOf(a, kind)
    BY <1>3 DEF Home, RolesOf
  <2>2. ASSUME NEW r \in Roles, Asked(t, r)'
        PROVE  /\ w[r].new.userAccount = Home(t)
               /\ RolesOf(Home(t), w[r].new.kind) = {}
               /\ DOMAIN w = {r}
    <3>1. r \in Roles \cap DOMAIN w /\ w[r].old = Unborn /\ w[r].new.kind \in Requested
      BY <2>1, <2>2 DEF Asked
    <3>2. /\ SignedIn(t) /\ w[r].new.userAccount = Me(t)
          /\ RolesOf(Me(t), w[r].new.kind) = {} /\ DOMAIN w = {r}
      BY <1>1, <3>1 DEF Safe, Careful
    <3>3. Me(t) = Home(t)
      BY <3>2, ConstantsTyped DEF SoloInv, AtHome, SignedIn, Me, Home
    <3>4. QED
      BY <3>2, <3>3
  <2>3. ASSUME NEW a, NEW kind, RolesOf(a, kind) = {} PROVE RolesOf(a, kind)' = {}
    BY <2>1, <2>3
  <2>4. QED
    BY <2>1, <2>2, <2>3 DEF StillFirst, RolesOf
<1>9. StillComplete(t)'
  <2>1. next.st \in {"off", "armed"}
    BY <1>2 DEF Off, Armed
  <2>2. QED
    BY <1>3, <2>1 DEF StillComplete
<1>10. QED
  BY <1>4, <1>5, <1>6, <1>7, <1>8, <1>9 DEF SoloInv

LEMMA SoloCommit ==
    ASSUME OneRequestEach, SoloInv, NEW t \in Threads, Commit(t)
    PROVE  SoloInv'
<1>1. /\ Flush(t) /\ ~Idle(t) /\ session' = session
      /\ \A u \in Threads : tx'[u] = IF u = t THEN NoWork ELSE tx[u]
      /\ \A u \in Threads : u # t => hook'[u] = hook[u]
      /\ hook'[t] \in {hook[t], Due}
  BY DEF Commit, Flush, SoloInv, IInv, TypeOK
<1>2. IInv'
  BY CommitInv DEF SoloInv
<1>3. AtHome'
  <2>1. Due.who.account = NoAccount
    BY HookStates
  <2>2. QED
    BY <1>1, <2>1 DEF SoloInv, AtHome, Home
<1>4. OneOfAKind'
  <2> SUFFICES ASSUME NEW a \in UserAccounts, NEW kind \in Requested,
                      NEW r \in RolesOf(a, kind)', NEW q \in RolesOf(a, kind)'
               PROVE  r = q
    BY DEF OneOfAKind
  <2>1. r \in Roles /\ q \in Roles
    BY DEF RolesOf
  <2>2. /\ r \in RolesOf(a, kind) \/ (Asked(t, r) /\ a = Home(t) /\ kind = tx[t][r].new.kind)
        /\ q \in RolesOf(a, kind) \/ (Asked(t, q) /\ a = Home(t) /\ kind = tx[t][q].new.kind)
    BY <1>1, FlushBringsAsked
  <2>3. CASE r \in RolesOf(a, kind) /\ q \in RolesOf(a, kind)
    BY <2>3 DEF SoloInv, OneOfAKind
  <2>4. CASE Asked(t, r) /\ a = Home(t) /\ kind = tx[t][r].new.kind
    <3>1. RolesOf(a, kind) = {} /\ DOMAIN tx[t] = {r}
      BY <2>1, <2>4 DEF SoloInv, StillFirst
    <3>2. q \in DOMAIN tx[t]
      BY <2>2, <3>1 DEF Asked
    <3>3. QED
      BY <3>1, <3>2
  <2>5. CASE Asked(t, q) /\ a = Home(t) /\ kind = tx[t][q].new.kind
    <3>1. RolesOf(a, kind) = {} /\ DOMAIN tx[t] = {q}
      BY <2>1, <2>5 DEF SoloInv, StillFirst
    <3>2. r \in DOMAIN tx[t]
      BY <2>2, <3>1 DEF Asked
    <3>3. QED
      BY <3>1, <3>2
  <2>6. QED
    BY <2>2, <2>3, <2>4, <2>5
<1>5. ASSUME NEW u \in Threads, u # t
      PROVE  StillFirst(u)' /\ StillComplete(u)'
  <2>1. Home(u) # Home(t) /\ Home(u)' = Home(u)
    BY <1>5 DEF OneRequestEach, Home
  <2>2. tx'[u] = tx[u] /\ hook'[u] = hook[u]
    BY <1>1, <1>5
  <2>3. StillFirst(u)'
    <3> SUFFICES ASSUME NEW r \in Roles, Asked(u, r)
                 PROVE  /\ tx[u][r].new.userAccount = Home(u)
                        /\ RolesOf(Home(u), tx[u][r].new.kind)' = {}
                        /\ DOMAIN tx[u] = {r}
      BY <2>1, <2>2 DEF StillFirst, Asked, RolesOf
    <3>1. /\ tx[u][r].new.userAccount = Home(u) /\ DOMAIN tx[u] = {r}
          /\ RolesOf(Home(u), tx[u][r].new.kind) = {} /\ tx[u][r].new.kind \in Requested
      BY DEF SoloInv, StillFirst, Asked
    <3>2. ASSUME NEW a, a = Home(u), NEW kind \in Requested, RolesOf(a, kind) = {}
          PROVE  RolesOf(a, kind)' = {}
      BY <1>1, <2>1, <3>2, OthersKindsStay
    <3>3. QED
      BY <2>1, <2>2, <3>1, <3>2 DEF RolesOf
  <2>4. StillComplete(u)'
    <3> DEFINE p == hook[u].who
    <3>1. Idle(u)' = Idle(u)
      BY <2>2 DEF Idle
    <3>2. ASSUME hook[u].st = "loaded"
          PROVE  KindsOf(p.account)' \ {"Auditor"} \subseteq p.kinds
      <4>1. p.account # Home(t)
        BY <2>1, Homes DEF SoloInv, AtHome
      <4>2. ASSUME NEW a, a = p.account
            PROVE  KindsOf(a)' \ {"Auditor"} \subseteq p.kinds
        <5>1. KindsOf(a)' \ {"Auditor"} \subseteq KindsOf(a)
          BY <1>1, <4>1, <4>2, OthersKindsStay
        <5>2. QED
          BY <3>2, <4>2, <5>1 DEF SoloInv, StillComplete
      <4>3. QED
        BY <2>2, <4>2 DEF KindsOf, RolesOf
    <3>3. QED
      BY <2>2, <3>1, <3>2 DEF SoloInv, StillComplete, KindsOf, RolesOf
  <2>5. QED
    BY <2>3, <2>4
<1>6. StillFirst(t)'
  BY <1>1 DEF StillFirst, Asked, NoWork
<1>7. StillComplete(t)'
  <2>1. hook'[t].st # "loaded"
    BY <1>1 DEF SoloInv, StillComplete, Due
  <2>2. Idle(t)'
    BY <1>1 DEF Idle, NoWork
  <2>3. QED
    BY <2>1, <2>2 DEF StillComplete
<1>8. QED
  BY <1>2, <1>3, <1>4, <1>5, <1>6, <1>7 DEF SoloInv

\* A step that leaves the rows alone.
LEMMA SoloQuiet ==
    ASSUME SoloInv, IInv', db' = db,
           \A u \in Threads : tx'[u] = tx[u] \/ tx'[u] = NoWork,
           \A s \in Sessions : session'[s].account \in {Owner[s], NoAccount},
           \A u \in Threads : \/ hook'[u] = hook[u]
                              \/ /\ hook'[u].who.account \in {Home(u), NoAccount}
                                 /\ StillComplete(u)'
    PROVE  SoloInv'
<1>1. AtHome'
  BY DEF SoloInv, AtHome, Home
<1>2. OneOfAKind'
  BY DEF SoloInv, OneOfAKind, RolesOf
<1>3. ASSUME NEW u \in Threads
      PROVE  StillFirst(u)' /\ StillComplete(u)'
  <2>1. CASE tx'[u] = NoWork
    <3>1. StillFirst(u)' /\ Idle(u)'
      BY <2>1 DEF StillFirst, Asked, Idle, NoWork
    <3>2. QED
      BY <3>1 DEF SoloInv, StillComplete, KindsOf, RolesOf
  <2>2. CASE tx'[u] = tx[u]
    <3>1. StillFirst(u)'
      BY <2>2 DEF SoloInv, StillFirst, Asked, Home, RolesOf
    <3>2. Idle(u)' = Idle(u)
      BY <2>2 DEF Idle
    <3>3. QED
      BY <3>1, <3>2 DEF SoloInv, StillComplete, KindsOf, RolesOf
  <2>3. QED
    BY <2>1, <2>2
<1>4. QED
  BY <1>1, <1>2, <1>3 DEF SoloInv

LEMMA SoloInit == Init => SoloInv
<1> SUFFICES ASSUME Init PROVE SoloInv
  OBVIOUS
<1>1. /\ \A t \in Threads : DOMAIN tx[t] = {} /\ hook[t] = Off
      /\ \A s \in Sessions : session[s] = Nobody
  BY DEF Init, NoWork
<1>2. AtHome
  BY <1>1, HookStates DEF AtHome
<1>3. OneOfAKind
  <2>1. \A r \in Roles : db[r] = Unborn
    BY ConstantsTyped, IdsAre DEF Init
  <2>2. QED
    BY <2>1, BlankRows DEF OneOfAKind, RolesOf
<1>4. \A t \in Threads : StillFirst(t) /\ StillComplete(t)
  BY <1>1 DEF StillFirst, Asked, StillComplete, Off
<1>5. QED
  BY <1>2, <1>3, <1>4, InitInv DEF SoloInv

LEMMA SoloNext == OneRequestEach /\ SoloInv /\ [Next]_vars => SoloInv'
<1> SUFFICES ASSUME OneRequestEach, SoloInv, [Next]_vars PROVE SoloInv'
  OBVIOUS
<1>1. /\ IInv'
      /\ \A u \in Threads : SessionOf[u] \in Sessions /\ Me(u) \in {Home(u), NoAccount}
      /\ \A s \in Sessions : session[s].account \in {Owner[s], NoAccount}
      /\ session = [s \in Sessions |-> session[s]] /\ hook = [u \in Threads |-> hook[u]]
      /\ tx = [u \in Threads |-> tx[u]]
  BY NextInv, Homes DEF SoloInv, IInv, AtHome, Me, Home, TypeOK
<1>2. \A u \in Threads : hook'[u] = Off =>
          hook'[u].who.account \in {Home(u), NoAccount} /\ StillComplete(u)'
  BY HookStates DEF StillComplete, Off
<1>3. ASSUME NEW t \in Threads, Service(t)
      PROVE  SoloInv'
  BY <1>3, SoloServe
<1>4. ASSUME NEW t \in Threads, Commit(t)
      PROVE  SoloInv'
  BY <1>4, SoloCommit
<1>5. ASSUME NEW t \in Threads, Rollback(t)
      PROVE  SoloInv'
  <2>1. /\ db' = db /\ session' = session
        /\ \A u \in Threads : tx'[u] = tx[u] \/ tx'[u] = NoWork
        /\ \A u \in Threads : hook'[u] = hook[u] \/ hook'[u] = Off
    BY <1>1, <1>5 DEF Rollback, Discard
  <2>2. QED
    BY <1>1, <1>2, <2>1, SoloQuiet
<1>6. ASSUME NEW t \in Threads, Load(t)
      PROVE  SoloInv'
  <2> DEFINE p == loadUser(Me(t))
  <2>1. /\ db' = db /\ session' = session /\ tx' = tx /\ hook[t] = Due
        /\ \A u \in Threads : hook'[u] = IF u = t THEN Loaded(p) ELSE hook[u]
    BY <1>1, <1>6 DEF Load
  <2>2. p.account = Me(t) /\ p.kinds = KindsOf(Me(t))
    BY DEF loadUser
  <2>3. hook'[t].who = p /\ hook'[t].st = "loaded"
    BY <2>1 DEF Loaded
  <2> HIDE DEF p
  <2>4. Idle(t)'
    BY <2>1 DEF SoloInv, StillComplete, Due, Idle
  <2>5. \A a : KindsOf(a)' = KindsOf(a)
    BY <2>1 DEF KindsOf, RolesOf
  <2>6. ASSUME NEW a, a = p.account PROVE KindsOf(a)' \subseteq p.kinds
    BY <2>2, <2>5, <2>6
  <2>7. StillComplete(t)'
    BY <2>3, <2>4, <2>6 DEF StillComplete, KindsOf, RolesOf
  <2>8. QED
    BY <1>1, <2>1, <2>2, <2>3, <2>7, SoloQuiet
<1>7. ASSUME NEW t \in Threads, Install(t)
      PROVE  SoloInv'
  <2>1. /\ db' = db /\ tx' = tx
        /\ \A s \in Sessions : session'[s] = IF s = SessionOf[t] THEN hook[t].who ELSE session[s]
        /\ \A u \in Threads : hook'[u] = hook[u] \/ hook'[u] = Off
    BY <1>1, <1>7 DEF Install
  <2>2. \A s \in Sessions : session'[s].account \in {Owner[s], NoAccount}
    BY <1>1, <2>1 DEF SoloInv, AtHome, Home
  <2>3. QED
    BY <1>1, <1>2, <2>1, <2>2, SoloQuiet
<1>8. ASSUME NEW t \in Threads, HookFails(t)
      PROVE  SoloInv'
  <2>1. /\ db' = db /\ tx' = tx /\ session' = session
        /\ \A u \in Threads : hook'[u] = hook[u] \/ hook'[u] = Off
    BY <1>1, <1>8 DEF HookFails
  <2>2. QED
    BY <1>1, <1>2, <2>1, SoloQuiet
<1>9. ASSUME NEW s \in Sessions, SignIn(s)
      PROVE  SoloInv'
  <2>1. /\ db' = db /\ tx' = tx /\ hook' = hook
        /\ \A r \in Sessions : session'[r] = IF r = s THEN loadUser(Owner[s]) ELSE session[r]
    BY <1>1, <1>9 DEF SignIn
  <2>2. loadUser(Owner[s]).account = Owner[s]
    BY DEF loadUser
  <2>3. QED
    BY <1>1, <2>1, <2>2, SoloQuiet
<1>10. ASSUME NEW s \in Sessions, SignOut(s)
      PROVE  SoloInv'
  <2>1. /\ db' = db /\ tx' = tx
        /\ \A u \in Threads : hook'[u] = hook[u] \/ hook'[u] = Off
        /\ \A r \in Sessions : session'[r] = IF r = s THEN Nobody ELSE session[r]
    BY <1>1, <1>10 DEF SignOut
  <2>2. QED
    BY <1>1, <1>2, <2>1, HookStates, SoloQuiet
<1>11. CASE UNCHANGED vars
  BY <1>1, <1>11, SoloQuiet DEF vars
<1>12. QED
  BY <1>3, <1>4, <1>5, <1>6, <1>7, <1>8, <1>9, <1>10, <1>11 DEF Next

LEMMA OneRequestStays == OneRequestEach => []OneRequestEach
<1>1. OneRequestEach => OneRequestEach'
  BY DEF OneRequestEach, Home
<1>2. QED
  BY <1>1, PTL

\* Whoever sends one request at a time has one role of each kind: authorise finds
\* none, and there is still none when the role is flushed.
THEOREM OneRoleOfAKind == OneRequestEach => (Spec => []OneOfAKind)
<1>1. SoloInv => OneOfAKind
  BY DEF SoloInv
<1>2. QED
  BY <1>1, SoloInit, SoloNext, OneRequestStays, PTL DEF Spec

\* The principal that onSuccess installs, for whoever sends one request at a time,
\* knows every role he has got by then.
THEOREM RenewalsAreComplete == OneRequestEach => (Spec => RenewedIsComplete)
<1>1. ASSUME SoloInv, [Next]_vars, NEW s \in Sessions, session'[s] \notin {session[s], Nobody}
      PROVE  KindsOf(session'[s].account) \ {"Auditor"} \subseteq session'[s].kinds
  <2>1. session = [r \in Sessions |-> session[r]] /\ \A t \in Threads : SessionOf[t] \in Sessions
    BY <1>1, ConstantsTyped DEF SoloInv, IInv, TypeOK
  <2>2. ASSUME NEW t \in Threads, Service(t) PROVE session' = session
    BY <1>1, <2>2, ServiceIsSafe DEF SoloInv, IInv, Served, Serve
  <2>3. CASE \E t \in Threads : Install(t)
    <3>1. PICK t \in Threads : Install(t)
      BY <2>3
    <3>2. session'[s] = hook[t].who /\ hook[t].st = "loaded"
      BY <1>1, <2>1, <3>1 DEF Install
    <3>3. KindsOf(hook[t].who.account) \ {"Auditor"} \subseteq hook[t].who.kinds
      BY <1>1, <3>2 DEF SoloInv, StillComplete
    <3>4. QED
      BY <3>2, <3>3
  <2>4. CASE \E r \in Sessions : SignIn(r)
    <3>1. session'[s] = loadUser(Owner[s])
      BY <1>1, <2>1, <2>4 DEF SignIn
    <3>2. QED
      BY <3>1 DEF loadUser
  <2>5. CASE \E r \in Sessions : SignOut(r)
    BY <1>1, <2>1, <2>5 DEF SignOut
  <2>6. CASE session' = session
    BY <1>1, <2>6
  <2>7. QED
    BY <1>1, <2>2, <2>3, <2>4, <2>5, <2>6 DEF Next, vars, Commit, Rollback, Load, HookFails
<1>2. SoloInv /\ [Next]_vars =>
        [\A s \in Sessions :
            session'[s] \notin {session[s], Nobody} =>
                KindsOf(session'[s].account) \ {"Auditor"} \subseteq session'[s].kinds]_vars
  BY <1>1
<1>3. QED
  BY <1>2, SoloInit, SoloNext, OneRequestStays, PTL DEF Spec, RenewedIsComplete

\* Accounts, their roles and the auditor with the request that made him change as
\* in AtomicRows: all the rows of a transaction, as it read them, or none, and
\* sessions and hooks have no part in it.
THEOREM RowsAreAtomic == Spec => KeepsRowsAtomic
<1> DEFINE claim == [t \in Threads |-> [i \in DOMAIN tx[t] |-> tx[t][i].old]]
<1>1. Init => Rows!Init
  <2> SUFFICES ASSUME Init PROVE Rows!Init
    OBVIOUS
  <2>1. db = [i \in Ids |-> db[i]]
    BY InitInv DEF IInv, TypeOK
  <2>2. QED
    BY <2>1, FreshIsInit DEF Init
<1>2. IInv /\ [Next]_vars => [Rows!Next]_<<db, claim>>
  <2> SUFFICES ASSUME IInv, [Next]_vars PROVE [Rows!Next]_<<db, claim>>
    OBVIOUS
  <2>1. Tables /\ AllVersioned /\ OptimisticReads
    BY TypedTables DEF IInv
  <2>2. ASSUME NEW t \in Threads, Service(t)
        PROVE  Rows!Next
    <3>1. PICK w : Hold(t, w) /\ ReadHere(w)
      BY <2>2, ServiceIsSafe DEF IInv, Served, Serve, Safe
    <3>2. Rows!Claim(t)
      BY <2>1, <3>1, HoldIsClaim
    <3>3. QED
      BY <3>2 DEF Rows!Next
  <2>3. ASSUME NEW t \in Threads, Commit(t)
        PROVE  Rows!Next
    <3>1. Rows!Change(t)
      BY <2>1, <2>3, FlushIsChange DEF Commit
    <3>2. QED
      BY <3>1 DEF Rows!Next
  <2>4. ASSUME NEW t \in Threads, Rollback(t)
        PROVE  Rows!Next
    <3>1. Rows!GiveUp(t)
      BY <2>1, <2>4, DiscardIsGiveUp DEF Rollback
    <3>2. QED
      BY <3>1 DEF Rows!Next
  <2>5. ASSUME \/ \E t \in Threads : Load(t) \/ Install(t) \/ HookFails(t)
               \/ \E s \in Sessions : SignIn(s) \/ SignOut(s)
               \/ UNCHANGED vars
        PROVE  UNCHANGED <<db, claim>>
    BY <2>5 DEF Load, Install, HookFails, SignIn, SignOut, vars
  <2>6. QED
    BY <2>2, <2>3, <2>4, <2>5 DEF Next
<1>3. QED
  BY <1>1, <1>2, Invariance, PTL DEF Spec, KeepsRowsAtomic, Rows!Spec

=============================================================================
