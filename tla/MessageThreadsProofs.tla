------------------------- MODULE MessageThreadsProofs -------------------------
(***************************************************************************)
(* What MessageThreads guarantees for any number of users, threads and     *)
(* requests in flight.  A service step leaves lawful changes pending: it   *)
(* inserts new rows, a talk together with its creator's participation, or  *)
(* it deletes a participation, never the creator's.  What makes a change   *)
(* lawful cannot be undone while it is pending, because talks stay.        *)
(***************************************************************************)
EXTENDS MessageThreads, TransactionsProofs

\* A talk is inserted with the participation of its creator.
WithCreator(w, k) ==
    \E p \in Participations \cap DOMAIN w :
        w[p].old = Unborn /\ w[p].new = NewParticipation(w[k].new.creator, k)

\* A removed participation is not that of the creator of a live talk.
Dismissed(row) ==
    /\ row \in CanParticipateRow
    /\ Live(db[row.talk])
    /\ db[row.talk].creator # row.user

LawfulChange(w, i) ==
    \/ /\ w[i].old = Unborn /\ Live(w[i].new) /\ w[i].new \in RowOf(i)
       /\ i \in Talks => WithCreator(w, i)
    \/ i \in Participations /\ Dismissed(w[i].old) /\ w[i].new = Gone

LawfulWork(w) == \A i \in DOMAIN w : i \in Ids /\ LawfulChange(w, i)

PendingLawful == \A t \in Threads : LawfulWork(tx[t])

IInv == TypeOK /\ PendingLawful /\ OptimisticReads /\ CreatorTakesPart

-----------------------------------------------------------------------------
(* Rows *)

LEMMA RowKinds ==
    /\ \A i \in Talks : RowOf(i) = {Unborn, Gone} \cup MessageThreadRow
    /\ \A i \in Participations : RowOf(i) = {Unborn, Gone} \cup CanParticipateRow
    /\ \A i \in Messages : RowOf(i) = {Unborn, Gone} \cup MessageRow
BY IdsDisjoint DEF RowOf

LEMMA LiveRows ==
    \A row \in MessageThreadRow \cup CanParticipateRow \cup MessageRow :
        Live(row) /\ row.version \in Nat
BY DEF Live, MessageThreadRow, CanParticipateRow, MessageRow

LEMMA NewRows ==
    ASSUME NEW u \in Users, NEW k \in Talks
    PROVE  /\ NewTalk(u) \in MessageThreadRow /\ NewTalk(u).creator = u
           /\ NewParticipation(u, k) \in CanParticipateRow
           /\ NewParticipation(u, k).user = u /\ NewParticipation(u, k).talk = k
           /\ NewMessage(u, k) \in MessageRow
           /\ NewMessage(u, k).author = u /\ NewMessage(u, k).talk = k
BY DEF NewTalk, NewParticipation, NewMessage, MessageThreadRow, CanParticipateRow, MessageRow

\* A row of participations is told by its user and its talk.
LEMMA ParticipationRows ==
    ASSUME NEW row \in CanParticipateRow
    PROVE  row = NewParticipation(row.user, row.talk) /\ row.user \in Users /\ row.talk \in Talks
BY DEF NewParticipation, CanParticipateRow

LEMMA CommittedRows ==
    ASSUME TypeOK
    PROVE  /\ \A i \in Talks : Live(db[i]) => db[i] \in MessageThreadRow
           /\ \A i \in Participations : Live(db[i]) => db[i] \in CanParticipateRow
           /\ \A i \in Messages : Live(db[i]) => db[i] \in MessageRow
           /\ \A i \in Ids : Versioned(db[i])
<1>1. \A i \in Ids : db[i] \in RowOf(i)
  BY DEF TypeOK
<1>2. QED
  BY <1>1, RowKinds, LiveRows, BlankRows, IdsAre DEF Versioned

LEMMA TypedTables ==
    ASSUME TypeOK PROVE Tables /\ AllVersioned
<1>1. Tables
  BY DEF TypeOK, Tables
<1>2. \A i \in Ids : \A row \in RowOf(i) : Versioned(row)
  BY RowKinds, LiveRows, IdsAre DEF Versioned
<1>3. AllVersioned
  BY <1>2 DEF TypeOK, AllVersioned
<1>4. QED
  BY <1>1, <1>3

-----------------------------------------------------------------------------
(* Service steps *)

LEMMA ThreadCreateIsLawful ==
    ASSUME TypeOK, NEW t \in Threads, ThreadCreate(t)
    PROVE  \E w : Hold(t, w) /\ LawfulWork(w) /\ ReadHere(w)
<1> DEFINE u == Requester[t]
<1>1. u \in Users
  BY RequesterTyped
<1>2. PICK k \in Talks, p \in Participations :
        /\ FreshId(k) /\ FreshId(p)
        /\ Hold(t, Changes([i \in {k, p} |-> IF i = k THEN NewTalk(u) ELSE NewParticipation(u, k)]))
  BY DEF ThreadCreate
<1> DEFINE new == [i \in {k, p} |-> IF i = k THEN NewTalk(u) ELSE NewParticipation(u, k)]
           w == Changes(new)
<1>3. k # p /\ k \in Ids /\ p \in Ids
  BY IdsDisjoint, IdsAre
<1> HIDE DEF u
<1>4. /\ DOMAIN w = {k, p}
      /\ w[k].old = Unborn /\ w[k].new = NewTalk(u)
      /\ w[p].old = Unborn /\ w[p].new = NewParticipation(u, k)
      /\ w[k].old = db[k] /\ w[p].old = db[p]
  BY <1>2, <1>3 DEF Changes, FreshId
<1> HIDE DEF w, new
<1>5. WithCreator(w, k)
  BY <1>1, <1>4, NewRows DEF WithCreator
<1>6. LawfulChange(w, k) /\ LawfulChange(w, p)
  BY <1>1, <1>3, <1>4, <1>5, NewRows, RowKinds, LiveRows, IdsDisjoint DEF LawfulChange
<1>7. LawfulWork(w) /\ ReadHere(w)
  BY <1>3, <1>4, <1>6 DEF LawfulWork, ReadHere
<1>8. Hold(t, w)
  BY <1>2 DEF w, new
<1>9. QED
  BY <1>7, <1>8

LEMMA WriteIsLawful ==
    ASSUME NEW i \in Participations \cup Messages, NEW row \in RowOf(i), Live(row), db[i] = Unborn
    PROVE  LawfulWork(Write(i, row)) /\ ReadHere(Write(i, row))
<1>1. i \in Ids /\ i \notin Talks
  BY IdsAre, IdsDisjoint
<1>2. QED
  BY <1>1 DEF LawfulWork, LawfulChange, ReadHere, Write

LEMMA ServiceIsLawful ==
    ASSUME TypeOK, NEW t \in Threads, Service(t)
    PROVE  \E w : Hold(t, w) /\ LawfulWork(w) /\ ReadHere(w)
<1>1. Requester[t] \in Users
  BY RequesterTyped
<1>2. CASE ThreadCreate(t)
  BY <1>2, ThreadCreateIsLawful
<1>3. CASE Invite(t)
  <2>1. PICK p \in Participations, k \in Talks, u \in Users :
            FreshId(p) /\ Hold(t, Write(p, NewParticipation(u, k)))
    BY <1>3 DEF Invite, Created
  <2>2. NewParticipation(u, k) \in RowOf(p) /\ Live(NewParticipation(u, k))
    BY NewRows, RowKinds, LiveRows
  <2>3. QED
    BY <2>1, <2>2, WriteIsLawful DEF FreshId
<1>4. CASE Post(t)
  <2>1. PICK m \in Messages, k \in Talks :
            FreshId(m) /\ Hold(t, Write(m, NewMessage(Requester[t], k)))
    BY <1>4 DEF Post
  <2>2. NewMessage(Requester[t], k) \in RowOf(m) /\ Live(NewMessage(Requester[t], k))
    BY <1>1, NewRows, RowKinds, LiveRows
  <2>3. QED
    BY <2>1, <2>2, WriteIsLawful DEF FreshId
<1>5. CASE Remove(t)
  <2>1. PICK k \in Created(Requester[t]), u \in Users \ {Requester[t]} :
            \E p \in Involved(u, k) : Hold(t, DeleteAll({p}))
    BY <1>5 DEF Remove
  <2>2. PICK p \in Involved(u, k) : Hold(t, DeleteAll({p}))
    BY <2>1
  <2>3. /\ p \in Participations /\ Live(db[p]) /\ db[p].user = u /\ db[p].talk = k
        /\ k \in Talks /\ Live(db[k]) /\ db[k].creator = Requester[t]
    BY DEF Involved, Created
  <2>4. p \in Ids /\ Dismissed(db[p])
    BY <2>1, <2>3, CommittedRows, IdsAre DEF Dismissed
  <2>5. LawfulWork(DeleteAll({p})) /\ ReadHere(DeleteAll({p}))
    BY <2>3, <2>4 DEF LawfulWork, LawfulChange, ReadHere, DeleteAll
  <2>6. QED
    BY <2>2, <2>5
<1>6. QED
  BY <1>2, <1>3, <1>4, <1>5 DEF Service

-----------------------------------------------------------------------------
(* A flush *)

\* A flush inserts rows over unborn ones and deletes those that were read.
LEMMA FlushedRows ==
    ASSUME IInv, NEW t \in Threads, Flush(t)
    PROVE  /\ \A i \in Ids : IF i \in DOMAIN tx[t]
                             THEN /\ db'[i] = tx[t][i].new /\ db[i] = tx[t][i].old
                                  /\ LawfulChange(tx[t], i)
                             ELSE db'[i] = db[i]
           /\ DOMAIN tx[t] \subseteq Ids
           /\ db' = [i \in Ids |-> db'[i]]
<1>1. Tables /\ AllVersioned /\ OptimisticReads
  BY TypedTables DEF IInv
<1>2. \A i \in DOMAIN tx[t] : db[i] = tx[t][i].old
  BY <1>1, UnstaleIsUnchanged DEF Flush
<1>3. QED
  BY <1>1, <1>2 DEF Flush, After, IInv, PendingLawful, LawfulWork, Tables

LEMMA TalksStay ==
    ASSUME IInv, NEW t \in Threads, Flush(t), NEW k \in Talks, Live(db[k])
    PROVE  db'[k] = db[k]
BY FlushedRows, BlankRows, IdsAre, IdsDisjoint DEF LawfulChange

\* What is pending keeps its rights when another transaction is flushed.
LEMMA StillLawful ==
    ASSUME IInv, NEW t \in Threads, Flush(t), NEW u \in Threads
    PROVE  LawfulWork(tx[u])'
<1>1. tx'[u] = IF u = t THEN NoWork ELSE tx[u]
  BY TypedTables DEF IInv, Tables, Flush
<1>2. CASE u = t
  BY <1>1, <1>2 DEF NoWork, LawfulWork
<1>3. CASE u # t
  <2> SUFFICES ASSUME NEW i \in DOMAIN tx[u] PROVE i \in Ids /\ LawfulChange(tx[u], i)'
    BY <1>1, <1>3 DEF LawfulWork
  <2>1. i \in Ids /\ LawfulChange(tx[u], i)
    BY DEF IInv, PendingLawful, LawfulWork
  <2>2. tx'[u] = tx[u]
    BY <1>1, <1>3
  <2>3. CASE i \in Participations /\ Dismissed(tx[u][i].old) /\ tx[u][i].new = Gone
    <3> DEFINE k == tx[u][i].old.talk
    <3>1. k \in Talks /\ Live(db[k])
      BY <2>3, ParticipationRows DEF Dismissed
    <3>2. db'[k] = db[k]
      BY <3>1, TalksStay
    <3>3. tx[u][i].old \in CanParticipateRow /\ Live(db'[k]) /\ db'[k].creator # tx[u][i].old.user
      BY <2>3, <3>1, <3>2 DEF Dismissed
    <3>4. Dismissed(tx[u][i].old)'
      BY <2>2, <3>3 DEF Dismissed
    <3>5. QED
      BY <2>1, <2>2, <2>3, <3>4 DEF LawfulChange
  <2>4. CASE tx[u][i].old = Unborn
    BY <2>1, <2>2, <2>4, BlankRows, LiveRows DEF LawfulChange, WithCreator, Dismissed, RowOf
  <2>5. QED
    BY <2>1, <2>3, <2>4 DEF LawfulChange
<1>4. QED
  BY <1>2, <1>3

LEMMA FlushKeepsType ==
    ASSUME IInv, NEW t \in Threads, Flush(t)
    PROVE  TypeOK'
<1>1. \A i \in Ids : db'[i] \in RowOf(i)
  BY FlushedRows DEF IInv, TypeOK, LawfulChange, RowOf
<1>2. tx' = [u \in Threads |-> tx'[u]] /\ \A u \in Threads : tx'[u] = IF u = t THEN NoWork ELSE tx[u]
  BY DEF IInv, TypeOK, Flush
<1>3. \A u \in Threads : \A i \in DOMAIN tx'[u] :
         i \in Ids /\ tx'[u][i].old \in RowOf(i) /\ tx'[u][i].new \in RowOf(i)
  BY <1>2 DEF NoWork, IInv, TypeOK
<1>4. db' = [i \in Ids |-> db'[i]]
  BY FlushedRows
<1>5. QED
  BY <1>1, <1>2, <1>3, <1>4 DEF TypeOK, RowOf

LEMMA FlushKeepsCreators ==
    ASSUME IInv, NEW t \in Threads, Flush(t)
    PROVE  CreatorTakesPart'
<1> SUFFICES ASSUME NEW k \in Talks, Live(db'[k])
             PROVE  \E p \in Participations :
                        Live(db'[p]) /\ db'[p].user = db'[k].creator /\ db'[p].talk = k
  BY DEF CreatorTakesPart, Involved
<1>1. k \in Ids
  BY IdsAre
<1>2. CASE Live(db[k])
  <2>1. db'[k] = db[k]
    BY <1>2, TalksStay
  <2>2. PICK p \in Participations : Live(db[p]) /\ db[p].user = db[k].creator /\ db[p].talk = k
    BY <1>2 DEF IInv, CreatorTakesPart, Involved
  <2>3. p \in Ids
    BY IdsAre
  <2>4. db'[p] = db[p]
    BY <2>2, <2>3, FlushedRows, BlankRows DEF LawfulChange, Dismissed
  <2>5. QED
    BY <2>1, <2>2, <2>4
<1>3. CASE ~Live(db[k])
  <2>1. /\ k \in DOMAIN tx[t] /\ db'[k] = tx[t][k].new
        /\ WithCreator(tx[t], k)
    BY <1>1, <1>3, FlushedRows, IdsDisjoint DEF LawfulChange
  <2>2. PICK p \in Participations \cap DOMAIN tx[t] :
            tx[t][p].new = NewParticipation(tx[t][k].new.creator, k)
    BY <2>1 DEF WithCreator
  <2>3. p \in Ids /\ db'[p] = tx[t][p].new
    BY FlushedRows
  <2>4. db'[k].creator \in Users
    <3>1. db'[k] \in RowOf(k)
      BY <1>1, FlushKeepsType DEF TypeOK, RowOf
    <3>2. QED
      BY <3>1, RowKinds, BlankRows DEF MessageThreadRow
  <2>5. QED
    BY <2>1, <2>2, <2>3, <2>4, NewRows, LiveRows
<1>4. QED
  BY <1>2, <1>3

-----------------------------------------------------------------------------
(* The inductive invariant *)

LEMMA InitInv == Init => IInv
<1> SUFFICES ASSUME Init PROVE IInv
  OBVIOUS
<1>1. /\ db = [i \in Ids |-> Unborn] /\ tx = [t \in Threads |-> NoWork]
      /\ \A t \in Threads : DOMAIN tx[t] = {}
  BY DEF Init, NoWork
<1>2. \A i \in Ids : Unborn \in RowOf(i)
  BY DEF RowOf
<1>3. TypeOK
  BY <1>1, <1>2 DEF TypeOK
<1>4. PendingLawful /\ OptimisticReads
  BY <1>1 DEF PendingLawful, LawfulWork, OptimisticReads
<1>5. CreatorTakesPart
  BY <1>1, BlankRows, IdsAre DEF CreatorTakesPart
<1>6. QED
  BY <1>3, <1>4, <1>5 DEF IInv

LEMMA HoldInv ==
    ASSUME IInv, NEW t \in Threads, NEW w, Hold(t, w), LawfulWork(w), ReadHere(w)
    PROVE  IInv'
<1>1. db' = db /\ tx' = [tx EXCEPT ![t] = w]
  BY DEF Hold
<1>2. /\ tx' = [u \in Threads |-> tx'[u]]
      /\ \A u \in Threads : tx'[u] = IF u = t THEN w ELSE tx[u]
  BY <1>1 DEF IInv, TypeOK
<1>3. \A i \in DOMAIN w : i \in Ids /\ w[i].old \in RowOf(i) /\ w[i].new \in RowOf(i)
  BY DEF LawfulWork, ReadHere, LawfulChange, IInv, TypeOK, RowOf
<1>4. TypeOK'
  BY <1>1, <1>2, <1>3 DEF IInv, TypeOK, RowOf
<1>5. PendingLawful'
  <2>1. \A v : LawfulWork(v) => LawfulWork(v)'
    BY <1>1 DEF LawfulWork, LawfulChange, WithCreator, Dismissed, RowOf
  <2>2. \A u \in Threads : LawfulWork(tx'[u])
    BY <1>2 DEF IInv, PendingLawful
  <2>3. QED
    BY <1>1, <2>2 DEF PendingLawful, LawfulWork, LawfulChange, WithCreator, Dismissed, RowOf
<1>6. OptimisticReads'
  BY HoldKeepsReads, TypedTables DEF IInv
<1>7. CreatorTakesPart'
  BY <1>1 DEF IInv, CreatorTakesPart, Involved
<1>8. QED
  BY <1>4, <1>5, <1>6, <1>7 DEF IInv

LEMMA FlushInv ==
    ASSUME IInv, NEW t \in Threads, Flush(t)
    PROVE  IInv'
<1>1. \A i \in DOMAIN tx[t] : Versioned(tx[t][i].new) /\ Raises(tx[t][i].old, tx[t][i].new)
  <2>1. \A i \in Ids : \A row \in RowOf(i) : Versioned(row)
    BY RowKinds, LiveRows, IdsAre DEF Versioned
  <2>2. QED
    BY <2>1 DEF IInv, TypeOK, PendingLawful, LawfulWork, LawfulChange, Raises
<1>2. OptimisticReads'
  BY <1>1, FlushKeepsReads, TypedTables DEF IInv
<1>3. PendingLawful'
  BY StillLawful DEF PendingLawful
<1>4. QED
  BY <1>2, <1>3, FlushKeepsType, FlushKeepsCreators DEF IInv

LEMMA DiscardInv ==
    ASSUME IInv, NEW t \in Threads, Discard(t)
    PROVE  IInv'
<1>1. db' = db /\ tx' = [tx EXCEPT ![t] = NoWork]
  BY DEF Discard
<1>2. /\ tx' = [u \in Threads |-> tx'[u]]
      /\ \A u \in Threads : tx'[u] = IF u = t THEN NoWork ELSE tx[u]
  BY <1>1 DEF IInv, TypeOK
<1>3. TypeOK'
  BY <1>1, <1>2 DEF NoWork, IInv, TypeOK, RowOf
<1>4. PendingLawful'
  <2>1. \A u \in Threads : LawfulWork(tx'[u])
    BY <1>2 DEF NoWork, IInv, PendingLawful, LawfulWork
  <2>2. QED
    BY <1>1, <2>1 DEF PendingLawful, LawfulWork, LawfulChange, WithCreator, Dismissed, RowOf
<1>5. OptimisticReads' /\ CreatorTakesPart'
  BY <1>1, DiscardKeepsReads, TypedTables DEF IInv, CreatorTakesPart, Involved
<1>6. QED
  BY <1>3, <1>4, <1>5 DEF IInv

LEMMA NextInv == IInv /\ [Next]_vars => IInv'
<1> SUFFICES ASSUME IInv, [Next]_vars PROVE IInv'
  OBVIOUS
<1>1. ASSUME NEW t \in Threads, Service(t)
      PROVE  IInv'
  BY <1>1, ServiceIsLawful, HoldInv DEF IInv
<1>2. ASSUME NEW t \in Threads, Commit(t)
      PROVE  IInv'
  BY <1>2, FlushInv DEF Commit
<1>3. ASSUME NEW t \in Threads, Rollback(t)
      PROVE  IInv'
  BY <1>3, DiscardInv DEF Rollback
<1>4. CASE UNCHANGED vars
  BY <1>4 DEF vars, IInv, TypeOK, RowOf, PendingLawful, LawfulWork, LawfulChange, WithCreator,
              Dismissed, OptimisticReads, CreatorTakesPart, Involved
<1>5. QED
  BY <1>1, <1>2, <1>3, <1>4 DEF Next

LEMMA Invariance == Spec => []IInv
BY InitInv, NextInv, PTL DEF Spec

-----------------------------------------------------------------------------
(* The theorems *)

\* Rows, committed and pending, keep to their tables.
THEOREM TypeCorrect == Spec => []TypeOK
BY Invariance, PTL DEF IInv

\* However many talks, users and requests there are, the creator of a talk takes
\* part in it: CanParticipateDelete never takes him out, not even from an old snapshot.
THEOREM CreatorsTakePart == Spec => []CreatorTakesPart
BY Invariance, PTL DEF IInv

-----------------------------------------------------------------------------
(* Outsiders *)

\* A service brings a message of an outsider under way never, and a participation
\* only as an invitation by the creator of the talk authorise looked at.
LEMMA ServiceBringsIn ==
    ASSUME TypeOK, NEW t \in Threads, Service(t), NEW u \in Users, NEW k \in Talks,
           Outside(u, k), NEW i \in DOMAIN tx'[t], tx'[t][i].old = Unborn
    PROVE  /\ i \in Messages => tx'[t][i].new # NewMessage(u, k)
           /\ i \in Participations /\ tx'[t][i].new = NewParticipation(u, k) =>
                 Asked(k) \cap Created(Requester[t]) # {}
<1>1. \A w : tx' = [tx EXCEPT ![t] = w] => tx'[t] = w
  BY DEF TypeOK
<1>2. Live(db[k]) /\ Involved(u, k) = {}
  BY DEF Outside
<1>3. Requester[t] \in Users
  BY RequesterTyped
<1>4. CASE ThreadCreate(t)
  <2>1. PICK q \in Talks, p \in Participations :
          /\ FreshId(q)
          /\ tx'[t] = Changes([j \in {q, p} |-> IF j = q THEN NewTalk(Requester[t])
                                                ELSE NewParticipation(Requester[t], q)])
    BY <1>1, <1>4 DEF ThreadCreate, Hold
  <2>2. q # k
    BY <1>2, <2>1, BlankRows DEF FreshId
  <2>3. i \in {q, p} /\ (i # q => tx'[t][i].new = NewParticipation(Requester[t], q))
    BY <2>1 DEF Changes
  <2>4. i \notin Messages /\ (i \in Participations => i # q)
    BY <2>1, <2>3, IdsDisjoint
  <2>5. NewParticipation(Requester[t], q).talk = q /\ NewParticipation(u, k).talk = k
    BY <1>3, <2>1, NewRows
  <2>6. QED
    BY <2>2, <2>3, <2>4, <2>5
<1>5. CASE Invite(t)
  <2>1. PICK p \in Participations, q \in Talks, v \in Users :
          /\ Asked(q) \cap Created(Requester[t]) # {}
          /\ tx'[t] = Write(p, NewParticipation(v, q))
    BY <1>1, <1>5 DEF Invite, Hold
  <2>2. i = p /\ tx'[t][i].new = NewParticipation(v, q)
    BY <2>1 DEF Write
  <2>3. NewParticipation(v, q).talk = q /\ NewParticipation(u, k).talk = k
    BY <2>1, NewRows
  <2>4. QED
    BY <2>1, <2>2, <2>3, IdsDisjoint
<1>6. CASE Post(t)
  <2>1. PICK m \in Messages, q \in Talks :
          /\ \E p \in Participations : Involved(Requester[t], q) = {p}
          /\ tx'[t] = Write(m, NewMessage(Requester[t], q))
    BY <1>1, <1>6 DEF Post, Hold
  <2>2. i = m /\ tx'[t][i].new = NewMessage(Requester[t], q)
    BY <2>1 DEF Write
  <2>3. /\ NewMessage(Requester[t], q).talk = q /\ NewMessage(u, k).talk = k
        /\ NewMessage(Requester[t], q).author = Requester[t] /\ NewMessage(u, k).author = u
    BY <1>3, <2>1, NewRows
  <2>4. <<Requester[t], q>> # <<u, k>>
    BY <1>2, <2>1
  <2>5. QED
    BY <2>1, <2>2, <2>3, <2>4, IdsDisjoint
<1>7. CASE Remove(t)
  <2>1. PICK p : /\ p \in Participations /\ Live(db[p])
                 /\ tx'[t] = DeleteAll({p})
    BY <1>1, <1>7 DEF Remove, Involved, Hold
  <2>2. tx'[t][i].old = db[p]
    BY <2>1 DEF DeleteAll
  <2>3. QED
    BY <2>1, <2>2, BlankRows
<1>8. QED
  BY <1>4, <1>5, <1>6, <1>7 DEF Service

\* A removed participant says nothing more, once what he had under way is done,
\* until the creator of the thread authorise looks at invites him again: a post is
\* authorised and inserted by the same participation, whatever is flushed between.
THEOREM OutsidersAreSilent == Spec => OutsiderStaysSilent
<1>1. ASSUME IInv, [Next]_vars, NEW u \in Users, NEW k \in Talks, Outside(u, k)
      PROVE  /\ Said(u, k)' = Said(u, k)
             /\ Outside(u, k)' \/ InvitationHeld(u, k)
  <2>1. Live(db[k]) /\ Involved(u, k) = {} /\ ~Underway(u, k)
    BY <1>1 DEF Outside
  <2>2. ASSUME NEW t \in Threads, Service(t)
        PROVE  /\ Said(u, k)' = Said(u, k)
               /\ Outside(u, k)' \/ InvitationHeld(u, k)
    <3>1. PICK w : Hold(t, w) /\ LawfulWork(w)
      BY <1>1, <2>2, ServiceIsLawful DEF IInv
    <3>2. db' = db /\ \A v \in Threads : tx'[v] = IF v = t THEN w ELSE tx[v]
      BY <1>1, <3>1 DEF Hold, IInv, TypeOK
    <3>3. Said(u, k)' = Said(u, k) /\ Involved(u, k)' = {} /\ Live(db'[k])
      BY <2>1, <3>2 DEF Said, Involved
    <3>4. ASSUME Underway(u, k)'
          PROVE  Asked(k) \cap Created(Requester[t]) # {} /\ tx'[t] # tx[t]
      <4>1. PICK v \in Threads : \E i \in DOMAIN tx'[v] :
                /\ tx'[v][i].old = Unborn
                /\ \/ i \in Participations /\ tx'[v][i].new = NewParticipation(u, k)
                   \/ i \in Messages /\ tx'[v][i].new = NewMessage(u, k)
        BY <3>4 DEF Underway
      <4>2. tx'[v] # tx[v]
        BY <2>1, <4>1 DEF Underway
      <4>3. v = t
        BY <3>2, <4>2
      <4>4. QED
        BY <1>1, <2>2, <4>1, <4>2, <4>3, ServiceBringsIn DEF IInv
    <3>5. CASE Underway(u, k)'
      BY <3>3, <3>4, <3>5 DEF InvitationHeld
    <3>6. CASE ~Underway(u, k)'
      BY <3>3, <3>6 DEF Outside
    <3>7. QED
      BY <3>5, <3>6
  <2>3. ASSUME NEW t \in Threads, Commit(t) \/ Rollback(t)
        PROVE  /\ Said(u, k)' = Said(u, k)
               /\ Outside(u, k)'
    <3>1. \A v \in Threads : tx'[v] = IF v = t THEN NoWork ELSE tx[v]
      BY <1>1, <2>3 DEF Commit, Flush, Rollback, Discard, IInv, TypeOK
    <3>2. ~Underway(u, k)'
      BY <2>1, <3>1 DEF Underway, NoWork
    <3>3. CASE db' = db
      BY <2>1, <3>2, <3>3 DEF Said, Involved, Outside
    <3>4. CASE db' # db
      <4>1. Flush(t)
        BY <2>3, <3>4 DEF Commit, Rollback, Discard
      <4>2. db'[k] = db[k]
        BY <1>1, <2>1, <4>1, TalksStay
      <4>3. ASSUME NEW m \in Messages
            PROVE  db'[m] = NewMessage(u, k) <=> db[m] = NewMessage(u, k)
        <5>1. m \in Ids /\ m \notin Participations
          BY IdsAre, IdsDisjoint
        <5>2. \/ db'[m] = db[m]
              \/ /\ m \in DOMAIN tx[t] /\ db'[m] = tx[t][m].new /\ db[m] = tx[t][m].old
                 /\ tx[t][m].old = Unborn
          BY <1>1, <4>1, <5>1, FlushedRows DEF LawfulChange
        <5>3. Live(NewMessage(u, k))
          BY NewRows, LiveRows
        <5>4. QED
          BY <2>1, <5>2, <5>3, BlankRows DEF Underway
      <4>4. ASSUME NEW p \in Participations, Live(db'[p]), db'[p].user = u, db'[p].talk = k
            PROVE  FALSE
        <5>1. p \in Ids /\ p \notin Talks
          BY IdsAre, IdsDisjoint
        <5>2. db'[p] \in CanParticipateRow
          BY <1>1, <4>1, <4>4, <5>1, FlushKeepsType, RowKinds, BlankRows DEF TypeOK, RowOf
        <5>3. db'[p] = NewParticipation(u, k)
          BY <4>4, <5>2, ParticipationRows
        <5>4. db'[p] # db[p]
          BY <2>1, <4>4 DEF Involved
        <5>5. p \in DOMAIN tx[t] /\ db'[p] = tx[t][p].new /\ LawfulChange(tx[t], p)
          BY <1>1, <4>1, <5>1, <5>4, FlushedRows
        <5>6. tx[t][p].old = Unborn
          BY <4>4, <5>5, BlankRows DEF LawfulChange
        <5>7. QED
          BY <2>1, <5>3, <5>5, <5>6 DEF Underway
      <4>5. Said(u, k)' = Said(u, k)
        BY <4>3 DEF Said
      <4>6. Involved(u, k)' = {}
        BY <4>4 DEF Involved
      <4>7. QED
        BY <2>1, <3>2, <4>2, <4>5, <4>6 DEF Outside
    <3>5. QED
      BY <3>3, <3>4
  <2>4. CASE UNCHANGED vars
    BY <2>1, <2>4 DEF vars, Said, Outside, Involved, Underway
  <2>5. QED
    BY <1>1, <2>2, <2>3, <2>4 DEF Next
<1>2. IInv /\ [Next]_vars =>
        [\A u \in Users, k \in Talks : Outside(u, k) =>
            /\ Said(u, k)' = Said(u, k)
            /\ Outside(u, k)' \/ InvitationHeld(u, k)]_vars
  BY <1>1
<1>3. QED
  BY <1>2, Invariance, PTL DEF Spec, OutsiderStaysSilent

-----------------------------------------------------------------------------
(* One request at a time for each user.  validate looks for a participation *)
(* and another row is inserted: only the creator's next request could find  *)
(* it missing too, as long as nobody is authorised by another talk.         *)

OneRequestEach == \A t, v \in Threads : Requester[t] = Requester[v] => t = v

Inserted(t) == {i \in DOMAIN tx[t] : tx[t][i].old = Unborn}

\* The one participation t inserts is in a talk it inserts too, or in one that is
\* there: unless a query string let it in, one of its own requester's, where it is
\* still the first of its user.
Awaited(t) ==
    \A p \in Participations \cap Inserted(t) :
        LET row == tx[t][p].new
        IN  /\ Participations \cap Inserted(t) = {p}
            /\ \/ row.talk \in Inserted(t)
               \/ /\ Live(db[row.talk])
                  /\ Queried[row.talk] = {} =>
                        /\ db[row.talk].creator = Requester[t]
                        /\ Involved(row.user, row.talk) = {}

TalksFirst == \A p \in Participations : Live(db[p]) => Live(db[db[p].talk])

OnceInv == IInv /\ InvolvedOnce /\ TalksFirst /\ \A t \in Threads : Awaited(t)

LEMMA ServiceAwaits ==
    ASSUME OnceInv, NEW t \in Threads, Service(t)
    PROVE  Awaited(t)'
<1>1. db' = db /\ \A w : tx' = [tx EXCEPT ![t] = w] => tx'[t] = w
  BY ServiceIsLawful DEF Hold, OnceInv, IInv, TypeOK
<1>2. Requester[t] \in Users
  BY RequesterTyped
<1>3. CASE ThreadCreate(t)
  <2>1. PICK k \in Talks, p \in Participations :
          /\ FreshId(k) /\ FreshId(p)
          /\ tx'[t] = Changes([j \in {k, p} |-> IF j = k THEN NewTalk(Requester[t])
                                                ELSE NewParticipation(Requester[t], k)])
    BY <1>1, <1>3 DEF ThreadCreate, Hold
  <2>2. k # p /\ k \notin Participations
    BY <2>1, IdsDisjoint
  <2>3. /\ DOMAIN tx'[t] = {k, p} /\ tx'[t][k].old = Unborn
        /\ tx'[t][p].new = NewParticipation(Requester[t], k)
    BY <2>1, <2>2 DEF Changes, FreshId
  <2>4. k \in Inserted(t)' /\ Inserted(t)' \subseteq {k, p}
    BY <2>3 DEF Inserted
  <2>5. NewParticipation(Requester[t], k).talk = k
    BY <1>2, <2>1, NewRows
  <2>6. QED
    BY <2>2, <2>3, <2>4, <2>5 DEF Awaited
<1>4. CASE Invite(t)
  <2>1. PICK p \in Participations, k \in Talks, u \in Users :
          /\ Asked(k) \cap Created(Requester[t]) # {} /\ Live(db[k])
          /\ Involved(u, k) = {} /\ tx'[t] = Write(p, NewParticipation(u, k))
    BY <1>1, <1>4 DEF Invite, Hold
  <2>2. Inserted(t)' \subseteq {p} /\ tx'[t][p].new = NewParticipation(u, k)
    BY <2>1 DEF Write, Inserted
  <2>3. Live(db[k]) /\ (Queried[k] = {} => db[k].creator = Requester[t])
    BY <2>1 DEF Asked, Created
  <2>4. NewParticipation(u, k).talk = k /\ NewParticipation(u, k).user = u
    BY <2>1, <2>3, NewRows
  <2>5. Involved(u, k)' = {}
    BY <1>1, <2>1 DEF Involved
  <2>6. QED
    BY <1>1, <2>2, <2>3, <2>4, <2>5 DEF Awaited
<1>5. CASE Post(t)
  <2>1. PICK m \in Messages, k \in Talks : tx'[t] = Write(m, NewMessage(Requester[t], k))
    BY <1>1, <1>5 DEF Post, Hold
  <2>2. Participations \cap Inserted(t)' = {}
    BY <2>1, IdsDisjoint DEF Write, Inserted
  <2>3. QED
    BY <2>2 DEF Awaited
<1>6. CASE Remove(t)
  <2>1. PICK p : Live(db[p]) /\ tx'[t] = DeleteAll({p})
    BY <1>1, <1>6 DEF Remove, Involved, Hold
  <2>2. Inserted(t)' = {}
    BY <2>1, BlankRows DEF DeleteAll, Inserted
  <2>3. QED
    BY <2>2 DEF Awaited
<1>7. QED
  BY <1>3, <1>4, <1>5, <1>6 DEF Service

\* A flush brings in one participation, of a user who had none in its talk.
LEMMA FlushBringsOne ==
    ASSUME OnceInv, NEW t \in Threads, Flush(t),
           NEW p \in Participations, Live(db'[p]), db'[p] # db[p]
    PROVE  /\ p \in Inserted(t) /\ db'[p] = tx[t][p].new /\ db'[p] \in CanParticipateRow
           /\ Participations \cap Inserted(t) = {p}
           /\ \/ db'[p].talk \in Inserted(t) /\ db[db'[p].talk] = Unborn
              \/ Live(db[db'[p].talk])
           /\ Queried[db'[p].talk] = {} =>
                 /\ Involved(db'[p].user, db'[p].talk) = {}
                 /\ Live(db[db'[p].talk]) => db[db'[p].talk].creator = Requester[t]
<1> DEFINE k == db'[p].talk
<1>1. p \in Ids
  BY IdsAre
<1>2. p \in DOMAIN tx[t] /\ db'[p] = tx[t][p].new /\ LawfulChange(tx[t], p)
  BY <1>1, FlushedRows DEF OnceInv
<1>3. p \in Inserted(t) /\ db'[p] \in CanParticipateRow
  BY <1>2, RowKinds, BlankRows DEF LawfulChange, Inserted
<1>4. /\ Participations \cap Inserted(t) = {p}
      /\ k \in Inserted(t) \/ Live(db[k])
      /\ Queried[k] = {} => \/ k \in Inserted(t)
                            \/ /\ db[k].creator = Requester[t]
                               /\ Involved(db'[p].user, k) = {}
  BY <1>2, <1>3 DEF OnceInv, Awaited
<1>5. ASSUME k \in Inserted(t)
      PROVE  db[k] = Unborn /\ ~Live(db[k]) /\ Involved(db'[p].user, k) = {}
  <2>1. db[k] = Unborn
    BY <1>5, FlushedRows DEF Inserted, OnceInv
  <2>2. QED
    BY <2>1, BlankRows DEF OnceInv, TalksFirst, Involved
<1>6. QED
  BY <1>2, <1>3, <1>4, <1>5

LEMMA FlushKeepsOnce ==
    ASSUME OneRequestEach, OnceInv, NEW t \in Threads, Flush(t)
    PROVE  InvolvedOnce' /\ TalksFirst' /\ \A v \in Threads : Awaited(v)'
<1>1. InvolvedOnce'
  <2> SUFFICES ASSUME NEW u \in Users, NEW k \in Talks, Queried[k] = {},
                      NEW p \in Participations, NEW q \in Participations,
                      Live(db'[p]) /\ db'[p].user = u /\ db'[p].talk = k,
                      Live(db'[q]) /\ db'[q].user = u /\ db'[q].talk = k
               PROVE  p = q
    BY DEF InvolvedOnce, Involved
  <2>1. CASE db'[p] = db[p] /\ db'[q] = db[q]
    BY <2>1 DEF OnceInv, InvolvedOnce, Involved
  <2>2. CASE db'[p] # db[p]
    BY <2>2, FlushBringsOne DEF Involved
  <2>3. CASE db'[q] # db[q]
    BY <2>3, FlushBringsOne DEF Involved
  <2>4. QED
    BY <2>1, <2>2, <2>3
<1>2. TalksFirst'
  <2> SUFFICES ASSUME NEW p \in Participations, Live(db'[p])
               PROVE  Live(db'[db'[p].talk])
    BY DEF TalksFirst
  <2>1. db'[p] \in CanParticipateRow /\ db'[p].talk \in Talks
    <3>1. db'[p] \in RowOf(p)
      BY FlushKeepsType, IdsAre DEF OnceInv, TypeOK, RowOf
    <3>2. QED
      BY <3>1, RowKinds, BlankRows, ParticipationRows
  <2>2. CASE db'[p] = db[p]
    BY <2>1, <2>2, TalksStay DEF OnceInv, TalksFirst
  <2>3. CASE db'[p] # db[p]
    <3> DEFINE k == db'[p].talk
    <3>1. CASE Live(db[k])
      BY <2>1, <3>1, TalksStay DEF OnceInv
    <3>2. CASE k \in Inserted(t)
      <4>1. k \in Ids /\ k \in DOMAIN tx[t] /\ k \notin Participations
        BY <2>1, <3>2, IdsAre, IdsDisjoint DEF Inserted
      <4>2. QED
        BY <4>1, FlushedRows, BlankRows DEF OnceInv, LawfulChange
    <3>3. QED
      BY <2>3, <3>1, <3>2, FlushBringsOne
  <2>4. QED
    BY <2>2, <2>3
<1>3. ASSUME NEW v \in Threads
      PROVE  Awaited(v)'
  <2>1. tx'[v] = IF v = t THEN NoWork ELSE tx[v]
    BY DEF Flush, OnceInv, IInv, TypeOK
  <2>2. CASE v = t
    BY <2>1, <2>2 DEF NoWork, Inserted, Awaited
  <2>3. CASE v # t
    <3>1. tx'[v] = tx[v] /\ Inserted(v)' = Inserted(v)
      BY <2>1, <2>3 DEF Inserted
    <3> SUFFICES ASSUME NEW p \in Participations \cap Inserted(v),
                        tx[v][p].new.talk \notin Inserted(v)
                 PROVE  /\ Live(db'[tx[v][p].new.talk])
                        /\ Queried[tx[v][p].new.talk] = {} =>
                              /\ db'[tx[v][p].new.talk].creator = Requester[v]
                              /\ Involved(tx[v][p].new.user, tx[v][p].new.talk)' = {}
      BY <3>1 DEF Awaited, OnceInv
    <3> DEFINE k == tx[v][p].new.talk
               u == tx[v][p].new.user
    <3>2. /\ Live(db[k])
          /\ Queried[k] = {} => db[k].creator = Requester[v] /\ Involved(u, k) = {}
      BY DEF OnceInv, Awaited
    <3>3. k \in Talks
      <4>1. LawfulChange(tx[v], p) /\ tx[v][p].old = Unborn
        BY DEF OnceInv, IInv, PendingLawful, LawfulWork, Inserted
      <4>2. tx[v][p].new \in CanParticipateRow
        BY <4>1, RowKinds, BlankRows, LiveRows DEF LawfulChange, Dismissed
      <4>3. QED
        BY <4>2, ParticipationRows
    <3>4. db'[k] = db[k]
      BY <3>2, <3>3, TalksStay DEF OnceInv
    <3>5. ASSUME Queried[k] = {}, NEW q \in Participations,
                 Live(db'[q]), db'[q].user = u, db'[q].talk = k
          PROVE  FALSE
      <4>1. db'[q] # db[q]
        BY <3>2, <3>5 DEF Involved
      <4>2. Requester[t] = Requester[v]
        BY <3>2, <3>5, <4>1, FlushBringsOne, BlankRows
      <4>3. QED
        BY <2>3, <4>2 DEF OneRequestEach
    <3>6. Queried[k] = {} => Involved(u, k)' = {}
      BY <3>1, <3>5 DEF Involved
    <3>7. QED
      BY <3>2, <3>4, <3>6
  <2>4. QED
    BY <2>2, <2>3
<1>4. QED
  BY <1>1, <1>2, <1>3

\* If everybody sends one request at a time, nobody takes part twice in a talk whose
\* invitations come without a query string, so that the query for one
\* participation, which posting needs, does not throw.
THEOREM NobodyTwice == OneRequestEach => (Spec => []InvolvedOnce)
<1>1. Init => OnceInv
  <2> SUFFICES ASSUME Init PROVE OnceInv
    OBVIOUS
  <2>1. /\ \A i \in Ids : ~Live(db[i]) /\ \A t \in Threads : DOMAIN tx[t] = {}
    BY BlankRows DEF Init, NoWork
  <2>2. InvolvedOnce /\ TalksFirst
    BY <2>1, IdsAre DEF InvolvedOnce, Involved, TalksFirst
  <2>3. \A t \in Threads : Awaited(t)
    <3>1. \A t \in Threads : tx[t] = NoWork
      BY DEF Init
    <3>2. QED
      BY <3>1 DEF NoWork, Inserted, Awaited
  <2>4. QED
    BY <2>2, <2>3, InitInv DEF OnceInv
<1>2. OneRequestEach /\ OnceInv /\ [Next]_vars => OnceInv'
  <2> SUFFICES ASSUME OneRequestEach, OnceInv, [Next]_vars PROVE OnceInv'
    OBVIOUS
  <2>1. IInv'
    BY NextInv DEF OnceInv
  <2>2. ASSUME NEW t \in Threads, NEW w, db' = db, tx' = [tx EXCEPT ![t] = w], Awaited(t)'
        PROVE  OnceInv'
    <3>1. \A v \in Threads : v # t => tx'[v] = tx[v]
      BY <2>2
    <3>2. \A v \in Threads : Awaited(v)'
      BY <2>2, <3>1 DEF OnceInv, Awaited, Inserted, Involved
    <3>3. InvolvedOnce' /\ TalksFirst'
      BY <2>2 DEF OnceInv, InvolvedOnce, Involved, TalksFirst
    <3>4. QED
      BY <2>1, <3>2, <3>3 DEF OnceInv
  <2>3. ASSUME NEW t \in Threads, Service(t)
        PROVE  OnceInv'
    BY <2>2, <2>3, ServiceIsLawful, ServiceAwaits DEF Hold, OnceInv, IInv
  <2>4. ASSUME NEW t \in Threads, Commit(t)
        PROVE  OnceInv'
    BY <2>1, <2>4, FlushKeepsOnce DEF Commit, OnceInv
  <2>5. ASSUME NEW t \in Threads, Rollback(t)
        PROVE  OnceInv'
    <3>1. tx'[t] = NoWork
      BY <2>5 DEF Rollback, Discard, OnceInv, IInv, TypeOK
    <3>2. Awaited(t)'
      BY <3>1 DEF NoWork, Inserted, Awaited
    <3>3. QED
      BY <2>2, <2>5, <3>2 DEF Rollback, Discard
  <2>6. CASE UNCHANGED vars
    <3>1. db' = db /\ tx' = tx
      BY <2>6 DEF vars
    <3>2. QED
      BY <2>1, <3>1 DEF OnceInv, InvolvedOnce, Involved, TalksFirst, Awaited, Inserted
  <2>7. QED
    BY <2>3, <2>4, <2>5, <2>6 DEF Next
<1>3. OneRequestEach => []OneRequestEach
  <2>1. OneRequestEach => OneRequestEach'
    BY DEF OneRequestEach
  <2>2. QED
    BY <2>1, PTL
<1>4. OnceInv => InvolvedOnce
  BY DEF OnceInv
<1>5. QED
  BY <1>1, <1>2, <1>3, <1>4, PTL DEF Spec

\* Threads, participations and messages change as in AtomicRows: a thread is
\* stored with its creator's participation or not at all.
THEOREM RowsAreAtomic == Spec => KeepsRowsAtomic
<1> DEFINE claim == [t \in Threads |-> [i \in DOMAIN tx[t] |-> tx[t][i].old]]
<1>1. Init => Rows!Init
  BY FreshIsInit DEF Init
<1>2. IInv /\ [Next]_vars => [Rows!Next]_<<db, claim>>
  <2> SUFFICES ASSUME IInv, [Next]_vars PROVE [Rows!Next]_<<db, claim>>
    OBVIOUS
  <2>1. Tables /\ AllVersioned /\ OptimisticReads
    BY TypedTables DEF IInv
  <2>2. ASSUME NEW t \in Threads, Service(t)
        PROVE  Rows!Next
    <3>1. PICK w : Hold(t, w) /\ ReadHere(w)
      BY <2>2, ServiceIsLawful DEF IInv
    <3>2. Rows!Claim(t)
      BY <2>1, <3>1, HoldIsClaim
    <3>3. QED
      BY <3>2 DEF Rows!Next
  <2>3. ASSUME NEW t \in Threads, Commit(t)
        PROVE  Rows!Next
    <3>1. Rows!Change(t)
      BY <2>1, <2>3, FlushIsChange DEF Commit
    <3>2. QED
      BY <3>1 DEF Rows!Next
  <2>4. ASSUME NEW t \in Threads, Rollback(t)
        PROVE  Rows!Next
    <3>1. Rows!GiveUp(t)
      BY <2>1, <2>4, DiscardIsGiveUp DEF Rollback
    <3>2. QED
      BY <3>1 DEF Rows!Next
  <2>5. ASSUME UNCHANGED vars
        PROVE  UNCHANGED <<db, claim>>
    BY <2>5 DEF vars
  <2>6. QED
    BY <2>2, <2>3, <2>4, <2>5 DEF Next
<1>3. QED
  BY <1>1, <1>2, Invariance, PTL DEF Spec, KeepsRowsAtomic, Rows!Spec

=============================================================================
