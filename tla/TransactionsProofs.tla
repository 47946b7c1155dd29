-------------------------- MODULE TransactionsProofs --------------------------
(***************************************************************************)
(* What holds of the transactions of every component: a service step, a    *)
(* flush and a discarded transaction are the steps of AtomicRows, as long  *)
(* as versions do what they are for.                                       *)
(***************************************************************************)
EXTENDS Transactions, TLAPS

\* The variables are tables: rows by id, changes by transaction.
Tables ==
    /\ db = [i \in Ids |-> db[i]]
    /\ tx = [t \in Threads |-> tx[t]]
    /\ \A t \in Threads : DOMAIN tx[t] \subseteq Ids

\* A row is blank or has a version.
Versioned(row) ==
    \/ row \in {Unborn, Gone}
    \/ Live(row) /\ row.version \in Nat

AllVersioned ==
    /\ \A i \in Ids : Versioned(db[i])
    /\ \A t \in Threads : \A i \in DOMAIN tx[t] : Versioned(tx[t][i].old)

\* What a service step leaves pending was read in the snapshot it leaves it in.
ReadHere(work) ==
    \A i \in DOMAIN work : i \in Ids /\ work[i].old = db[i]

LEMMA BlankRows == ~Live(Unborn) /\ ~Live(Gone) /\ Unborn.st = "unborn" /\ Gone.st = "gone"
BY DEF Live, Unborn, Gone

\* What was read and has kept its version is what is there.
LEMMA UnstaleIsUnchanged ==
    ASSUME Tables, AllVersioned, OptimisticReads, NEW t \in Threads, Unstale(t),
           NEW i \in DOMAIN tx[t]
    PROVE  db[i] = tx[t][i].old
<1> DEFINE was == tx[t][i].old
<1>1. /\ i \in Ids
      /\ db[i].st = was.st
      /\ Live(was) => db[i].version = was.version
  BY DEF Tables, Unstale
<1>2. Versioned(was) /\ Versioned(db[i])
  BY <1>1 DEF AllVersioned
<1>3. Live(was) => db[i] = was \/ db[i] = Gone \/ db[i].version > was.version
  BY DEF OptimisticReads
<1>4. CASE Live(was)
  BY <1>1, <1>2, <1>3, <1>4, BlankRows DEF Versioned, Live
<1>5. CASE ~Live(was)
  BY <1>1, <1>2, <1>5, BlankRows DEF Versioned, Live
<1>6. QED
  BY <1>4, <1>5

LEMMA HoldIsClaim ==
    ASSUME Tables, NEW t \in Threads, NEW work, ReadHere(work), Hold(t, work)
    PROVE  Rows!Claim(t)
<1> DEFINE claim == [u \in Threads |-> [i \in DOMAIN tx[u] |-> tx[u][i].old]]
<1>1. DOMAIN claim[t] = {}
  BY DEF Hold, Idle
<1>2. DOMAIN work \in SUBSET Ids
  BY DEF ReadHere
<1>3. claim' = [claim EXCEPT ![t] = [i \in DOMAIN work |-> db[i]]]
  <2>1. tx' = [tx EXCEPT ![t] = work]
    BY DEF Hold
  <2>2. \A u \in Threads : tx'[u] = IF u = t THEN work ELSE tx[u]
    BY <2>1 DEF Tables
  <2>3. [i \in DOMAIN work |-> work[i].old] = [i \in DOMAIN work |-> db[i]]
    BY DEF ReadHere
  <2>4. QED
    BY <2>2, <2>3
<1>4. db' = db
  BY DEF Hold
<1>5. QED
  BY <1>1, <1>2, <1>3, <1>4 DEF Rows!Claim, Rows!Nothing

LEMMA LetGo ==
    ASSUME Tables, NEW t \in Threads, ~Idle(t), tx' = [tx EXCEPT ![t] = NoWork]
    PROVE  Rows!Release(t)
<1> DEFINE claim == [u \in Threads |-> [i \in DOMAIN tx[u] |-> tx[u][i].old]]
<1>1. \A u \in Threads : tx'[u] = IF u = t THEN NoWork ELSE tx[u]
  BY DEF Tables
<1>2. DOMAIN claim[t] # {}
  BY DEF Idle
<1>3. DOMAIN claim'[t] = {}
  BY <1>1 DEF NoWork
<1>4. claim' = [claim EXCEPT ![t] = claim'[t]]
  <2>1. claim' = [u \in Threads |-> IF u = t THEN claim'[t] ELSE claim[u]]
    BY <1>1
  <2>2. QED
    BY <2>1
<1>5. QED
  BY <1>2, <1>3, <1>4 DEF Rows!Release, Rows!Nothing

LEMMA FlushIsChange ==
    ASSUME Tables, AllVersioned, OptimisticReads, NEW t \in Threads, Flush(t)
    PROVE  Rows!Change(t)
<1> DEFINE claim == [u \in Threads |-> [i \in DOMAIN tx[u] |-> tx[u][i].old]]
<1>1. Rows!Release(t)
  BY LetGo DEF Flush
<1>2. \A i \in DOMAIN claim[t] : db[i] = claim[t][i]
  BY UnstaleIsUnchanged DEF Flush
<1>3. db' = [i \in Ids |-> IF i \in DOMAIN claim[t] THEN db'[i] ELSE db[i]]
  BY DEF Flush, After
<1>4. QED
  BY <1>1, <1>2, <1>3 DEF Rows!Change

LEMMA DiscardIsGiveUp ==
    ASSUME Tables, NEW t \in Threads, Discard(t)
    PROVE  Rows!GiveUp(t)
BY LetGo DEF Discard, Rows!GiveUp

\* With nothing pending, the initial states correspond.
LEMMA FreshIsInit ==
    ASSUME db = [i \in Ids |-> db[i]], tx = [t \in Threads |-> NoWork]
    PROVE  Rows!Init
BY DEF Rows!Init, Rows!Nothing, NoWork

\* Versions only go up, so what was read stays the row, or is older than it:
\* a change a service holds, and a flush that raises versions, keep it so.
Raises(was, new) ==
    \/ was = Unborn
    \/ new = Gone
    \/ Live(was) /\ Live(new) /\ new.version > was.version

LEMMA HoldKeepsReads ==
    ASSUME Tables, OptimisticReads, NEW t \in Threads, NEW work, ReadHere(work), Hold(t, work)
    PROVE  OptimisticReads'
<1>1. db' = db /\ \A u \in Threads : tx'[u] = IF u = t THEN work ELSE tx[u]
  BY DEF Hold, Tables
<1>2. SUFFICES ASSUME NEW u \in Threads, NEW i \in DOMAIN tx'[u], Live(tx'[u][i].old)
               PROVE  \/ db'[i] = tx'[u][i].old
                      \/ db'[i] = Gone
                      \/ Live(db'[i]) /\ db'[i].version > tx'[u][i].old.version
  BY DEF OptimisticReads
<1>3. QED
  BY <1>1, <1>2 DEF OptimisticReads, ReadHere

LEMMA FlushKeepsReads ==
    ASSUME Tables, AllVersioned, OptimisticReads, NEW t \in Threads, Flush(t),
           \A i \in DOMAIN tx[t] : Versioned(tx[t][i].new) /\ Raises(tx[t][i].old, tx[t][i].new)
    PROVE  OptimisticReads'
<1>1. \A u \in Threads : tx'[u] = IF u = t THEN NoWork ELSE tx[u]
  BY DEF Flush, Tables
<1>2. \A i \in Ids : db'[i] = IF i \in DOMAIN tx[t] THEN tx[t][i].new ELSE db[i]
  BY DEF Flush, After
<1>3. SUFFICES ASSUME NEW u \in Threads, NEW i \in DOMAIN tx'[u], Live(tx'[u][i].old)
               PROVE  \/ db'[i] = tx'[u][i].old
                      \/ db'[i] = Gone
                      \/ Live(db'[i]) /\ db'[i].version > tx'[u][i].old.version
  BY DEF OptimisticReads
<1> DEFINE was == tx[u][i].old
<1>4. /\ i \in DOMAIN tx[u] /\ i \in Ids /\ Live(was)
      /\ Versioned(was) /\ Versioned(db[i])
      /\ tx'[u][i].old = was
  BY <1>1, <1>3 DEF NoWork, Tables, AllVersioned
<1> HIDE DEF was
<1>5. db[i] = was \/ db[i] = Gone \/ (Live(db[i]) /\ db[i].version > was.version)
  BY <1>4 DEF OptimisticReads, was
<1>6. CASE i \notin DOMAIN tx[t]
  <2>1. db'[i] = db[i]
    BY <1>2, <1>4, <1>6
  <2>2. QED
    BY <1>4, <1>5, <2>1
<1>7. CASE i \in DOMAIN tx[t]
  <2> DEFINE new == tx[t][i].new
  <2>1. db'[i] = new /\ db[i] = tx[t][i].old
    BY <1>2, <1>4, <1>7, UnstaleIsUnchanged DEF Flush
  <2>2. Versioned(new) /\ Raises(db[i], new)
    BY <2>1, <1>7
  <2> HIDE DEF new
  <2>3. CASE Live(db[i])
    BY <1>4, <1>5, <2>1, <2>2, <2>3, BlankRows DEF Raises, Versioned
  <2>4. CASE ~Live(db[i])
    <3>1. db[i] = Gone
      BY <1>4, <1>5, <2>4
    <3>2. new = Gone
      BY <3>1, <2>2, BlankRows DEF Raises
    <3>3. QED
      BY <2>1, <3>2
  <2>5. QED
    BY <2>3, <2>4
<1>8. QED
  BY <1>6, <1>7

LEMMA DiscardKeepsReads ==
    ASSUME Tables, OptimisticReads, NEW t \in Threads, Discard(t)
    PROVE  OptimisticReads'
<1>1. db' = db /\ \A u \in Threads : tx'[u] = IF u = t THEN NoWork ELSE tx[u]
  BY DEF Discard, Tables
<1>2. QED
  BY <1>1 DEF OptimisticReads, NoWork

=============================================================================
