----------------------------- MODULE Transactions -----------------------------
(***************************************************************************)
(* Database transactions as the services see them, over one InnoDB schema. *)
(*                                                                         *)
(* A POST request is two steps.  The service step is everything doPost     *)
(* does before commit: authorise, findOne or instantiate, bind, validate   *)
(* and the calls to the repository, all of them reading one REPEATABLE     *)
(* READ snapshot.  It leaves its writes in the persistence context tx[t]   *)
(* (Hold).  The flush of its commit checks the versions of the rows as     *)
(* they are by then (Flush).  A component adds what its tables check.      *)
(***************************************************************************)
EXTENDS Integers

CONSTANTS
    Ids,           \* what the shared sequence gives
    Threads,       \* transactions that may be open at the same time
    MaxVersion     \* bound on the updates of one row

ASSUME MaxVersionTyped == MaxVersion \in Nat

VARIABLES
    db,    \* the committed rows, by id
    tx     \* tx[t]: the rows thread t's transaction has written, as read and as left

-----------------------------------------------------------------------------
(* Rows.  An id is unborn, then live, then gone: the sequence never gives  *)
(* an id twice.                                                            *)

Unborn == [st |-> "unborn"]
Gone == [st |-> "gone"]
Live(row) == row.st = "live"

\* mutant: an entity whose version the flush leaves alone
BumpNothing(row) == row

Bump(row) == [row EXCEPT !.version = @ + 1]

\* A row a transaction may still update within the bound.
Editable(i) == Live(db[i]) /\ db[i].version < MaxVersion

-----------------------------------------------------------------------------
(* A change keeps the row as the snapshot had it.                          *)

NoWork == [i \in {} |-> [old |-> Unborn, new |-> Unborn]]
Idle(t) == DOMAIN tx[t] = {}

Changes(new) == [x \in DOMAIN new |-> [old |-> db[x], new |-> new[x]]]
Write(i, row) == [x \in {i} |-> [old |-> db[x], new |-> row]]
DeleteAll(ids) == [x \in ids |-> [old |-> db[x], new |-> Gone]]

\* A new id, from the sequence: nobody else has it.
FreshId(i) == db[i] = Unborn /\ \A u \in Threads : i \notin DOMAIN tx[u]

\* The service step of a request ends with these changes pending.
Hold(t, work) ==
    /\ Idle(t)
    /\ tx' = [tx EXCEPT ![t] = work]
    /\ UNCHANGED db

\* The rows as t's flush leaves them.
After(t) == [i \in Ids |-> IF i \in DOMAIN tx[t] THEN tx[t][i].new ELSE db[i]]

\* mutant: "where id = ?" alone
UnstaleById(t) == \A i \in DOMAIN tx[t] : db[i].st = tx[t][i].old.st

\* "... where id = ? and version = ?" finds every row t updates or deletes.
Unstale(t) ==
    \A i \in DOMAIN tx[t] :
        LET was == tx[t][i].old
        IN  /\ db[i].st = was.st
            /\ Live(was) => db[i].version = was.version

Flush(t) ==
    /\ ~Idle(t)
    /\ Unstale(t)
    /\ db' = After(t)
    /\ tx' = [tx EXCEPT ![t] = NoWork]

\* A stale version, a constraint, a deadlock victim, a lost connection or the
\* end of the process: the transaction leaves no trace.
Discard(t) ==
    /\ ~Idle(t)
    /\ tx' = [tx EXCEPT ![t] = NoWork]
    /\ UNCHANGED db

-----------------------------------------------------------------------------
(* Properties of every component *)

\* Two requests never both go from one version of a row: whatever a pending
\* change was read from is either still the row, or has a smaller version than
\* it and will not be flushed.  This is what the @Version column is for.
OptimisticReads ==
    \A t \in Threads : \A i \in DOMAIN tx[t] :
        LET was == tx[t][i].old
        IN  Live(was) => \/ db[i] = was
                         \/ db[i] = Gone
                         \/ Live(db[i]) /\ db[i].version > was.version

\* The versions are enough: a flush replaces the rows its transaction read, as
\* if it had compared every column, whatever other transactions did meanwhile.
Rows == INSTANCE AtomicRows
            WITH rows <- db,
                 claim <- [t \in Threads |-> [i \in DOMAIN tx[t] |-> tx[t][i].old]]
KeepsRowsAtomic == Rows!Spec

=============================================================================
