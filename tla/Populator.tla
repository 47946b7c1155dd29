------------------------------- MODULE Populator -------------------------------
(***************************************************************************)
(* The population launcher: DatabasePopulator.run, which empties the       *)
(* database and loads the files of entities one after the other, each in   *)
(* one transaction of DatabaseUtil.                                        *)
(*                                                                         *)
(* A file's entities come in an arbitrary order.  tryPersist persists them *)
(* in that order; the first that fails goes to the end of the list and     *)
(* everything is rolled back and tried again, as many times as there are   *)
(* entities.  An entity fails when one it refers to is not persisted yet,  *)
(* or for reasons of its own; which commits fail is up to the database.    *)
(***************************************************************************)
EXTENDS Integers, FiniteSets, SequencesExt

CONSTANTS
    Files,      \* the sequence of files, each the set of its entities
    Needs,      \* the entities of its file that an entity must refer to
    MaxKills    \* bound on how often the launcher is killed and started again

ASSUME FilesTyped ==
    /\ Len(Files) \in Nat /\ DOMAIN Files = 1 .. Len(Files)
    /\ \A f, g \in DOMAIN Files : IsFiniteSet(Files[f]) /\ (f # g => Files[f] \cap Files[g] = {})

ASSUME NeedsTyped == \A f \in DOMAIN Files : \A e \in Files[f] : Needs[e] \subseteq Files[f]

ASSUME MaxKillsTyped == MaxKills \in Nat

VARIABLES
    db,          \* the entities that are committed
    file,        \* the index of the file that is being loaded
    entityList,  \* its entities, in the order they are tried
    persisted,   \* how many of them the open transaction holds
    attempts,    \* how many transactions the file has taken
    reported,    \* what populate has said of each file: TRUE, FALSE
    troubled,    \* an entity has failed that lacked nothing
    pc,
    kills

vars == <<db, file, entityList, persisted, attempts, reported, troubled, pc, kills>>

-----------------------------------------------------------------------------
AllEntities == UNION {Files[f] : f \in DOMAIN Files}

Silent == [f \in {} |-> TRUE]
Report(answer) == reported' = [f \in DOMAIN reported \cup {file} |->
                                  IF f = file THEN answer ELSE reported[f]]

\* run: drop and create the schema.
Start ==
    /\ pc = "off"
    /\ db' = {}
    /\ file' = 1
    /\ pc' = "open"
    /\ reported' = Silent
    /\ troubled' = FALSE
    /\ UNCHANGED <<entityList, persisted, attempts, kills>>

\* The exporter, or the schema, throws into the catch of run: what was dropped by
\* then is gone, and nothing is loaded.
StartFails ==
    /\ pc = "off"
    /\ db' \in SUBSET db
    /\ file' = 1
    /\ pc' = "noSchema"
    /\ reported' = Silent
    /\ troubled' = FALSE
    /\ UNCHANGED <<entityList, persisted, attempts, kills>>

\* populate: read the file; validate finds nothing wrong in it.
Open ==
    /\ pc = "open"
    /\ file \in DOMAIN Files
    /\ entityList' \in SetToSeqs(Files[file])
    /\ persisted' = 0
    /\ attempts' = 0
    /\ pc' = "try"
    /\ UNCHANGED <<db, file, reported, troubled, kills>>

\* validate finds a violation.
Invalid ==
    /\ pc = "open"
    /\ file \in DOMAIN Files
    /\ Files[file] # {}
    /\ Report(FALSE)
    /\ troubled' = TRUE
    /\ pc' = "end"
    /\ UNCHANGED <<db, file, entityList, persisted, attempts, kills>>

\* All files are loaded.
Finish ==
    /\ pc = "open"
    /\ file \notin DOMAIN Files
    /\ pc' = "end"
    /\ UNCHANGED <<db, file, entityList, persisted, attempts, reported, troubled, kills>>

\* persist: an empty file is done.
Nothing ==
    /\ pc = "try"
    /\ entityList = <<>>
    /\ pc' = "stored"
    /\ UNCHANGED <<db, file, entityList, persisted, attempts, reported, troubled, kills>>

\* mutant: one attempt too many
MoreThanEnough == attempts <= Len(entityList)

\* mutant: one attempt too few
MoreButOne == attempts + 1 < Len(entityList)

\* persist: the condition of the loop
More == attempts < Len(entityList)

\* tryPersist: a transaction starts.
Try ==
    /\ pc = "try"
    /\ More
    /\ persisted' = 0
    /\ pc' = "persist"
    /\ UNCHANGED <<db, file, entityList, attempts, reported, troubled, kills>>

\* No attempt is left.
GiveUp ==
    /\ pc = "try"
    /\ entityList # <<>>
    /\ ~More
    /\ Report(FALSE)
    /\ pc' = "end"
    /\ UNCHANGED <<db, file, entityList, persisted, attempts, troubled, kills>>

\* All that the next entity refers to is persisted in the open transaction.
Ready == Needs[entityList[persisted + 1]] \subseteq Range(SubSeq(entityList, 1, persisted))

Persist ==
    /\ pc = "persist"
    /\ persisted < Len(entityList)
    /\ Ready
    /\ persisted' = persisted + 1
    /\ UNCHANGED <<db, file, entityList, attempts, reported, troubled, pc, kills>>

\* mutant: addLast without remove
AddLast(list, i) == Append(list, list[i])

\* remove(i) and addLast
MoveLast(list, i) == Append(RemoveAt(list, i), list[i])

\* mutant: a failed attempt is not counted
DeferForFree ==
    /\ pc = "persist"
    /\ persisted < Len(entityList)
    /\ troubled' = (troubled \/ Ready)
    /\ entityList' = MoveLast(entityList, persisted + 1)
    /\ pc' = "try"
    /\ UNCHANGED <<db, file, attempts, persisted, reported, kills>>

\* mutant: commitTransaction whatever the success
DeferAndCommit ==
    /\ pc = "persist"
    /\ persisted < Len(entityList)
    /\ troubled' = (troubled \/ Ready)
    /\ db' = db \cup Range(SubSeq(entityList, 1, persisted))
    /\ entityList' = MoveLast(entityList, persisted + 1)
    /\ attempts' = attempts + 1
    /\ pc' = "try"
    /\ UNCHANGED <<file, persisted, reported, kills>>

\* The entity cannot be persisted yet: it is deferred, the transaction rolled back.
Defer ==
    /\ pc = "persist"
    /\ persisted < Len(entityList)
    /\ troubled' = (troubled \/ Ready)
    /\ entityList' = MoveLast(entityList, persisted + 1)
    /\ attempts' = attempts + 1
    /\ pc' = "try"
    /\ UNCHANGED <<db, file, persisted, reported, kills>>

\* Every entity is persisted: commit.
Commit ==
    /\ pc = "persist"
    /\ persisted = Len(entityList)
    /\ db' = db \cup Range(entityList)
    /\ pc' = "stored"
    /\ UNCHANGED <<file, entityList, persisted, attempts, reported, troubled, kills>>

\* commitTransaction catches what commit throws, and populate does not notice.
CommitFails ==
    /\ pc = "persist"
    /\ persisted = Len(entityList)
    /\ pc' = "stored"
    /\ UNCHANGED <<db, file, entityList, persisted, attempts, reported, troubled, kills>>

\* populate says so, and run goes on to the next file.
Answer ==
    /\ pc = "stored"
    /\ Report(TRUE)
    /\ file' = file + 1
    /\ pc' = "open"
    /\ UNCHANGED <<db, entityList, persisted, attempts, troubled, kills>>

\* run catches what anything else throws, the open transaction left to its end.
Break ==
    /\ pc \in {"open", "try", "persist", "stored"}
    /\ pc' = "end"
    /\ UNCHANGED <<db, file, entityList, persisted, attempts, reported, troubled, kills>>

\* The launcher is killed, and started once more.
Kill ==
    /\ pc # "off"
    /\ kills < MaxKills
    /\ kills' = kills + 1
    /\ pc' = "off"
    /\ UNCHANGED <<db, file, entityList, persisted, attempts, reported, troubled>>

Init ==
    /\ db \in SUBSET AllEntities
    /\ file = 1
    /\ entityList = <<>>
    /\ persisted = 0
    /\ attempts = 0
    /\ reported = Silent
    /\ troubled = FALSE
    /\ pc = "off"
    /\ kills = 0

Run ==
    \/ Start \/ StartFails \/ Open \/ Invalid \/ Finish \/ Nothing \/ Try \/ GiveUp \/ Persist \/ Defer
    \/ Commit \/ CommitFails \/ Answer \/ Break

Next == Run \/ Kill

Spec == Init /\ [][Next]_vars /\ WF_vars(Run)

-----------------------------------------------------------------------------
(* Properties *)

\* The variables keep their types, and the counters stay within the list.
TypeOK ==
    /\ db \subseteq AllEntities
    /\ file \in 1 .. Len(Files) + 1
    /\ Range(entityList) \subseteq AllEntities
    /\ persisted \in 0 .. Len(entityList)
    /\ attempts \in 0 .. Len(entityList)
    /\ reported \in [DOMAIN reported -> BOOLEAN]
    /\ DOMAIN reported \subseteq DOMAIN Files
    /\ troubled \in BOOLEAN
    /\ pc \in {"off", "noSchema", "open", "try", "persist", "stored", "end"}
    /\ kills \in 0 .. MaxKills

\* However often the list is reordered, every entity of the file is on it, once.
NothingLost ==
    pc \in {"try", "persist", "stored"} =>
        Range(entityList) = Files[file] /\ Len(entityList) = Cardinality(Files[file])

\* Once the schema is new, a file is stored entirely or not at all, however
\* many of its entities were deferred and wherever the launcher was killed; and
\* what populate reports as not persisted is not stored.
NewSchema == pc \notin {"off", "noSchema"}
AllOrNothing ==
    \A f \in DOMAIN Files :
        NewSchema =>
            /\ db \cap Files[f] \in {{}, Files[f]}
            /\ f \in DOMAIN reported /\ ~reported[f] => db \cap Files[f] = {}

\* "Sorting your entities topologically": a file without violations whose entities
\* only lack one another is stored, in whatever order it comes, as long as none
\* refers to one that refers to another.  Then each is put off at most once, and
\* there are attempts enough.  With duty, job and employer, in that order, they
\* run out just when the list is right.
Chained(f) == \E e \in Files[f] : \E g \in Needs[e] : Needs[g] # {}
SortedIfFlat ==
    \A f \in DOMAIN reported : ~reported[f] => troubled \/ Chained(f)

\* How far a run has come: whether it goes on, the file, how far the file is, the
\* attempt, and how far the attempt is.
Over == pc \in {"end", "noSchema"}
Position ==
    <<CASE pc = "off" -> 0 [] Over -> 2 [] OTHER -> 1,
      file,
      CASE pc = "open" -> 0 [] pc = "stored" -> 2 [] OTHER -> 1,
      attempts,
      IF pc = "persist" THEN 1 ELSE 0,
      persisted>>
Before(a, b) == \E k \in 1 .. 6 : a[k] < b[k] /\ \A j \in 1 .. k - 1 : a[j] = b[j]

\* Between two kills no position comes twice: no order of the entities, and no
\* failure of any of them, makes tryPersist defer the same ones for ever.
NeverAgain == [][kills' = kills => Before(Position, Position')]_vars

\* The launcher ends, if it is not killed for ever: deferring does not go on for ever.
Ends == <>Over

=============================================================================
