---------------------------- MODULE PopulatorProofs ----------------------------
(***************************************************************************)
(* What the populator guarantees for any sequence of files of any size:    *)
(* no entity is lost by deferring, a file is stored entirely or not at     *)
(* all, a file in which nothing refers to what refers on is always sorted  *)
(* within as many attempts as it has entities, and no position recurs.     *)
(***************************************************************************)
EXTENDS Populator, FiniteSetTheorems, SequenceTheorems, TLAPS

Working == pc \in {"try", "persist", "stored"}

\* The list is a sequence: of the file's entities, while one is worked on.
Listed == entityList \in Seq(AllEntities)

\* An attempt is made only if one is left.
Counted == pc = "persist" => attempts < Len(entityList)

\* What is being loaded is not stored yet, nor is what comes after it.
NotYet ==
    NewSchema =>
        /\ \A g \in DOMAIN Files : g > file => db \cap Files[g] = {}
        /\ pc \in {"open", "try", "persist"} /\ file \in DOMAIN Files => db \cap Files[file] = {}
        /\ pc # "end" => file \notin DOMAIN reported
        /\ pc \in {"try", "persist", "stored"} => file \in DOMAIN Files
        /\ \A g \in DOMAIN reported : g <= file

\* The attempts have put dependents at the end: as many as attempts were made.
Sorted ==
    pc \in {"try", "persist"} /\ ~troubled /\ ~Chained(file) =>
        \A i \in 1 .. Len(entityList) :
            i > Len(entityList) - attempts => Needs[entityList[i]] # {}

IInv ==
    /\ TypeOK /\ Listed /\ Counted /\ NothingLost
    /\ NotYet /\ AllOrNothing
    /\ Sorted /\ SortedIfFlat

-----------------------------------------------------------------------------
(* Lists *)

LEMMA RangeOfList ==
    ASSUME NEW S, NEW list \in Seq(S)
    PROVE  Range(list) = {list[i] : i \in 1 .. Len(list)} /\ Range(list) \subseteq S
BY LenProperties DEF Range

\* Moving an entity to the end shifts those after it.
LEMMA MovedLast ==
    ASSUME NEW S, NEW list \in Seq(S), NEW p \in 1 .. Len(list)
    PROVE  /\ MoveLast(list, p) \in Seq(S)
           /\ Len(MoveLast(list, p)) = Len(list)
           /\ \A i \in 1 .. Len(list) :
                 MoveLast(list, p)[i] = IF i < p THEN list[i]
                                        ELSE IF i < Len(list) THEN list[i + 1] ELSE list[p]
<1> DEFINE front == SubSeq(list, 1, p - 1)
           back == SubSeq(list, p + 1, Len(list))
<1>0. Len(list) \in Nat /\ \A i \in 1 .. Len(list) : list[i] \in S
  BY LenProperties, ElementOfSeq
<1>1. /\ front \in Seq(S) /\ Len(front) = p - 1
      /\ \A i \in 1 .. p - 1 : front[i] = list[i]
  <2>1. p - 1 \in Int /\ 1 \in Int /\ \A i \in 1 .. p - 1 : list[i] \in S
    BY <1>0
  <2>2. /\ front \in Seq(S)
        /\ Len(front) = IF 1 <= p - 1 THEN p - 1 - 1 + 1 ELSE 0
        /\ \A i \in 1 .. p - 1 - 1 + 1 : front[i] = list[1 + i - 1]
    BY <2>1, SubSeqProperties
  <2> HIDE DEF front
  <2>3. QED
    BY <2>2, <1>0
<1>2. /\ back \in Seq(S) /\ Len(back) = Len(list) - p
      /\ \A i \in 1 .. Len(list) - p : back[i] = list[p + i]
  <2>1. p + 1 \in Int /\ Len(list) \in Int /\ \A i \in p + 1 .. Len(list) : list[i] \in S
    BY <1>0
  <2>2. /\ back \in Seq(S)
        /\ Len(back) = IF p + 1 <= Len(list) THEN Len(list) - (p + 1) + 1 ELSE 0
        /\ \A i \in 1 .. Len(list) - (p + 1) + 1 : back[i] = list[p + 1 + i - 1]
    BY <2>1, SubSeqProperties
  <2> HIDE DEF back
  <2>3. \A i \in 1 .. Len(list) - p : p + 1 + i - 1 = p + i
    BY <1>0
  <2>4. QED
    BY <2>2, <2>3, <1>0
<1>3. RemoveAt(list, p) = front \o back
  BY DEF RemoveAt
<1>4. /\ RemoveAt(list, p) \in Seq(S)
      /\ Len(RemoveAt(list, p)) = Len(list) - 1
      /\ \A i \in 1 .. Len(list) - 1 :
            RemoveAt(list, p)[i] = IF i < p THEN list[i] ELSE list[i + 1]
  <2> HIDE DEF front, back
  <2>1. /\ front \o back \in Seq(S)
        /\ Len(front \o back) = Len(front) + Len(back)
        /\ \A i \in 1 .. Len(front) + Len(back) :
              (front \o back)[i] = IF i <= Len(front) THEN front[i] ELSE back[i - Len(front)]
    BY <1>1, <1>2, ConcatProperties
  <2>2. Len(front) + Len(back) = Len(list) - 1
    BY <1>0, <1>1, <1>2
  <2>3. ASSUME NEW i \in 1 .. Len(list) - 1
        PROVE  (front \o back)[i] = IF i < p THEN list[i] ELSE list[i + 1]
    <3>1. CASE i < p
      <4>1. i \in 1 .. p - 1 /\ i <= Len(front) /\ i \in 1 .. Len(front) + Len(back)
        BY <3>1, <2>2, <1>0, <1>1
      <4>2. (front \o back)[i] = front[i]
        BY <4>1, <2>1
      <4>3. QED
        BY <4>1, <4>2, <3>1, <1>1
    <3>2. CASE i >= p
      <4>1. (front \o back)[i] = back[i - (p - 1)]
        BY <3>2, <2>1, <2>2, <1>0, <1>1
      <4>2. i - (p - 1) \in 1 .. Len(list) - p /\ p + (i - (p - 1)) = i + 1
        BY <3>2, <1>0
      <4>3. QED
        BY <4>1, <4>2, <3>2, <1>0, <1>2
    <3>3. i < p \/ i >= p
      BY <1>0
    <3>4. QED
      BY <3>1, <3>2, <3>3
  <2>4. QED
    BY <2>1, <2>2, <2>3, <1>3
<1>5. list[p] \in S
  BY <1>0
<1> HIDE DEF front, back
<1>6. QED
  <2> DEFINE rest == RemoveAt(list, p)
  <2>1. rest \in Seq(S) /\ Len(rest) = Len(list) - 1
    BY <1>4
  <2>2. MoveLast(list, p) = Append(rest, list[p])
    BY DEF MoveLast
  <2>3. \A i \in 1 .. Len(list) - 1 : rest[i] = IF i < p THEN list[i] ELSE list[i + 1]
    BY <1>4
  <2> HIDE DEF rest
  <2>4. /\ Append(rest, list[p]) \in Seq(S)
        /\ Len(Append(rest, list[p])) = Len(list)
        /\ \A i \in 1 .. Len(list) : Append(rest, list[p])[i] = IF i < Len(list) THEN rest[i] ELSE list[p]
    BY <2>1, <1>0, <1>5
  <2>5. QED
    BY <2>2, <2>3, <2>4, <1>0

LEMMA MovedLastKeepsAll ==
    ASSUME NEW S, NEW list \in Seq(S), NEW p \in 1 .. Len(list)
    PROVE  Range(MoveLast(list, p)) = Range(list)
<1> DEFINE moved == MoveLast(list, p)
<1>0. Len(list) \in Nat
  BY LenProperties
<1>1. /\ moved \in Seq(S) /\ Len(moved) = Len(list)
      /\ \A i \in 1 .. Len(list) :
            moved[i] = IF i < p THEN list[i] ELSE IF i < Len(list) THEN list[i + 1] ELSE list[p]
  BY MovedLast
<1> HIDE DEF moved
<1>2. Range(moved) = {moved[i] : i \in 1 .. Len(list)} /\ Range(list) = {list[i] : i \in 1 .. Len(list)}
  BY <1>1, RangeOfList
<1>3. ASSUME NEW i \in 1 .. Len(list) PROVE \E j \in 1 .. Len(list) : moved[i] = list[j]
  <2>1. i < p => moved[i] = list[i]
    BY <1>1
  <2>2. i >= p /\ i < Len(list) => moved[i] = list[i + 1] /\ i + 1 \in 1 .. Len(list)
    BY <1>0, <1>1
  <2>3. i >= p /\ i >= Len(list) => moved[i] = list[p]
    BY <1>0, <1>1
  <2>4. QED
    BY <1>0, <2>1, <2>2, <2>3
<1>4. ASSUME NEW j \in 1 .. Len(list) PROVE \E i \in 1 .. Len(list) : moved[i] = list[j]
  <2>1. j < p => moved[j] = list[j]
    BY <1>1
  <2>2. j > p => j - 1 \in 1 .. Len(list) /\ moved[j - 1] = list[j]
    <3> SUFFICES ASSUME j > p PROVE j - 1 \in 1 .. Len(list) /\ moved[j - 1] = list[j]
      OBVIOUS
    <3>1. j - 1 \in 1 .. Len(list) /\ ~(j - 1 < p) /\ j - 1 < Len(list) /\ j - 1 + 1 = j
      BY <1>0
    <3>2. moved[j - 1] = list[j - 1 + 1]
      BY <3>1, <1>1
    <3>3. QED
      BY <3>1, <3>2
  <2>3. j = p => Len(list) \in 1 .. Len(list) /\ moved[Len(list)] = list[j]
    BY <1>0, <1>1
  <2>4. j < p \/ j > p \/ j = p
    BY <1>0
  <2>5. QED
    BY <2>1, <2>2, <2>3, <2>4
<1>5. Range(moved) \subseteq Range(list)
  BY <1>2, <1>3
<1>6. Range(list) \subseteq Range(moved)
  <2> SUFFICES ASSUME NEW x \in Range(list) PROVE x \in Range(moved)
    OBVIOUS
  <2>1. PICK j \in 1 .. Len(list) : x = list[j]
    BY <1>2
  <2>2. PICK i \in 1 .. Len(list) : moved[i] = list[j]
    BY <1>4
  <2>3. QED
    BY <1>2, <2>1, <2>2
<1>7. QED
  BY <1>5, <1>6 DEF moved

\* A list in which a finite set is written without repetition holds all of it.
LEMMA ListsHoldAll ==
    ASSUME NEW S, IsFiniteSet(S), NEW list \in SetToSeqs(S)
    PROVE  list \in Seq(S) /\ Len(list) = Cardinality(S) /\ Range(list) = S
<1> DEFINE n == Cardinality(S)
<1>1. n \in Nat
  BY FS_CardinalityType
<1>2. list \in [1 .. n -> S] /\ \A i, j \in 1 .. n : i # j => list[i] # list[j]
  BY DEF SetToSeqs
<1>3. IsFiniteSet(1 .. n) /\ Cardinality(1 .. n) = n
  <2>1. Cardinality(1 .. n) = IF 1 > n THEN 0 ELSE n - 1 + 1
    BY <1>1, FS_Interval
  <2>2. IsFiniteSet(1 .. n)
    BY <1>1, FS_Interval
  <2> HIDE DEF n
  <2>3. QED
    BY <1>1, <2>1, <2>2
<1>4. list \in Injection(1 .. n, S)
  BY <1>2 DEF Injection, IsInjective
<1>5. list \in Surjection(1 .. n, S)
  BY <1>3, <1>4, FS_Injection
<1>6. list \in Seq(S)
  <2>1. [1 .. n -> S] \in {[1 .. m -> S] : m \in Nat}
    BY <1>1
  <2> HIDE DEF n
  <2>2. list \in UNION {[1 .. m -> S] : m \in Nat}
    BY <1>2, <2>1
  <2>3. QED
    BY <2>2, SeqDef
<1>7. Len(list) = n
  <2>1. DOMAIN list = 1 .. n /\ DOMAIN list = 1 .. Len(list) /\ Len(list) \in Nat
    BY <1>2, <1>6, LenProperties
  <2>2. QED
    BY <1>1, <2>1
<1>8. Range(list) = S
  BY <1>2, <1>5 DEF Range, Surjection
<1>9. QED
  BY <1>6, <1>7, <1>8

LEMMA FilesAre ==
    /\ Len(Files) \in Nat /\ DOMAIN Files = 1 .. Len(Files)
    /\ \A f \in DOMAIN Files : Files[f] \subseteq AllEntities /\ IsFiniteSet(Files[f])
    /\ \A f, g \in DOMAIN Files : f # g => Files[f] \cap Files[g] = {}
BY FilesTyped DEF AllEntities

-----------------------------------------------------------------------------
(* The list keeps every entity. *)

LEMMA InitIInv == Init => IInv
<1> SUFFICES ASSUME Init PROVE IInv
  OBVIOUS
<1>1. /\ <<>> \in Seq(AllEntities) /\ Len(<<>>) = 0 /\ Range(<<>>) = {}
  BY EmptySeq DEF Range
<1>2. DOMAIN Silent = {} /\ Silent \in [DOMAIN Silent -> BOOLEAN]
  BY DEF Silent
<1>3. TypeOK
  <2>1. db \subseteq AllEntities /\ file \in 1 .. Len(Files) + 1
    BY FilesAre DEF Init
  <2>2. Range(entityList) \subseteq AllEntities
    BY <1>1 DEF Init
  <2>3. persisted \in 0 .. Len(entityList) /\ attempts \in 0 .. Len(entityList) /\ kills \in 0 .. MaxKills
    BY <1>1, MaxKillsTyped DEF Init
  <2>4. reported \in [DOMAIN reported -> BOOLEAN] /\ DOMAIN reported \subseteq DOMAIN Files
    BY <1>2 DEF Init
  <2>5. QED
    BY <2>1, <2>2, <2>3, <2>4 DEF Init, TypeOK
<1>4. QED
  BY <1>1, <1>2, <1>3 DEF Init, IInv, Listed, Counted, NothingLost, NotYet, AllOrNothing, NewSchema, Sorted, SortedIfFlat

LEMMA ListStep == IInv /\ [Next]_vars => Listed' /\ NothingLost'
<1> SUFFICES ASSUME IInv, [Next]_vars PROVE Listed' /\ NothingLost'
  OBVIOUS
<1> USE DEF IInv
<1>1. CASE UNCHANGED <<entityList, file>> /\ (Working' => Working)
  BY <1>1 DEF Listed, NothingLost, Working
<1>2. CASE Open
  <2>1. /\ entityList' \in Seq(Files[file]) /\ Len(entityList') = Cardinality(Files[file])
        /\ Range(entityList') = Files[file]
    BY <1>2, FilesAre, ListsHoldAll DEF Open
  <2>2. entityList' \in Seq(AllEntities)
    BY <1>2, <2>1, FilesAre, SeqMonotonic DEF Open
  <2>3. file' = file
    BY <1>2 DEF Open
  <2>4. QED
    BY <2>1, <2>2, <2>3 DEF Listed, NothingLost
<1>3. CASE Defer
  <2>1. persisted + 1 \in 1 .. Len(entityList)
    BY <1>3, LenProperties DEF Defer, TypeOK, Listed
  <2>2. /\ entityList' \in Seq(AllEntities) /\ Len(entityList') = Len(entityList)
        /\ Range(entityList') = Range(entityList)
    BY <1>3, <2>1, MovedLast, MovedLastKeepsAll DEF Defer, Listed
  <2>3. file' = file /\ pc = "persist"
    BY <1>3 DEF Defer
  <2>4. QED
    BY <2>2, <2>3 DEF Listed, NothingLost
<1>4. CASE Start \/ StartFails \/ Answer
  BY <1>4 DEF Start, StartFails, Answer, Listed, NothingLost
<1>5. CASE Invalid \/ Finish \/ Nothing \/ Try \/ GiveUp \/ Persist \/ Commit \/ CommitFails \/ Break \/ Kill
  <2>1. UNCHANGED <<entityList, file>>
    BY <1>5 DEF Invalid, Finish, Nothing, Try, GiveUp, Persist, Commit, CommitFails, Break, Kill
  <2>2. Working' => Working
    BY <1>5 DEF Working, Invalid, Finish, Nothing, Try, GiveUp, Persist, Commit, CommitFails, Break, Kill
  <2>3. QED
    BY <1>1, <2>1, <2>2
<1>6. CASE UNCHANGED vars
  BY <1>6 DEF vars, Listed, NothingLost
<1>7. QED
  BY <1>2, <1>3, <1>4, <1>5, <1>6 DEF Next, Run

LEMMA CountStep == IInv /\ [Next]_vars => Counted'
<1> SUFFICES ASSUME IInv, [Next]_vars PROVE Counted'
  OBVIOUS
<1>1. CASE Try
  BY <1>1 DEF Try, More, Counted
<1>2. CASE ~Try
  BY <1>2 DEF IInv, Counted, Next, Run, vars, Start, StartFails, Open, Invalid, Finish, Nothing, GiveUp, Persist,
      Defer, Commit, CommitFails, Answer, Break, Kill
<1>3. QED
  BY <1>1, <1>2

LEMMA Reports ==
    ASSUME TypeOK, NEW answer \in BOOLEAN, file \in DOMAIN Files, Report(answer)
    PROVE  /\ DOMAIN reported' = DOMAIN reported \cup {file} /\ DOMAIN reported' \subseteq DOMAIN Files
           /\ reported' \in [DOMAIN reported' -> BOOLEAN]
           /\ reported'[file] = answer
           /\ \A f \in DOMAIN reported : f # file => reported'[f] = reported[f]
<1>1. reported' = [f \in DOMAIN reported \cup {file} |-> IF f = file THEN answer ELSE reported[f]]
  BY DEF Report
<1>2. DOMAIN reported' = DOMAIN reported \cup {file}
  BY <1>1
<1>3. \A f \in DOMAIN reported : reported[f] \in BOOLEAN
  BY DEF TypeOK
<1>4. reported' \in [DOMAIN reported \cup {file} -> BOOLEAN]
  BY <1>1, <1>3
<1>5. reported'[file] = answer /\ \A f \in DOMAIN reported : f # file => reported'[f] = reported[f]
  BY <1>1
<1>6. QED
  BY <1>2, <1>4, <1>5 DEF TypeOK

\* While the list is tried there is something on it: GiveUp and Answer are about a file.
LEMMA TypeStep == IInv /\ [Next]_vars => TypeOK'
<1> SUFFICES ASSUME IInv, [Next]_vars PROVE TypeOK'
  OBVIOUS
<1>0. TypeOK /\ Listed /\ Counted /\ NotYet /\ Listed'
  BY ListStep DEF IInv
<1>1. Len(entityList) \in Nat /\ Len(entityList') \in Nat /\ Range(entityList') \subseteq AllEntities
  BY <1>0, LenProperties, RangeOfList DEF Listed
<1>2. db' \subseteq AllEntities
  <2>1. CASE Commit
    BY <2>1, <1>0 DEF Commit, TypeOK
  <2>2. CASE ~Commit
    BY <2>2, <1>0 DEF TypeOK, Next, Run, vars, Start, StartFails, Open, Invalid, Finish, Nothing, Try, GiveUp, Persist,
        Defer, CommitFails, Answer, Break, Kill
  <2>3. QED
    BY <2>1, <2>2
<1>3. file' \in 1 .. Len(Files) + 1
  <2>1. CASE Answer
    BY <2>1, <1>0, FilesAre DEF Answer, NotYet, NewSchema
  <2>2. CASE Start \/ StartFails
    BY <2>2, FilesAre DEF Start, StartFails
  <2>3. CASE file' = file
    BY <2>3, <1>0 DEF TypeOK
  <2>4. QED
    BY <2>1, <2>2, <2>3 DEF Next, Run, vars, Open, Invalid, Finish, Nothing, Try, GiveUp, Persist,
        Defer, Commit, CommitFails, Break, Kill
<1>4. persisted' \in 0 .. Len(entityList') /\ attempts' \in 0 .. Len(entityList')
  <2>1. CASE Open
    BY <2>1, <1>1 DEF Open
  <2>2. CASE Defer
    <3>1. persisted + 1 \in 1 .. Len(entityList) /\ attempts + 1 \in 0 .. Len(entityList)
      BY <2>2, <1>0, <1>1 DEF TypeOK, Counted, Defer
    <3>2. Len(entityList') = Len(entityList)
      BY <2>2, <3>1, <1>0, MovedLast DEF Defer, Listed
    <3>3. QED
      BY <2>2, <3>1, <3>2, <1>0 DEF Defer, TypeOK
  <2>3. CASE Persist
    BY <2>3, <1>0, <1>1 DEF TypeOK, Persist
  <2>4. CASE Try
    BY <2>4, <1>0, <1>1 DEF TypeOK, Try
  <2>5. CASE UNCHANGED <<entityList, persisted, attempts>>
    BY <2>5, <1>0 DEF TypeOK
  <2>6. QED
    BY <2>1, <2>2, <2>3, <2>4, <2>5 DEF Next, Run, vars, Start, StartFails, Invalid, Finish, Nothing, GiveUp,
        Commit, CommitFails, Answer, Break, Kill
<1>5. reported' \in [DOMAIN reported' -> BOOLEAN] /\ DOMAIN reported' \subseteq DOMAIN Files
  <2>1. CASE Invalid
    BY <2>1, <1>0, Reports DEF Invalid
  <2>2. CASE GiveUp
    BY <2>2, <1>0, Reports DEF GiveUp, NotYet, NewSchema
  <2>3. CASE Answer
    BY <2>3, <1>0, Reports DEF Answer, NotYet, NewSchema
  <2>4. CASE Start \/ StartFails
    <3>1. reported' = Silent
      BY <2>4 DEF Start, StartFails
    <3>2. DOMAIN Silent = {} /\ Silent \in [DOMAIN Silent -> BOOLEAN]
      BY DEF Silent
    <3>3. QED
      BY <3>1, <3>2
  <2>5. CASE UNCHANGED reported
    BY <2>5, <1>0 DEF TypeOK
  <2>6. QED
    BY <2>1, <2>2, <2>3, <2>4, <2>5 DEF Next, Run, vars, Open, Finish, Nothing, Try, Persist,
        Defer, Commit, CommitFails, Break, Kill
<1>6. troubled' \in BOOLEAN
  <2>1. CASE Defer
    BY <2>1, <1>0 DEF Defer, TypeOK, Ready
  <2>2. CASE ~Defer
    BY <2>2, <1>0 DEF TypeOK, Next, Run, vars, Start, StartFails, Open, Invalid, Finish, Nothing, Try, GiveUp, Persist,
        Commit, CommitFails, Answer, Break, Kill
  <2>3. QED
    BY <2>1, <2>2
<1>7. pc' \in {"off", "noSchema", "open", "try", "persist", "stored", "end"}
  BY <1>0 DEF TypeOK, Next, Run, vars, Start, StartFails, Open, Invalid, Finish, Nothing, Try, GiveUp, Persist,
        Defer, Commit, CommitFails, Answer, Break, Kill
<1>8. kills' \in 0 .. MaxKills
  <2>1. CASE Kill
    BY <2>1, <1>0, MaxKillsTyped DEF Kill, TypeOK
  <2>2. CASE UNCHANGED kills
    BY <2>2, <1>0 DEF TypeOK
  <2>3. QED
    BY <2>1, <2>2 DEF Next, Run, vars, Start, StartFails, Open, Invalid, Finish, Nothing, Try, GiveUp, Persist,
        Defer, Commit, CommitFails, Answer, Break
<1>9. QED
  BY <1>1, <1>2, <1>3, <1>4, <1>5, <1>6, <1>7, <1>8 DEF TypeOK

-----------------------------------------------------------------------------
(* Files are stored entirely or not at all. *)

LEMMA StoreStep == IInv /\ [Next]_vars => NotYet' /\ AllOrNothing'
<1> SUFFICES ASSUME IInv, [Next]_vars PROVE NotYet' /\ AllOrNothing'
  OBVIOUS
<1> USE DEF NewSchema
<1>0. TypeOK /\ NotYet /\ AllOrNothing /\ NothingLost
  BY DEF IInv
<1>1. CASE Start
  <2>1. db' = {} /\ file' = 1 /\ pc' = "open" /\ reported' = Silent
    BY <1>1 DEF Start
  <2>2. DOMAIN Silent = {}
    BY DEF Silent
  <2>3. QED
    BY <2>1, <2>2, FilesAre DEF NotYet, AllOrNothing
<1>2. CASE Commit
  <2>1. file \in DOMAIN Files /\ Range(entityList) = Files[file]
    BY <1>0, <1>2 DEF Commit, NotYet, NothingLost
  <2>2. db' = db \cup Files[file] /\ pc' = "stored" /\ UNCHANGED <<file, reported>> /\ pc = "persist"
    BY <1>2, <2>1 DEF Commit
  <2>3. \A g \in DOMAIN Files : g # file => db' \cap Files[g] = db \cap Files[g]
    BY <2>1, <2>2, FilesAre
  <2>4. db' \cap Files[file] = Files[file] /\ file \notin DOMAIN reported
    BY <1>0, <2>2 DEF NotYet
  <2>5. NotYet'
    BY <1>0, <2>1, <2>2, <2>3, FilesAre DEF NotYet
  <2>6. AllOrNothing'
    BY <1>0, <2>2, <2>3, <2>4 DEF AllOrNothing
  <2>7. QED
    BY <2>5, <2>6
<1>3. CASE Answer
  <2>1. file \in DOMAIN Files /\ file \in Nat
    BY <1>0, <1>3, FilesAre DEF Answer, NotYet, NewSchema
  <2>2. /\ DOMAIN reported' = DOMAIN reported \cup {file} /\ reported'[file] = TRUE
        /\ \A f \in DOMAIN reported : f # file => reported'[f] = reported[f]
    BY <1>0, <1>3, <2>1, Reports DEF Answer
  <2>3. db' = db /\ file' = file + 1 /\ pc = "stored" /\ pc' = "open"
    BY <1>3 DEF Answer
  <2>4. file + 1 \in DOMAIN Files => db \cap Files[file + 1] = {}
    BY <1>0, <2>1, <2>3 DEF NotYet
  <2>5. \A g \in DOMAIN reported : g <= file
    BY <1>0, <2>3 DEF NotYet
  <2>6. NotYet'
    <3>1. \A g \in DOMAIN Files : g > file + 1 => db \cap Files[g] = {}
      BY <1>0, <2>1, <2>3, FilesAre DEF NotYet
    <3>2. \A g \in DOMAIN reported' : g <= file + 1 /\ g # file + 1
      BY <1>0, <2>1, <2>2, <2>5, FilesAre DEF TypeOK
    <3>3. QED
      BY <2>3, <2>4, <3>1, <3>2 DEF NotYet
  <2>7. AllOrNothing'
    BY <1>0, <2>2, <2>3 DEF AllOrNothing
  <2>8. QED
    BY <2>6, <2>7
<1>4. CASE Invalid \/ GiveUp
  <2>1. /\ pc \in {"open", "try"} /\ pc' = "end" /\ UNCHANGED <<db, file>> /\ Report(FALSE)
        /\ file \in DOMAIN Files
    BY <1>0, <1>4 DEF Invalid, GiveUp, NotYet
  <2>2. /\ DOMAIN reported' = DOMAIN reported \cup {file} /\ reported'[file] = FALSE
        /\ \A f \in DOMAIN reported : f # file => reported'[f] = reported[f]
    BY <1>0, <2>1, Reports
  <2>3. db \cap Files[file] = {}
    BY <1>0, <2>1 DEF NotYet
  <2>4. file \in Int
    BY <2>1, FilesAre
  <2>5. NotYet'
    BY <1>0, <2>1, <2>2, <2>4 DEF NotYet
  <2>6. AllOrNothing'
    BY <1>0, <2>1, <2>2, <2>3 DEF AllOrNothing
  <2>7. QED
    BY <2>5, <2>6
<1>5. CASE Open \/ Finish \/ Nothing \/ Try \/ Persist \/ Defer \/ CommitFails \/ Break \/ Kill \/ UNCHANGED vars
  <2>1. UNCHANGED <<db, file, reported>>
    BY <1>5 DEF Open, Finish, Nothing, Try, Persist, Defer, CommitFails, Break, Kill, vars
  <2>2. /\ NewSchema' => NewSchema
        /\ pc' \in {"open", "try", "persist"} => pc \in {"open", "try", "persist"}
        /\ pc' \in {"try", "persist", "stored"} =>
              pc \in {"try", "persist", "stored"} \/ file \in DOMAIN Files
        /\ pc' \notin {"off", "noSchema", "end"} => pc \notin {"off", "noSchema", "end"}
    BY <1>5 DEF Open, Finish, Nothing, Try, Persist, Defer, CommitFails, Break, Kill, vars
  <2>3. NotYet'
    BY <1>0, <2>1, <2>2 DEF NotYet
  <2>4. AllOrNothing'
    BY <1>0, <2>1, <2>2 DEF AllOrNothing
  <2>5. QED
    BY <2>3, <2>4
<1>6. CASE StartFails
  BY <1>6 DEF StartFails, NotYet, AllOrNothing
<1>7. QED
  BY <1>1, <1>2, <1>3, <1>4, <1>5, <1>6 DEF Next, Run

-----------------------------------------------------------------------------
(* Flat files are sorted. *)

\* What is put off refers to something after it that refers to nothing: it
\* comes before the dependents that were put off already, and joins them.
LEMMA DeferSorts ==
    ASSUME IInv, Defer, ~troubled, ~Ready, ~Chained(file)
    PROVE  \A i \in 1 .. Len(entityList') :
               i > Len(entityList') - attempts' => Needs[entityList'[i]] # {}
<1> DEFINE n == Len(entityList)
           p == persisted + 1
<1>0. /\ TypeOK /\ Listed /\ NothingLost /\ Sorted /\ pc = "persist" /\ file \in DOMAIN Files
      /\ entityList' = MoveLast(entityList, persisted + 1) /\ attempts' = attempts + 1
  BY DEF IInv, Defer, NotYet, NewSchema
<1>1. n \in Nat /\ p \in 1 .. n /\ persisted \in Nat /\ attempts \in 0 .. n
  BY <1>0, LenProperties DEF Defer, TypeOK, Listed
<1>2. Range(entityList) = Files[file] /\ Range(entityList) = {entityList[i] : i \in 1 .. n}
  BY <1>0, RangeOfList DEF NothingLost, Listed
<1>3. PICK g \in Needs[entityList[p]] : g \notin Range(SubSeq(entityList, 1, persisted))
  BY DEF Ready
<1>4. entityList[p] \in Files[file]
  BY <1>1, <1>2
<1>5. g \in Files[file] /\ Needs[g] = {}
  BY <1>0, <1>3, <1>4, NeedsTyped DEF Chained
<1>6. PICK k \in 1 .. n : g = entityList[k]
  BY <1>2, <1>5
<1>7. k >= p
  <2> SUFFICES ASSUME k < p PROVE FALSE
    BY <1>1
  <2> DEFINE front == SubSeq(entityList, 1, persisted)
  <2>1. \A i \in 1 .. persisted : entityList[i] \in AllEntities
    BY <1>0, <1>1, ElementOfSeq DEF Listed
  <2>2. /\ front \in Seq(AllEntities)
        /\ Len(front) = IF 1 <= persisted THEN persisted - 1 + 1 ELSE 0
        /\ \A i \in 1 .. persisted - 1 + 1 : front[i] = entityList[1 + i - 1]
    BY <2>1, <1>1, SubSeqProperties
  <2>3. k \in 1 .. persisted - 1 + 1 /\ 1 + k - 1 = k /\ 1 <= persisted /\ persisted - 1 + 1 = persisted
    BY <1>1
  <2>4. front[k] = g /\ Len(front) = persisted
    BY <2>2, <2>3, <1>6
  <2> HIDE DEF front
  <2>5. front[k] \in Range(front)
    <3>1. Range(front) = {front[i] : i \in 1 .. Len(front)}
      BY <2>2, RangeOfList
    <3>2. k \in 1 .. Len(front)
      BY <2>3, <2>4
    <3>3. QED
      BY <3>1, <3>2
  <2>6. QED
    BY <2>4, <2>5, <1>3 DEF front
<1>8. k <= n - attempts
  BY <1>0, <1>1, <1>5, <1>6 DEF Sorted
<1>9. /\ Len(entityList') = n
      /\ \A i \in 1 .. n : entityList'[i] = IF i < p THEN entityList[i]
                                            ELSE IF i < n THEN entityList[i + 1] ELSE entityList[p]
  BY <1>0, <1>1, MovedLast DEF Listed
<1>10. ASSUME NEW i \in 1 .. n, i > n - (attempts + 1)
       PROVE  Needs[entityList'[i]] # {}
  <2>1. i >= p
    BY <1>1, <1>7, <1>8, <1>10
  <2>2. CASE i < n
    <3>1. i + 1 \in 1 .. n /\ i + 1 > n - attempts
      BY <1>1, <1>10, <2>2
    <3>2. Needs[entityList[i + 1]] # {}
      BY <1>0, <3>1 DEF Sorted
    <3>3. entityList'[i] = entityList[i + 1]
      BY <1>1, <1>9, <2>1, <2>2
    <3>4. QED
      BY <3>2, <3>3
  <2>3. CASE ~(i < n)
    <3>1. entityList'[i] = entityList[p]
      BY <1>1, <1>9, <2>1, <2>3
    <3>2. QED
      BY <1>3, <3>1
  <2>4. QED
    BY <2>2, <2>3
<1>11. QED
  BY <1>0, <1>9, <1>10

\* When no attempt is left, all are dependents: then some depend on dependents.
LEMMA NobodyIsFirst ==
    ASSUME IInv, GiveUp PROVE troubled \/ Chained(file)
<1> SUFFICES ASSUME ~troubled, ~Chained(file) PROVE FALSE
  OBVIOUS
<1>0. /\ TypeOK /\ Listed /\ NothingLost /\ Sorted /\ pc = "try" /\ file \in DOMAIN Files
      /\ entityList # <<>> /\ ~More
  BY DEF IInv, GiveUp, NotYet, NewSchema
<1>1. Len(entityList) \in Nat \ {0}
  BY <1>0, EmptySeq DEF Listed
<1>2. attempts = Len(entityList)
  BY <1>0, <1>1 DEF More, TypeOK
<1>3. \A i \in 1 .. Len(entityList) : Needs[entityList[i]] # {}
  BY <1>0, <1>1, <1>2 DEF Sorted
<1>4. Range(entityList) = {entityList[i] : i \in 1 .. Len(entityList)} /\ Range(entityList) = Files[file]
  BY <1>0, RangeOfList DEF NothingLost, Listed
<1>5. entityList[1] \in Files[file]
  BY <1>1, <1>4
<1>6. \A e \in Files[file] : Needs[e] # {}
  BY <1>3, <1>4
<1>7. PICK g \in Needs[entityList[1]] : TRUE
  BY <1>5, <1>6
<1>8. g \in Files[file]
  BY <1>0, <1>5, <1>7, NeedsTyped
<1>9. QED
  BY <1>5, <1>6, <1>7, <1>8 DEF Chained

LEMMA SortStep == IInv /\ [Next]_vars => Sorted' /\ SortedIfFlat'
<1> SUFFICES ASSUME IInv, [Next]_vars PROVE Sorted' /\ SortedIfFlat'
  OBVIOUS
<1>0. TypeOK /\ Listed /\ NotYet /\ Sorted /\ SortedIfFlat
  BY DEF IInv
<1>1. CASE Open
  <2>1. attempts' = 0 /\ UNCHANGED <<reported, troubled>>
    BY <1>1 DEF Open
  <2>2. Listed'
    BY ListStep
  <2>3. Len(entityList') \in Nat
    BY <2>2, LenProperties DEF Listed
  <2>4. \A i \in 1 .. Len(entityList') : ~(i > Len(entityList') - attempts')
    BY <2>1, <2>3
  <2>5. QED
    BY <1>0, <2>1, <2>4 DEF Sorted, SortedIfFlat
<1>2. CASE Defer
  <2>1. UNCHANGED <<file, reported>> /\ troubled' = (troubled \/ Ready)
    BY <1>2 DEF Defer
  <2>2. troubled \in BOOLEAN
    BY <1>0 DEF TypeOK
  <2>3. Sorted'
    BY <1>2, <2>1, DeferSorts DEF Sorted, Chained
  <2>4. SortedIfFlat'
    BY <1>0, <2>1 DEF SortedIfFlat, Chained
  <2>5. QED
    BY <2>3, <2>4
<1>3. CASE GiveUp
  <2>1. file \in DOMAIN Files /\ pc' = "end" /\ UNCHANGED <<file, troubled>> /\ Report(FALSE)
    BY <1>0, <1>3 DEF GiveUp, NotYet, NewSchema
  <2>2. /\ DOMAIN reported' = DOMAIN reported \cup {file}
        /\ \A f \in DOMAIN reported : f # file => reported'[f] = reported[f]
    BY <1>0, <2>1, Reports
  <2>3. troubled \/ Chained(file)
    BY <1>3, NobodyIsFirst
  <2>4. QED
    BY <1>0, <2>1, <2>2, <2>3 DEF Sorted, SortedIfFlat, Chained
<1>4. CASE Invalid
  BY <1>4 DEF Invalid, Sorted, SortedIfFlat
<1>5. CASE Answer
  <2>1. file \in DOMAIN Files /\ pc' = "open" /\ UNCHANGED troubled /\ Report(TRUE)
    BY <1>0, <1>5 DEF Answer, NotYet, NewSchema
  <2>2. /\ DOMAIN reported' = DOMAIN reported \cup {file} /\ reported'[file] = TRUE
        /\ \A f \in DOMAIN reported : f # file => reported'[f] = reported[f]
    BY <1>0, <2>1, Reports
  <2>3. QED
    BY <1>0, <2>1, <2>2 DEF Sorted, SortedIfFlat, Chained
<1>6. CASE Start \/ StartFails
  <2>1. pc' \in {"open", "noSchema"} /\ reported' = Silent
    BY <1>6 DEF Start, StartFails
  <2>2. DOMAIN Silent = {}
    BY DEF Silent
  <2>3. QED
    BY <2>1, <2>2 DEF Sorted, SortedIfFlat
<1>7. CASE Finish \/ Nothing \/ Try \/ Persist \/ Commit \/ CommitFails \/ Break \/ Kill \/ UNCHANGED vars
  <2>1. /\ UNCHANGED <<entityList, attempts, file, reported, troubled>>
        /\ pc' \in {"try", "persist"} => pc \in {"try", "persist"}
    BY <1>7 DEF Finish, Nothing, Try, Persist, Commit, CommitFails, Break, Kill, vars
  <2>2. QED
    BY <1>0, <2>1 DEF Sorted, SortedIfFlat, Chained
<1>8. QED
  BY <1>1, <1>2, <1>3, <1>4, <1>5, <1>6, <1>7 DEF Next, Run

-----------------------------------------------------------------------------
(* Theorems *)

LEMMA Invariance == Spec => []IInv
<1>1. IInv /\ [Next]_vars => IInv'
  BY TypeStep, ListStep, CountStep, StoreStep, SortStep DEF IInv
<1>2. QED
  BY InitIInv, <1>1, PTL DEF Spec

\* The populator's variables keep their types, whatever the files are.
THEOREM TypeCorrect == Spec => []TypeOK
<1>1. IInv => TypeOK
  BY DEF IInv
<1>2. QED
  BY <1>1, Invariance, PTL

\* Deferring an entity, remove(i) and addLast, neither drops nor repeats one.
THEOREM DeferringLosesNothing == Spec => []NothingLost
<1>1. IInv => NothingLost
  BY DEF IInv
<1>2. QED
  BY <1>1, Invariance, PTL

\* Once the schema is new a file is stored entirely or not at all, wherever the launcher
\* stops or is killed, and not at all if populate reports that it is not persisted.
THEOREM FilesAreWhole == Spec => []AllOrNothing
<1>1. IInv => AllOrNothing
  BY DEF IInv
<1>2. QED
  BY <1>1, Invariance, PTL

\* A file of any size in which nothing refers to what refers on is sorted within
\* as many attempts as it has entities, from every order.
THEOREM FlatFilesAreSorted == Spec => []SortedIfFlat
<1>1. IInv => SortedIfFlat
  BY DEF IInv
<1>2. QED
  BY <1>1, Invariance, PTL

-----------------------------------------------------------------------------
(* Progress *)

Placed ==
    /\ Position[1] = (IF pc = "off" THEN 0 ELSE IF Over THEN 2 ELSE 1)
    /\ Position[2] = file
    /\ Position[3] = (IF pc = "open" THEN 0 ELSE IF pc = "stored" THEN 2 ELSE 1)
    /\ Position[4] = attempts
    /\ Position[5] = (IF pc = "persist" THEN 1 ELSE 0)
    /\ Position[6] = persisted

LEMMA Positions == Placed
<1> USE DEF Placed, Over
<1>1. (CASE pc = "off" -> 0 [] Over -> 2 [] OTHER -> 1)
        = (IF pc = "off" THEN 0 ELSE IF Over THEN 2 ELSE 1)
  OBVIOUS
<1>2. (CASE pc = "open" -> 0 [] pc = "stored" -> 2 [] OTHER -> 1)
        = (IF pc = "open" THEN 0 ELSE IF pc = "stored" THEN 2 ELSE 1)
  OBVIOUS
<1>3. QED
  BY <1>1, <1>2 DEF Position

LEMMA PositionsNext == Placed'
BY Positions, PTL

\* Which of the six moves on, the ones before it as they were.
LEMMA MovesOn ==
    ASSUME NEW a, NEW b,
           \/ a[1] < b[1]
           \/ a[1] = b[1] /\ a[2] < b[2]
           \/ a[1] = b[1] /\ a[2] = b[2] /\ a[3] < b[3]
           \/ a[1] = b[1] /\ a[2] = b[2] /\ a[3] = b[3] /\ a[4] < b[4]
           \/ a[1] = b[1] /\ a[2] = b[2] /\ a[3] = b[3] /\ a[4] = b[4] /\ a[5] < b[5]
           \/ a[1] = b[1] /\ a[2] = b[2] /\ a[3] = b[3] /\ a[4] = b[4] /\ a[5] = b[5] /\ a[6] < b[6]
    PROVE  Before(a, b)
<1>1. ASSUME NEW k \in 1 .. 6, a[k] < b[k], \A j \in 1 .. 5 : j < k => a[j] = b[j]
      PROVE  Before(a, b)
  BY <1>1 DEF Before
<1>2. CASE a[1] < b[1]
  BY <1>1, <1>2
<1>3. CASE a[1] = b[1] /\ a[2] < b[2]
  BY <1>1, <1>3
<1>4. CASE a[1] = b[1] /\ a[2] = b[2] /\ a[3] < b[3]
  BY <1>1, <1>4
<1>5. CASE a[1] = b[1] /\ a[2] = b[2] /\ a[3] = b[3] /\ a[4] < b[4]
  BY <1>1, <1>5
<1>6. CASE a[1] = b[1] /\ a[2] = b[2] /\ a[3] = b[3] /\ a[4] = b[4] /\ a[5] < b[5]
  BY <1>1, <1>6
<1>7. CASE a[1] = b[1] /\ a[2] = b[2] /\ a[3] = b[3] /\ a[4] = b[4] /\ a[5] = b[5] /\ a[6] < b[6]
  BY <1>1, <1>7
<1>8. QED
  BY <1>2, <1>3, <1>4, <1>5, <1>6, <1>7

\* Whatever the files and however they are ordered, a run that is not killed only
\* moves on: with the bounds of TypeOK it has an end.
THEOREM RunsOnlyMoveOn == Spec => NeverAgain
<1>1. ASSUME IInv, Next, kills' = kills
      PROVE  Before(Position, Position')
  <2>1. /\ file \in Int /\ attempts \in Int /\ persisted \in Int
        /\ pc \in {"off", "noSchema", "open", "try", "persist", "stored", "end"}
    BY <1>1 DEF IInv, TypeOK
  <2>2. /\ Position'[1] = (IF pc' = "off" THEN 0 ELSE IF Over' THEN 2 ELSE 1)
        /\ Position'[2] = file'
        /\ Position'[3] = (IF pc' = "open" THEN 0 ELSE IF pc' = "stored" THEN 2 ELSE 1)
        /\ Position'[4] = attempts'
        /\ Position'[5] = (IF pc' = "persist" THEN 1 ELSE 0)
        /\ Position'[6] = persisted'
    BY PositionsNext DEF Placed
  <2>3. CASE Start \/ StartFails \/ Invalid \/ Finish \/ GiveUp \/ Break
    <3>1. CASE Start \/ StartFails
      <4>1. pc = "off" /\ pc' # "off"
        BY <3>1 DEF Start, StartFails
      <4>2. Position[1] = 0 /\ Position'[1] \in {1, 2}
        BY <2>2, <4>1, Positions DEF Placed
      <4>3. QED
        BY <4>2, MovesOn
    <3>2. CASE Invalid \/ Finish \/ GiveUp \/ Break
      <4>1. pc # "off" /\ ~Over /\ Over' /\ pc' # "off"
        BY <3>2 DEF Invalid, Finish, GiveUp, Break, Over
      <4>2. Position[1] = 1 /\ Position'[1] = 2
        BY <2>2, <4>1, Positions DEF Placed
      <4>3. QED
        BY <4>2, MovesOn
    <3>3. QED
      BY <2>3, <3>1, <3>2
  <2>4. CASE Answer
    <3>1. Position[1] = Position'[1] /\ Position[2] < Position'[2]
      BY <2>1, <2>2, <2>4, Positions DEF Placed, Answer, Over
    <3>2. QED
      BY <3>1, MovesOn
  <2>5. CASE Open \/ Nothing \/ Commit \/ CommitFails
    <3>1. Position[1] = Position'[1] /\ Position[2] = Position'[2] /\ Position[3] < Position'[3]
      BY <2>2, <2>5, Positions DEF Placed, Open, Nothing, Commit, CommitFails, Over
    <3>2. QED
      BY <3>1, MovesOn
  <2>6. CASE Defer
    <3>1. /\ Position[1] = Position'[1] /\ Position[2] = Position'[2] /\ Position[3] = Position'[3]
          /\ Position[4] < Position'[4]
      BY <2>1, <2>2, <2>6, Positions DEF Placed, Defer, Over
    <3>2. QED
      BY <3>1, MovesOn
  <2>7. CASE Try
    <3>1. /\ Position[1] = Position'[1] /\ Position[2] = Position'[2] /\ Position[3] = Position'[3]
          /\ Position[4] = Position'[4] /\ Position[5] < Position'[5]
      BY <2>2, <2>7, Positions DEF Placed, Try, Over
    <3>2. QED
      BY <3>1, MovesOn
  <2>8. CASE Persist
    <3>1. /\ Position[1] = Position'[1] /\ Position[2] = Position'[2] /\ Position[3] = Position'[3]
          /\ Position[4] = Position'[4] /\ Position[5] = Position'[5] /\ Position[6] < Position'[6]
      BY <2>1, <2>2, <2>8, Positions DEF Placed, Persist, Over
    <3>2. QED
      BY <3>1, MovesOn
  <2>9. ~Kill
    BY <1>1 DEF Kill, IInv, TypeOK
  <2>10. QED
    BY <1>1, <2>3, <2>4, <2>5, <2>6, <2>7, <2>8, <2>9 DEF Next, Run
<1>2. IInv /\ [Next]_vars => [kills' = kills => Before(Position, Position')]_vars
  BY <1>1
<1>3. QED
  BY <1>2, Invariance, PTL DEF Spec, NeverAgain

=============================================================================
