--------------------------- MODULE JobBoardProofs ---------------------------
(***************************************************************************)
(* What JobBoard guarantees for any number of jobs, requests in flight and *)
(* updates.  The argument has two halves.  A service step only ever leaves *)
(* lawful changes pending (ServiceIsLawful): this is where authorise and   *)
(* validate are used, against the snapshot they read.  Commit then flushes *)
(* a change only over the very row the change was read from                *)
(* (FlushOverReadRow): this is where the version column is used.  The rest *)
(* follows from these two without looking at the services again.           *)
(***************************************************************************)
EXTENDS JobBoard, TransactionsProofs, FiniteSetTheorems

\* What a service may do to the row of id i: insert it, delete it, or raise its
\* version by one; a published job, a final record and a decided application
\* are not updated, an application is not deleted, a child keeps its job.
Lawful(i, was, new) ==
    \/ was = Unborn /\ Live(new)
    \/ Live(was) /\ new = Gone /\ i \notin Applications
    \/ /\ Live(was) /\ Live(new)
       /\ new.version = was.version + 1
       /\ i \in Jobs \cup Records => was.draft
       /\ i \in Applications => was.status = "PENDING"
       /\ i \in Children => new.job = was.job

\* The work of a service step, in the state it is done in.
LawfulWork(w) ==
    \A i \in DOMAIN w :
        /\ i \in Ids
        /\ w[i].old = db[i]
        /\ w[i].new \in RowOf(i)
        /\ Lawful(i, w[i].old, w[i].new)
        /\ i \in Applications \cup Records /\ w[i].old = Unborn => Open(db[w[i].new.job])

LEMMA RowKinds ==
    /\ \A i \in Jobs : RowOf(i) = {Unborn, Gone} \cup JobRow
    /\ \A i \in Duties : RowOf(i) = {Unborn, Gone} \cup DutyRow
    /\ \A i \in Applications : RowOf(i) = {Unborn, Gone} \cup ApplicationRow
    /\ \A i \in Records : RowOf(i) = {Unborn, Gone} \cup RecordRow
BY IdsDisjoint DEF RowOf

\* Only the two blank rows are not live.
LEMMA Blanks ==
    /\ ~Live(Unborn) /\ ~Live(Gone) /\ Unborn # Gone
    /\ \A row \in JobRow \cup DutyRow \cup ApplicationRow \cup RecordRow : Live(row)
<1>1. ~Live(Unborn) /\ ~Live(Gone)
  BY DEF Live, Unborn, Gone
<1>2. Unborn # Gone
  <2>1. Unborn.st = "unborn" /\ Gone.st = "gone"
    BY DEF Unborn, Gone
  <2>2. QED
    BY <2>1
<1>3. \A row \in JobRow \cup DutyRow \cup ApplicationRow \cup RecordRow : Live(row)
  BY DEF Live, JobRow, DutyRow, ApplicationRow, RecordRow
<1>4. QED
  BY <1>1, <1>2, <1>3

\* A live row has the columns of its table.
LEMMA LiveRows ==
    ASSUME TypeOK
    PROVE  /\ \A i \in Jobs : Live(db[i]) => db[i] \in JobRow
           /\ \A i \in Duties : Live(db[i]) => db[i] \in DutyRow
           /\ \A i \in Applications : Live(db[i]) => db[i] \in ApplicationRow
           /\ \A i \in Records : Live(db[i]) => db[i] \in RecordRow
<1>1. \A i \in Ids : db[i] \in RowOf(i)
  BY DEF TypeOK
<1>2. QED
  BY <1>1, RowKinds, Blanks, IdsAre

\* The rows an UPDATE writes keep their columns but for the ones it sets.
LEMMA BumpedRows ==
    /\ \A row \in JobRow, d \in Nat, draft \in BOOLEAN :
          LET new == [Bump(row) EXCEPT !.draft = draft, !.deadline = d]
          IN  new \in JobRow /\ new.version = row.version + 1
    /\ \A row \in DutyRow, p \in Int :
          LET new == [Bump(row) EXCEPT !.percentage = p]
          IN  new \in DutyRow /\ new.version = row.version + 1 /\ new.job = row.job
    /\ \A row \in ApplicationRow, status \in {"ACCEPTED", "REJECTED"} :
          LET new == [Bump(row) EXCEPT !.status = status]
          IN  new \in ApplicationRow /\ new.version = row.version + 1 /\ new.job = row.job
    /\ \A row \in RecordRow, draft \in BOOLEAN :
          LET new == [Bump(row) EXCEPT !.draft = draft]
          IN  new \in RecordRow /\ new.version = row.version + 1 /\ new.job = row.job
<1>1. ASSUME NEW row \in JobRow, NEW d \in Nat, NEW draft \in BOOLEAN
      PROVE  LET new == [Bump(row) EXCEPT !.draft = draft, !.deadline = d]
             IN  new \in JobRow /\ new.version = row.version + 1
  <2>1. Bump(row) \in JobRow /\ Bump(row).version = row.version + 1
    BY DEF Bump, JobRow
  <2>2. QED
    BY <2>1 DEF JobRow
<1>2. ASSUME NEW row \in DutyRow, NEW p \in Int
      PROVE  LET new == [Bump(row) EXCEPT !.percentage = p]
             IN  new \in DutyRow /\ new.version = row.version + 1 /\ new.job = row.job
  <2>1. /\ Bump(row) \in DutyRow
        /\ Bump(row).version = row.version + 1 /\ Bump(row).job = row.job
    BY DEF Bump, DutyRow
  <2>2. QED
    BY <2>1 DEF DutyRow
<1>3. ASSUME NEW row \in ApplicationRow, NEW status \in {"ACCEPTED", "REJECTED"}
      PROVE  LET new == [Bump(row) EXCEPT !.status = status]
             IN  new \in ApplicationRow /\ new.version = row.version + 1 /\ new.job = row.job
  <2>1. /\ Bump(row) \in ApplicationRow
        /\ Bump(row).version = row.version + 1 /\ Bump(row).job = row.job
    BY DEF Bump, ApplicationRow
  <2>2. QED
    BY <2>1 DEF ApplicationRow
<1>4. ASSUME NEW row \in RecordRow, NEW draft \in BOOLEAN
      PROVE  LET new == [Bump(row) EXCEPT !.draft = draft]
             IN  new \in RecordRow /\ new.version = row.version + 1 /\ new.job = row.job
  <2>1. /\ Bump(row) \in RecordRow
        /\ Bump(row).version = row.version + 1 /\ Bump(row).job = row.job
    BY DEF Bump, RecordRow
  <2>2. QED
    BY <2>1 DEF RecordRow
<1>5. QED
  BY <1>1, <1>2, <1>3, <1>4

\* One row written, or some rows deleted, is lawful work.
LEMMA LawfulWrite ==
    ASSUME NEW i \in Ids, NEW new \in RowOf(i), Lawful(i, db[i], new),
           i \in Applications \cup Records /\ db[i] = Unborn => Open(db[new.job])
    PROVE  LawfulWork(Write(i, new))
BY DEF LawfulWork, Write

LEMMA LawfulDelete ==
    ASSUME NEW S \in SUBSET Ids, S \cap Applications = {}, \A i \in S : Live(db[i])
    PROVE  LawfulWork(DeleteAll(S))
<1>1. \A i \in Ids : Gone \in RowOf(i)
  BY DEF RowOf
<1>2. ASSUME NEW i \in S
      PROVE  /\ i \in Ids /\ i \notin Applications
             /\ Gone \in RowOf(i) /\ Lawful(i, db[i], Gone) /\ db[i] # Unborn
  BY <1>1, Blanks DEF Lawful
<1>3. QED
  BY <1>2 DEF LawfulWork, DeleteAll

\* The rows a duty's form leaves: the duty as the form has it, and the job as it
\* was but for the draft.
LEMMA SavedRows ==
    ASSUME TypeOK, NEW i \in Duties, NEW duty \in DutyRow, NEW j \in Jobs, NEW draft \in BOOLEAN,
           Live(db[j]), db[j].draft,
           db[i] = Unborn \/ (Live(db[i]) /\ duty.version = db[i].version)
    PROVE  LET w == Saved(i, duty, j, draft)
           IN  /\ DOMAIN w \subseteq {i, j}
               /\ \A x \in DOMAIN w : w[x].old = db[x]
               /\ i \in DOMAIN w =>
                     /\ w[i].new \in DutyRow
                     /\ w[i].new.job = duty.job /\ w[i].new.percentage = duty.percentage
                     /\ db[i] = Unborn \/ w[i].new.version = db[i].version + 1
               /\ i \notin DOMAIN w => db[i] = duty
               /\ j \in DOMAIN w =>
                     /\ w[j].new \in JobRow
                     /\ w[j].new.draft = draft /\ w[j].new.employer = db[j].employer
                     /\ w[j].new.version = db[j].version + 1
               /\ j \notin DOMAIN w => draft
<1> DEFINE job == [db[j] EXCEPT !.draft = draft]
           bound == [x \in {i, j} |-> IF x = i THEN duty ELSE job]
           dirty == {y \in {i, j} : bound[y] # db[y]}
           w == Saved(i, duty, j, draft)
<1>1. i # j /\ bound[i] = duty /\ bound[j] = job
  BY IdsDisjoint
<1>2. /\ DOMAIN w = dirty
      /\ \A x \in dirty : /\ w[x].old = db[x]
                          /\ w[x].new = IF Live(db[x]) THEN Bump(bound[x]) ELSE bound[x]
  BY DEF Saved, Changes
<1>3. db[j] \in JobRow
  BY LiveRows
<1>4. /\ job \in JobRow /\ job.draft = draft
      /\ job.employer = db[j].employer /\ job.version = db[j].version
  BY <1>3 DEF JobRow
<1>5. /\ Bump(job) \in JobRow /\ Bump(job).draft = draft
      /\ Bump(job).employer = db[j].employer /\ Bump(job).version = db[j].version + 1
  <2> HIDE DEF job
  <2> QED BY <1>4 DEF Bump, JobRow
<1>6. /\ Bump(duty) \in DutyRow /\ Bump(duty).job = duty.job
      /\ Bump(duty).percentage = duty.percentage /\ Bump(duty).version = duty.version + 1
  BY DEF Bump, DutyRow
<1> HIDE DEF job, bound, w
<1>7. dirty \subseteq {i, j}
  OBVIOUS
<1>8. i \in dirty => db[i] # duty
  BY <1>1
<1>9. i \notin dirty => db[i] = duty
  BY <1>1
<1>10. j \notin dirty => draft
  BY <1>1, <1>4
<1> HIDE DEF dirty
<1>11. i \in DOMAIN w =>
          /\ w[i].new \in DutyRow
          /\ w[i].new.job = duty.job /\ w[i].new.percentage = duty.percentage
          /\ db[i] = Unborn \/ w[i].new.version = db[i].version + 1
  BY <1>1, <1>2, <1>6, Blanks
<1>12. j \in DOMAIN w =>
          /\ w[j].new \in JobRow
          /\ w[j].new.draft = draft /\ w[j].new.employer = db[j].employer
          /\ w[j].new.version = db[j].version + 1
  BY <1>1, <1>2, <1>5
<1>13. QED
  BY <1>2, <1>7, <1>9, <1>10, <1>11, <1>12 DEF w

LEMMA LawfulSaved ==
    ASSUME TypeOK, NEW i \in Duties, NEW duty \in DutyRow, NEW j \in Jobs, NEW draft \in BOOLEAN,
           Live(db[j]), db[j].draft,
           \/ db[i] = Unborn
           \/ Live(db[i]) /\ duty.version = db[i].version /\ duty.job = db[i].job
    PROVE  LawfulWork(Saved(i, duty, j, draft))
<1> DEFINE w == Saved(i, duty, j, draft)
<1>1. /\ DOMAIN w \subseteq {i, j}
      /\ \A x \in DOMAIN w : w[x].old = db[x]
      /\ i \in DOMAIN w =>
            /\ w[i].new \in DutyRow /\ w[i].new.job = duty.job
            /\ db[i] = Unborn \/ w[i].new.version = db[i].version + 1
      /\ j \in DOMAIN w =>
            w[j].new \in JobRow /\ w[j].new.version = db[j].version + 1
  BY SavedRows
<1> HIDE DEF w
<1>2. ASSUME i \in DOMAIN w
      PROVE  w[i].new \in RowOf(i) /\ Lawful(i, db[i], w[i].new)
  BY <1>1, <1>2, RowKinds, Blanks, IdsDisjoint DEF Lawful
<1>3. ASSUME j \in DOMAIN w
      PROVE  w[j].new \in RowOf(j) /\ Lawful(j, db[j], w[j].new)
  BY <1>1, <1>3, RowKinds, Blanks, IdsDisjoint DEF Lawful, Children
<1>4. i \in Ids /\ j \in Ids /\ i \notin Applications \cup Records /\ j \notin Applications \cup Records
  BY IdsAre, IdsDisjoint
<1>5. QED
  BY <1>1, <1>2, <1>3, <1>4 DEF LawfulWork, w

\* Service steps leave lawful work.
LEMMA ServiceIsLawful ==
    ASSUME TypeOK, NEW t \in Threads, Employer(t) \/ Worker(t) \/ Auditor(t)
    PROVE  \E w : Serve(t, w) /\ LawfulWork(w)
<1> USE RowKinds, LiveRows, Blanks, IdsDisjoint
<1>1. CASE Sender[t] \in Employers /\ JobCreate(t)
  <2>1. PICK j \in Jobs, d \in Deadlines, draft \in HiddenDraft[Sender[t]] :
            FreshId(j) /\ Serve(t, Write(j,
            [st |-> "live", version |-> 0, employer |-> Sender[t],
             draft |-> draft, deadline |-> d]))
    BY <1>1 DEF JobCreate
  <2> DEFINE new == [st |-> "live", version |-> 0, employer |-> Sender[t],
                     draft |-> draft, deadline |-> d]
  <2>2. new \in JobRow
    <3>1. draft \in BOOLEAN /\ d \in Nat
      BY <1>1, ConstantsTyped
    <3>2. QED
      BY <1>1, <3>1 DEF JobRow
  <2>3. LawfulWork(Write(j, new))
    <3> HIDE DEF new
    <3> QED BY <2>1, <2>2, LawfulWrite, IdsAre DEF Lawful, FreshId
  <2>4. QED
    BY <2>1, <2>3
<1>2. CASE JobUpdate(t)
  <2>1. PICK j \in Jobs, d \in Deadlines, draft \in BOOLEAN :
            /\ Editable(j) /\ db[j].draft
            /\ Serve(t, Write(j, [Bump(db[j]) EXCEPT !.draft = draft, !.deadline = d]))
    BY <1>2 DEF JobUpdate
  <2> DEFINE new == [Bump(db[j]) EXCEPT !.draft = draft, !.deadline = d]
  <2>2. db[j] \in JobRow /\ d \in Nat
    BY <2>1, ConstantsTyped DEF Editable
  <2>3. new \in JobRow /\ new.version = db[j].version + 1
    <3>1. \A row \in JobRow : \A e \in Nat : \A f \in BOOLEAN :
             LET was == [Bump(row) EXCEPT !.draft = f, !.deadline = e]
             IN  was \in JobRow /\ was.version = row.version + 1
      BY BumpedRows
    <3>2. QED
      BY <2>2, <3>1
  <2>4. LawfulWork(Write(j, new))
    <3> HIDE DEF new
    <3> QED BY <2>1, <2>2, <2>3, LawfulWrite, IdsAre DEF Lawful, Children
  <2>5. QED
    BY <2>1, <2>4
<1>3. CASE JobDelete(t)
  <2>1. PICK j \in Jobs :
            /\ Live(db[j])
            /\ Serve(t, DeleteAll({j} \cup Attached(db, Duties \cup Records, j)))
    BY <1>3 DEF JobDelete, Own
  <2> DEFINE S == {j} \cup Attached(db, Duties \cup Records, j)
  <2>2. S \in SUBSET Ids /\ S \cap Applications = {} /\ \A i \in S : Live(db[i])
    BY <2>1, IdsAre DEF Attached
  <2>3. LawfulWork(DeleteAll(S))
    <3> HIDE DEF S
    <3> QED BY <2>2, LawfulDelete
  <2>4. QED
    BY <2>1, <2>3
<1>4. CASE Sender[t] \in Employers /\ DutyCreate(t)
  <2>1. PICK i \in Duties, j \in Jobs, p \in Percentages, draft \in HiddenDraft[Sender[t]] :
            /\ FreshId(i) /\ Live(db[j]) /\ db[j].draft
            /\ Serve(t, Saved(i, [st |-> "live", version |-> 0, job |-> j, percentage |-> p],
                              j, draft))
    BY <1>4 DEF DutyCreate, Own
  <2> DEFINE duty == [st |-> "live", version |-> 0, job |-> j, percentage |-> p]
  <2>2. duty \in DutyRow /\ draft \in BOOLEAN
    BY <1>4, ConstantsTyped DEF DutyRow
  <2>3. LawfulWork(Saved(i, duty, j, draft))
    <3> HIDE DEF duty
    <3> QED BY <2>1, <2>2, LawfulSaved DEF FreshId
  <2>4. QED
    BY <2>1, <2>3
<1>5. CASE Sender[t] \in Employers /\ DutyUpdate(t)
  <2>1. PICK i \in Duties, p \in Percentages, draft \in HiddenDraft[Sender[t]] :
            /\ Live(db[i]) /\ Live(db[db[i].job]) /\ db[db[i].job].draft
            /\ Serve(t, Saved(i, [db[i] EXCEPT !.percentage = p], db[i].job, draft))
    BY <1>5 DEF DutyUpdate, Editable, Own
  <2> DEFINE duty == [db[i] EXCEPT !.percentage = p]
  <2>2. db[i] \in DutyRow /\ p \in Int /\ draft \in BOOLEAN
    BY <1>5, <2>1, ConstantsTyped
  <2>3. /\ duty \in DutyRow /\ duty.version = db[i].version /\ duty.job = db[i].job
        /\ db[i].job \in Jobs
    BY <2>2 DEF DutyRow
  <2>4. LawfulWork(Saved(i, duty, db[i].job, draft))
    <3> HIDE DEF duty
    <3> QED BY <2>1, <2>2, <2>3, LawfulSaved
  <2>5. QED
    BY <2>1, <2>4
<1>6. CASE DutyDelete(t)
  <2>1. PICK i \in Duties : Live(db[i]) /\ Serve(t, DeleteAll({i}))
    BY <1>6 DEF DutyDelete
  <2>2. LawfulWork(DeleteAll({i}))
    BY <2>1, LawfulDelete, IdsAre
  <2>3. QED
    BY <2>1, <2>2
<1>7. CASE Accept(t) \/ Reject(t)
  <2>1. PICK a \in Applications, status \in {"ACCEPTED", "REJECTED"} : Decide(t, a, status)
    BY <1>7 DEF Accept, Reject
  <2> DEFINE new == [Bump(db[a]) EXCEPT !.status = status]
  <2>2. db[a] \in ApplicationRow /\ db[a].status = "PENDING"
    BY <2>1 DEF Decide, Editable
  <2>3. new \in ApplicationRow /\ new.version = db[a].version + 1 /\ new.job = db[a].job
    BY <2>2, BumpedRows
  <2>4. LawfulWork(Write(a, new))
    <3> HIDE DEF new
    <3> QED BY <2>1, <2>2, <2>3, LawfulWrite, IdsAre DEF Lawful
  <2>5. QED
    BY <2>1, <2>4 DEF Decide
<1>8. CASE Apply(t)
  <2>1. PICK a \in Applications, j \in Jobs :
            /\ FreshId(a) /\ Open(db[j])
            /\ Serve(t, Write(a, [st |-> "live", version |-> 0, job |-> j, status |-> "PENDING"]))
    BY <1>8 DEF Apply
  <2> DEFINE new == [st |-> "live", version |-> 0, job |-> j, status |-> "PENDING"]
  <2>2. new \in ApplicationRow /\ new.job = j
    BY DEF ApplicationRow
  <2>3. LawfulWork(Write(a, new))
    <3> HIDE DEF new
    <3> QED BY <2>1, <2>2, LawfulWrite, IdsAre DEF Lawful, FreshId
  <2>4. QED
    BY <2>1, <2>3
<1>9. CASE AuditCreate(t)
  <2>1. PICK r \in Records, j \in Jobs, draft \in BOOLEAN :
            /\ FreshId(r) /\ Open(db[j])
            /\ Serve(t, Write(r, [st |-> "live", version |-> 0, job |-> j, draft |-> draft]))
    BY <1>9 DEF AuditCreate
  <2> DEFINE new == [st |-> "live", version |-> 0, job |-> j, draft |-> draft]
  <2>2. new \in RecordRow /\ new.job = j
    BY DEF RecordRow
  <2>3. LawfulWork(Write(r, new))
    <3> HIDE DEF new
    <3> QED BY <2>1, <2>2, LawfulWrite, IdsAre DEF Lawful, FreshId
  <2>4. QED
    BY <2>1, <2>3
<1>10. CASE AuditUpdate(t)
  <2>1. PICK r \in Records, draft \in BOOLEAN :
            /\ Editable(r) /\ db[r].draft
            /\ Serve(t, Write(r, [Bump(db[r]) EXCEPT !.draft = draft]))
    BY <1>10 DEF AuditUpdate
  <2> DEFINE new == [Bump(db[r]) EXCEPT !.draft = draft]
  <2>2. db[r] \in RecordRow
    BY <2>1 DEF Editable
  <2>3. new \in RecordRow /\ new.version = db[r].version + 1 /\ new.job = db[r].job
    BY <2>2, BumpedRows
  <2>4. LawfulWork(Write(r, new))
    <3> HIDE DEF new
    <3> QED BY <2>1, <2>2, <2>3, LawfulWrite, IdsAre DEF Lawful
  <2>5. QED
    BY <2>1, <2>4
<1>11. QED
  BY <1>1, <1>2, <1>3, <1>4, <1>5, <1>6, <1>7, <1>8, <1>9, <1>10 DEF Employer, Worker, Auditor

-----------------------------------------------------------------------------
(* The inductive invariant *)

\* What the services decided stays true of the changes that wait for Commit:
\* they are lawful for the row that was read, and the job an application or an
\* audit record is for was published, so it can only have been deleted since.
PendingLawful ==
    \A t \in Threads : \A i \in DOMAIN tx[t] :
        /\ Lawful(i, tx[t][i].old, tx[t][i].new)
        /\ i \in Applications \cup Records /\ tx[t][i].old = Unborn =>
              \/ Published(db[tx[t][i].new.job])
              \/ db[tx[t][i].new.job] = Gone

IInv == TypeOK /\ PendingLawful /\ OptimisticReads /\ WellAttached

\* The columns of a pending row.
LEMMA PendingRows ==
    ASSUME TypeOK, NEW t \in Threads, NEW i \in DOMAIN tx[t]
    PROVE  /\ i \in Ids
           /\ tx[t][i].old \in RowOf(i) /\ tx[t][i].new \in RowOf(i)
           /\ Live(tx[t][i].old) => tx[t][i].old.version \in Nat
           /\ Live(tx[t][i].new) => tx[t][i].new.version \in Nat
           /\ i \in Children /\ Live(tx[t][i].new) => tx[t][i].new.job \in Jobs
<1>1. i \in Ids /\ tx[t][i].old \in RowOf(i) /\ tx[t][i].new \in RowOf(i)
  BY DEF TypeOK
<1>2. \A row \in JobRow \cup DutyRow \cup ApplicationRow \cup RecordRow : row.version \in Nat
  BY DEF JobRow, DutyRow, ApplicationRow, RecordRow
<1>3. \A row \in DutyRow \cup ApplicationRow \cup RecordRow : row.job \in Jobs
  BY DEF DutyRow, ApplicationRow, RecordRow
<1>4. QED
  BY <1>1, <1>2, <1>3, RowKinds, Blanks, IdsDisjoint, IdsAre DEF Children

\* A committed live row has a version, and a child a job.
LEMMA CommittedRows ==
    ASSUME TypeOK, NEW i \in Ids
    PROVE  /\ db[i] \in RowOf(i)
           /\ Live(db[i]) => db[i].version \in Nat
           /\ i \in Children /\ Live(db[i]) => db[i].job \in Jobs
           /\ Live(db[i]) \/ db[i] = Unborn \/ db[i] = Gone
<1>1. db[i] \in RowOf(i)
  BY DEF TypeOK
<1>2. \A row \in JobRow \cup DutyRow \cup ApplicationRow \cup RecordRow : row.version \in Nat
  BY DEF JobRow, DutyRow, ApplicationRow, RecordRow
<1>3. \A row \in DutyRow \cup ApplicationRow \cup RecordRow : row.job \in Jobs
  BY DEF DutyRow, ApplicationRow, RecordRow
<1>4. QED
  BY <1>1, <1>2, <1>3, RowKinds, Blanks, IdsDisjoint, IdsAre DEF Children

\* Commit overwrites a row only if it still is the row that was read.
LEMMA FlushOverReadRow ==
    ASSUME IInv, NEW t \in Threads, Unstale(t), NEW i \in DOMAIN tx[t]
    PROVE  db[i] = tx[t][i].old
<1> DEFINE was == tx[t][i].old
<1>1. i \in Ids /\ db[i].st = was.st /\ (Live(was) => db[i].version = was.version)
  BY PendingRows DEF IInv, Unstale
<1>2. CASE Live(was)
  <2>1. db[i] = was \/ db[i] = Gone \/ (Live(db[i]) /\ db[i].version > was.version)
    BY <1>2 DEF IInv, OptimisticReads
  <2>2. db[i] # Gone
    BY <1>1, <1>2, Blanks DEF Live
  <2>3. was.version \in Nat
    BY <1>2, PendingRows DEF IInv
  <2>4. QED
    BY <1>1, <1>2, <2>1, <2>2, <2>3
<1>3. CASE ~Live(was)
  <2>1. was = Unborn
    BY <1>3 DEF IInv, PendingLawful, Lawful
  <2>2. Unborn.st = "unborn" /\ Gone.st = "gone"
    BY DEF Unborn, Gone
  <2>3. QED
    BY <1>1, <2>1, <2>2, CommittedRows DEF IInv, Live
<1>4. QED
  BY <1>2, <1>3

\* Any row changes lawfully, and only when a transaction commits.
LEMMA RowStep ==
    ASSUME IInv, [Next]_vars, NEW i \in Ids
    PROVE  db'[i] = db[i] \/ Lawful(i, db[i], db'[i])
<1>1. ASSUME NEW t \in Threads, Commit(t)
      PROVE  db'[i] = db[i] \/ Lawful(i, db[i], db'[i])
  <2>1. db' = After(t) /\ Unstale(t)
    BY <1>1 DEF Commit, Flush
  <2>2. CASE i \in DOMAIN tx[t]
    <3>1. db'[i] = tx[t][i].new /\ db[i] = tx[t][i].old
      BY <2>1, <2>2, FlushOverReadRow DEF After
    <3>2. QED
      BY <2>2, <3>1 DEF IInv, PendingLawful
  <2>3. CASE i \notin DOMAIN tx[t]
    BY <2>1, <2>3 DEF After
  <2>4. QED
    BY <2>2, <2>3
<1>2. ASSUME NEW t \in Threads, Employer(t) \/ Worker(t) \/ Auditor(t)
      PROVE  db' = db
  BY <1>2, ServiceIsLawful DEF IInv, Serve, Hold
<1>3. ASSUME NEW t \in Threads, Rollback(t)
      PROVE  db' = db
  BY <1>3 DEF Rollback, Discard
<1>4. ASSUME Tick \/ UNCHANGED vars
      PROVE  db' = db
  BY <1>4 DEF Tick, vars
<1>5. QED
  BY <1>1, <1>2, <1>3, <1>4 DEF Next

LEMMA InitInv == Init => IInv
<1> SUFFICES ASSUME Init PROVE IInv
  OBVIOUS
<1>1. /\ db = [i \in Ids |-> Unborn]
      /\ tx = [t \in Threads |-> NoWork]
      /\ now = 0
      /\ \A t \in Threads : DOMAIN tx[t] = {}
  BY DEF Init, NoWork
<1>2. TypeOK
  <2>1. \A i \in Ids : Unborn \in RowOf(i)
    BY DEF RowOf
  <2>2. QED
    BY <1>1, <2>1, ConstantsTyped DEF TypeOK
<1>3. PendingLawful /\ OptimisticReads
  BY <1>1 DEF PendingLawful, OptimisticReads
<1>4. WellAttached
  BY <1>1, Blanks, IdsAre DEF WellAttached
<1>5. QED
  BY <1>2, <1>3, <1>4 DEF IInv

\* A service step reads committed rows and writes none.
LEMMA ServeInv ==
    ASSUME IInv, NEW t \in Threads, NEW w, Serve(t, w), LawfulWork(w)
    PROVE  IInv'
<1>1. db' = db /\ now' = now /\ tx' = [tx EXCEPT ![t] = w]
  BY DEF Serve, Hold
<1>2. tx'[t] = w /\ \A u \in Threads : u # t => tx'[u] = tx[u]
  BY <1>1 DEF IInv, TypeOK
<1>3. TypeOK'
  <2>1. ASSUME NEW u \in Threads, NEW i \in DOMAIN tx'[u]
        PROVE  i \in Ids /\ tx'[u][i].old \in RowOf(i) /\ tx'[u][i].new \in RowOf(i)
    <3>1. CASE u = t
      BY <1>2, <2>1, <3>1 DEF LawfulWork, IInv, TypeOK
    <3>2. CASE u # t
      BY <1>2, <2>1, <3>2 DEF IInv, TypeOK
    <3>3. QED
      BY <3>1, <3>2
  <2>2. tx' = [u \in Threads |-> tx'[u]]
    BY <1>1 DEF IInv, TypeOK
  <2>3. QED
    BY <1>1, <2>1, <2>2 DEF IInv, TypeOK, RowOf
<1>4. PendingLawful'
  <2>1. ASSUME NEW u \in Threads, NEW i \in DOMAIN tx'[u]
        PROVE  /\ Lawful(i, tx'[u][i].old, tx'[u][i].new)
               /\ i \in Applications \cup Records /\ tx'[u][i].old = Unborn =>
                     \/ Published(db[tx'[u][i].new.job])
                     \/ db[tx'[u][i].new.job] = Gone
    <3>1. CASE u = t
      BY <1>2, <2>1, <3>1 DEF LawfulWork, Open
    <3>2. CASE u # t
      BY <1>2, <2>1, <3>2 DEF IInv, PendingLawful
    <3>3. QED
      BY <3>1, <3>2
  <2>2. QED
    BY <1>1, <2>1 DEF PendingLawful
<1>5. OptimisticReads'
  <2>1. ASSUME NEW u \in Threads, NEW i \in DOMAIN tx'[u], Live(tx'[u][i].old)
        PROVE  \/ db[i] = tx'[u][i].old
               \/ db[i] = Gone
               \/ Live(db[i]) /\ db[i].version > tx'[u][i].old.version
    <3>1. CASE u = t
      BY <1>2, <2>1, <3>1 DEF LawfulWork, Open
    <3>2. CASE u # t
      BY <1>2, <2>1, <3>2 DEF IInv, OptimisticReads
    <3>3. QED
      BY <3>1, <3>2
  <2>2. QED
    BY <1>1, <2>1 DEF OptimisticReads
<1>6. WellAttached'
  BY <1>1 DEF IInv, WellAttached
<1>7. QED
  BY <1>3, <1>4, <1>5, <1>6 DEF IInv

\* Commit is the only step that changes rows.
LEMMA CommitInv ==
    ASSUME IInv, NEW t \in Threads, Commit(t)
    PROVE  IInv'
<1>1. /\ db' = After(t) /\ now' = now /\ tx' = [tx EXCEPT ![t] = NoWork]
      /\ Unstale(t) /\ Referenced(After(t))
  BY DEF Commit, Flush
<1>2. /\ DOMAIN tx'[t] = {}
      /\ \A u \in Threads : u # t => tx'[u] = tx[u]
  BY <1>1 DEF IInv, TypeOK, NoWork
<1>3. \A i \in Ids : IF i \in DOMAIN tx[t]
                     THEN db'[i] = tx[t][i].new /\ db[i] = tx[t][i].old
                     ELSE db'[i] = db[i]
  BY <1>1, FlushOverReadRow DEF After
<1>4. \A i \in Ids : db'[i] = db[i] \/ Lawful(i, db[i], db'[i])
  BY RowStep DEF Next
<1>5. \A i \in Ids : db'[i] \in RowOf(i)
  BY <1>3, PendingRows, CommittedRows DEF IInv
<1>6. TypeOK'
  <2>1. db' = [i \in Ids |-> db'[i]]
    BY <1>1 DEF After
  <2>2. tx' = [u \in Threads |-> tx'[u]]
    BY <1>1 DEF IInv, TypeOK
  <2>3. \A u \in Threads : \A i \in DOMAIN tx'[u] :
           i \in Ids /\ tx'[u][i].old \in RowOf(i) /\ tx'[u][i].new \in RowOf(i)
    BY <1>2 DEF IInv, TypeOK
  <2>4. now' \in 0..MaxTime
    BY <1>1 DEF IInv, TypeOK
  <2>5. QED
    BY <1>5, <2>1, <2>2, <2>3, <2>4 DEF TypeOK, RowOf
\* A published job stays published or goes; a job that is gone stays so.
<1>7. ASSUME NEW j \in Jobs, Published(db[j]) \/ db[j] = Gone
      PROVE  Published(db'[j]) \/ db'[j] = Gone
  <2>1. j \in Ids
    BY IdsAre
  <2>2. db'[j] = db[j] \/ Lawful(j, db[j], db'[j])
    BY <1>4, <2>1
  <2>3. QED
    BY <1>7, <2>2, Blanks, IdsDisjoint DEF Lawful, Published
<1>8. PendingLawful'
  <2>1. ASSUME NEW u \in Threads, NEW i \in DOMAIN tx'[u]
        PROVE  /\ Lawful(i, tx'[u][i].old, tx'[u][i].new)
               /\ i \in Applications \cup Records /\ tx'[u][i].old = Unborn =>
                     \/ Published(db'[tx'[u][i].new.job])
                     \/ db'[tx'[u][i].new.job] = Gone
    <3>1. tx'[u] = tx[u] /\ i \in DOMAIN tx[u]
      BY <1>2, <2>1
    <3>2. Lawful(i, tx[u][i].old, tx[u][i].new)
      BY <3>1 DEF IInv, PendingLawful
    <3>3. ASSUME i \in Applications \cup Records, tx[u][i].old = Unborn
          PROVE  Published(db'[tx[u][i].new.job]) \/ db'[tx[u][i].new.job] = Gone
      <4>1. Live(tx[u][i].new)
        BY <3>2, <3>3, Blanks DEF Lawful
      <4>2. tx[u][i].new.job \in Jobs
        BY <3>1, <3>3, <4>1, PendingRows DEF IInv, Children
      <4>3. Published(db[tx[u][i].new.job]) \/ db[tx[u][i].new.job] = Gone
        BY <3>1, <3>3 DEF IInv, PendingLawful
      <4>4. QED
        BY <1>7, <4>2, <4>3
    <3>4. QED
      BY <3>1, <3>2, <3>3
  <2>2. QED
    BY <2>1 DEF PendingLawful
<1>9. OptimisticReads'
  <2>1. ASSUME NEW u \in Threads, NEW i \in DOMAIN tx'[u], Live(tx'[u][i].old)
        PROVE  \/ db'[i] = tx'[u][i].old
               \/ db'[i] = Gone
               \/ Live(db'[i]) /\ db'[i].version > tx'[u][i].old.version
    <3> DEFINE was == tx[u][i].old
    <3>1. tx'[u] = tx[u] /\ i \in DOMAIN tx[u]
      BY <1>2, <2>1
    <3>2. \/ db[i] = was
          \/ db[i] = Gone
          \/ Live(db[i]) /\ db[i].version > was.version
      BY <2>1, <3>1 DEF IInv, OptimisticReads
    <3>3. i \in Ids /\ was.version \in Nat
      BY <2>1, <3>1, PendingRows DEF IInv
    <3>4. db'[i] = db[i] \/ Lawful(i, db[i], db'[i])
      BY <1>4, <3>3
    <3>5. Live(db[i]) => db[i].version \in Nat
      BY <3>3, CommittedRows DEF IInv
    <3>6. QED
      BY <2>1, <3>1, <3>2, <3>3, <3>4, <3>5, Blanks DEF Lawful
  <2>2. QED
    BY <2>1 DEF OptimisticReads
<1>10. WellAttached'
  <2>1. ASSUME NEW i \in Children, Live(db'[i])
        PROVE  i \in Ids /\ db'[i].job \in Jobs /\ Live(db'[db'[i].job])
    <3>1. i \in Ids
      BY IdsAre DEF Children
    <3>2. db'[i].job \in Jobs
      BY <1>5, <2>1, <3>1, RowKinds, Blanks, IdsDisjoint
         DEF Children, DutyRow, ApplicationRow, RecordRow
    <3>3. QED
      BY <1>1, <2>1, <3>1, <3>2 DEF Referenced
  <2>2. ASSUME NEW i \in Applications \cup Records, Live(db'[i])
        PROVE  Published(db'[db'[i].job])
    <3>1. i \in Ids /\ db'[i].job \in Jobs /\ Live(db'[db'[i].job])
      BY <2>1, <2>2 DEF Children
    <3>2. Published(db[db'[i].job]) \/ db[db'[i].job] = Gone
      <4>1. CASE i \in DOMAIN tx[t] /\ tx[t][i].old = Unborn
        BY <1>3, <2>2, <3>1, <4>1 DEF IInv, PendingLawful
      <4>2. CASE ~(i \in DOMAIN tx[t] /\ tx[t][i].old = Unborn)
        <5>1. db'[i] = db[i] \/ (Live(db[i]) /\ db'[i].job = db[i].job)
          BY <1>3, <2>2, <3>1, <4>2, Blanks DEF IInv, PendingLawful, Lawful, Children
        <5>2. QED
          BY <2>2, <5>1 DEF IInv, WellAttached
      <4>3. QED
        BY <4>1, <4>2
    <3>3. QED
      BY <1>7, <3>1, <3>2, Blanks
  <2>3. QED
    BY <2>1, <2>2 DEF WellAttached, Children
<1>11. QED
  BY <1>6, <1>8, <1>9, <1>10 DEF IInv

LEMMA NextInv == IInv /\ [Next]_vars => IInv'
<1> SUFFICES ASSUME IInv, [Next]_vars PROVE IInv'
  OBVIOUS
<1>1. ASSUME NEW t \in Threads, Employer(t) \/ Worker(t) \/ Auditor(t)
      PROVE  IInv'
  BY <1>1, ServiceIsLawful, ServeInv DEF IInv
<1>2. ASSUME NEW t \in Threads, Commit(t)
      PROVE  IInv'
  BY <1>2, CommitInv
<1>3. ASSUME NEW t \in Threads, Rollback(t)
      PROVE  IInv'
  <2>1. db' = db /\ now' = now /\ tx' = [tx EXCEPT ![t] = NoWork]
    BY <1>3 DEF Rollback, Discard
  <2>2. /\ DOMAIN tx'[t] = {} /\ tx' = [u \in Threads |-> tx'[u]]
        /\ \A u \in Threads : u # t => tx'[u] = tx[u]
    BY <2>1 DEF IInv, TypeOK, NoWork
  <2>3. TypeOK'
    BY <2>1, <2>2 DEF IInv, TypeOK, RowOf
  <2>4. PendingLawful' /\ OptimisticReads' /\ WellAttached'
    BY <2>1, <2>2 DEF IInv, PendingLawful, OptimisticReads, WellAttached
  <2>5. QED
    BY <2>3, <2>4 DEF IInv
<1>4. CASE Tick \/ UNCHANGED vars
  <2>1. db' = db /\ tx' = tx /\ now' \in 0..MaxTime
    BY <1>4, ConstantsTyped DEF Tick, vars, IInv, TypeOK
  <2>2. QED
    BY <2>1 DEF IInv, TypeOK, PendingLawful, OptimisticReads, WellAttached, RowOf
<1>5. QED
  BY <1>1, <1>2, <1>3, <1>4 DEF Next

LEMMA Invariance == Spec => []IInv
BY InitInv, NextInv, PTL DEF Spec

-----------------------------------------------------------------------------
(* The theorems *)

\* Rows, committed and pending, keep to their tables, whatever the number of
\* jobs and of requests in flight.
THEOREM TypeCorrect == Spec => []TypeOK
BY Invariance, PTL DEF IInv

\* The version column does what it is there for: a pending change was read from
\* the row it will replace, or will not be flushed.
THEOREM OptimisticLocking == Spec => []OptimisticReads
BY Invariance, PTL DEF IInv

\* The tables have versions wherever they have rows.
LEMMA VersionedTables == IInv => Tables /\ AllVersioned
<1> SUFFICES ASSUME IInv PROVE Tables /\ AllVersioned
  OBVIOUS
<1>1. Tables
  BY DEF IInv, TypeOK, Tables
<1>2. \A i \in Ids : Versioned(db[i])
  BY CommittedRows DEF IInv, Versioned
<1>3. ASSUME NEW t \in Threads, NEW i \in DOMAIN tx[t]
      PROVE  Versioned(tx[t][i].old)
  <2>1. Live(tx[t][i].old) => tx[t][i].old.version \in Nat
    BY PendingRows DEF IInv
  <2>2. Lawful(i, tx[t][i].old, tx[t][i].new)
    BY DEF IInv, PendingLawful
  <2>3. QED
    BY <2>1, <2>2 DEF Versioned, Lawful
<1>4. QED
  BY <1>1, <1>2, <1>3 DEF AllVersioned

\* The job board changes its rows as AtomicRows does: whatever overlaps, a
\* transaction changes all the rows it read, as it read them, or none.
THEOREM RowsAreAtomic == Spec => KeepsRowsAtomic
<1> DEFINE claim == [t \in Threads |-> [i \in DOMAIN tx[t] |-> tx[t][i].old]]
<1>1. Init => Rows!Init
  BY FreshIsInit DEF Init
<1>2. IInv /\ [Next]_vars => [Rows!Next]_<<db, claim>>
  <2> SUFFICES ASSUME IInv, [Next]_vars PROVE [Rows!Next]_<<db, claim>>
    OBVIOUS
  <2> USE VersionedTables
  <2>1. ASSUME NEW t \in Threads, Employer(t) \/ Worker(t) \/ Auditor(t)
        PROVE  Rows!Next
    <3>1. PICK w : Serve(t, w) /\ LawfulWork(w)
      BY <2>1, ServiceIsLawful DEF IInv
    <3>2. Rows!Claim(t)
      BY <3>1, HoldIsClaim DEF Serve, LawfulWork, ReadHere
    <3>3. QED
      BY <3>2 DEF Rows!Next
  <2>2. ASSUME NEW t \in Threads, Commit(t)
        PROVE  Rows!Next
    <3>1. Rows!Change(t)
      BY <2>2, FlushIsChange DEF Commit, IInv
    <3>2. QED
      BY <3>1 DEF Rows!Next
  <2>3. ASSUME NEW t \in Threads, Rollback(t)
        PROVE  Rows!Next
    <3>1. Rows!GiveUp(t)
      BY <2>3, DiscardIsGiveUp DEF Rollback
    <3>2. QED
      BY <3>1 DEF Rows!Next
  <2>4. ASSUME Tick \/ UNCHANGED vars
        PROVE  UNCHANGED <<db, claim>>
    BY <2>4 DEF Tick, vars
  <2>5. QED
    BY <2>1, <2>2, <2>3, <2>4 DEF Next
<1>3. QED
  BY <1>1, <1>2, Invariance, PTL DEF Spec, KeepsRowsAtomic, Rows!Spec

\* Applications and audit records are only ever about published jobs, although
\* authorise reads the job in another moment than the insert is flushed.
THEOREM AttachedToPublished == Spec => []WellAttached
BY Invariance, PTL DEF IInv

\* Published jobs and final audit records are immutable.
THEOREM PublicationFreezes == Spec => FrozenOncePublished
<1>1. IInv /\ [Next]_vars =>
        [\A i \in Jobs \cup Records : Published(db[i]) => db'[i] \in {db[i], Gone}]_vars
  <2> SUFFICES ASSUME IInv, [Next]_vars, NEW i \in Jobs \cup Records, Published(db[i])
               PROVE  db'[i] \in {db[i], Gone}
    OBVIOUS
  <2>1. db'[i] = db[i] \/ Lawful(i, db[i], db'[i])
    BY RowStep, IdsAre
  <2>2. QED
    BY <2>1, Blanks DEF Lawful, Published
<1>2. QED
  BY <1>1, Invariance, PTL DEF Spec, FrozenOncePublished

\* An application is never lost and decided once, for all the employer's tabs.
THEOREM DecisionsAreFinal == Spec => DecidedOnce
<1>1. IInv /\ [Next]_vars =>
        [\A a \in Applications : Live(db[a]) =>
            /\ Live(db'[a])
            /\ db[a].status # "PENDING" => db'[a] = db[a]]_vars
  <2> SUFFICES ASSUME IInv, [Next]_vars, NEW a \in Applications, Live(db[a])
               PROVE  /\ Live(db'[a])
                      /\ db[a].status # "PENDING" => db'[a] = db[a]
    OBVIOUS
  <2>1. db'[a] = db[a] \/ Lawful(a, db[a], db'[a])
    BY RowStep, IdsAre
  <2>2. QED
    BY <2>1, Blanks DEF Lawful
<1>2. QED
  BY <1>1, Invariance, PTL DEF Spec, DecidedOnce

\* Only a service step brings a new application or audit record in flight, and
\* it saw the job open.
LEMMA InFlightStep ==
    ASSUME IInv, [Next]_vars, NEW j \in Jobs, ~Open(db[j]), ~InFlight(j)
    PROVE  ~InFlight(j)'
<1> SUFFICES ASSUME NEW t \in Threads, NEW i \in DOMAIN tx'[t] \cap (Applications \cup Records),
                    tx'[t][i].old = Unborn, tx'[t][i].new.job = j
             PROVE  FALSE
  BY DEF InFlight
<1>1. CASE tx'[t] = tx[t]
  BY <1>1 DEF InFlight
<1>2. ASSUME NEW u \in Threads, NEW w, Serve(u, w), LawfulWork(w)
      PROVE  FALSE
  <2>1. tx'[u] = w /\ \A v \in Threads : v # u => tx'[v] = tx[v]
    BY <1>2 DEF Serve, Hold, IInv, TypeOK
  <2>2. CASE u = t
    BY <1>2, <2>1, <2>2 DEF LawfulWork
  <2>3. QED
    BY <1>1, <2>1, <2>2
<1>3. ASSUME NEW u \in Threads, tx' = [tx EXCEPT ![u] = NoWork]
      PROVE  FALSE
  <2>1. DOMAIN tx'[u] = {} /\ \A v \in Threads : v # u => tx'[v] = tx[v]
    BY <1>3 DEF IInv, TypeOK, NoWork
  <2>2. QED
    BY <1>1, <2>1
<1>4. CASE tx' = tx
  BY <1>1, <1>4
<1>5. QED
  BY <1>2, <1>3, <1>4, ServiceIsLawful DEF Next, Commit, Flush, Rollback, Discard, Tick, vars, IInv

\* Once the deadline of a published job is past, only the requests in flight can
\* still reach it, and when they are done it is quiet for ever.
THEOREM DeadlineCloses == Spec => ClosedStaysQuiet
<1> DEFINE Late(j) == Attached(db, Applications \cup Records, j)
<1>1. ASSUME IInv, [Next]_vars, NEW j \in Jobs, Quiet(j)
      PROVE  /\ Quiet(j)' \/ db'[j] = Gone
             /\ Late(j)' \subseteq Late(j)
  <2>1. Published(db[j]) /\ ~Open(db[j]) /\ ~InFlight(j)
    BY <1>1 DEF Quiet
  <2>2. db'[j] = db[j] \/ db'[j] = Gone
    BY <1>1, <2>1, RowStep, Blanks, IdsAre DEF Lawful, Published
  <2>3. ~InFlight(j)'
    BY <1>1, <2>1, InFlightStep
  <2>4. now' \in Int /\ now' >= now /\ now \in Int
    <3>1. now \in Int
      BY <1>1, ConstantsTyped DEF IInv, TypeOK
    <3>2. now' = now \/ now' = now + 1
      BY <1>1, ServiceIsLawful DEF Next, Commit, Flush, Rollback, Discard, Tick, vars, IInv, Serve, Hold
    <3>3. QED
      BY <3>1, <3>2
  <2>5. db'[j] = db[j] => Quiet(j)'
    <3>1. db[j].deadline \in Nat
      BY <1>1, <2>1, LiveRows DEF IInv, Published, JobRow
    <3>2. QED
      BY <2>1, <2>3, <2>4, <3>1 DEF Quiet, Open, Published
  <2>6. ASSUME NEW i \in Late(j)'
        PROVE  i \in Late(j)
    <3>1. i \in Ids /\ i \in Applications \cup Records /\ Live(db'[i]) /\ db'[i].job = j
      BY <2>6, IdsAre DEF Attached
    <3>2. CASE db'[i] = db[i]
      BY <3>1, <3>2 DEF Attached
    <3>3. CASE db'[i] # db[i]
      <4>1. PICK t \in Threads : Commit(t)
        BY <1>1, <3>3, ServiceIsLawful DEF Next, Rollback, Discard, Tick, vars, IInv, Serve, Hold
      <4>2. db' = After(t) /\ Unstale(t)
        BY <4>1 DEF Commit, Flush
      <4>3. i \in DOMAIN tx[t] /\ db'[i] = tx[t][i].new
        BY <3>1, <3>3, <4>2 DEF After
      <4>4. tx[t][i].old = db[i] /\ Lawful(i, db[i], db'[i])
        BY <1>1, <4>2, <4>3, FlushOverReadRow DEF IInv, PendingLawful
      <4>5. db[i] # Unborn
        BY <2>1, <3>1, <4>3, <4>4 DEF InFlight
      <4>6. Live(db[i]) /\ db'[i].job = db[i].job
        BY <3>1, <4>4, <4>5, Blanks DEF Lawful, Children
      <4>7. QED
        BY <3>1, <4>6 DEF Attached
    <3>4. QED
      BY <3>2, <3>3
  <2>7. QED
    BY <2>2, <2>5, <2>6
<1>2. IInv /\ [Next]_vars =>
        [\A j \in Jobs : Quiet(j) =>
            /\ Quiet(j)' \/ db'[j] = Gone
            /\ Attached(db', Applications \cup Records, j)
                  \subseteq Attached(db, Applications \cup Records, j)]_vars
  BY <1>1 DEF Attached
<1>3. QED
  BY <1>2, Invariance, PTL DEF Spec, ClosedStaysQuiet

-----------------------------------------------------------------------------
(* Sums.  That SumFunction adds every value once, in whatever order it     *)
(* takes them, is shown by induction over the finite set of what is added. *)

\* How SumFunction goes through a set: it takes one element, and the rest.
First(s) == CHOOSE x \in s : TRUE
Adds(f, T, sum) ==
    sum = [s \in SUBSET T |-> IF s = {} THEN 0 ELSE f[First(s)] + sum[s \ {First(s)}]]

LEMMA SumIsFold ==
    ASSUME NEW f
    PROVE  SumFunction(f) = (CHOOSE sum : Adds(f, DOMAIN f, sum))[DOMAIN f]
BY DEF SumFunction, SumFunctionOnSet, FoldFunctionOnSet, MapThenFoldSet, Adds, First

\* A property of a finite set that every set inherits from its proper subsets
\* holds: here, there is no smallest set without it.
LEMMA NoSmallest ==
    ASSUME NEW S, IsFiniteSet(S), NEW Bad \in SUBSET SUBSET S,
           \A T \in Bad : \E U \in Bad : U \subseteq T /\ U # T
    PROVE  Bad = {}
<1> SUFFICES ASSUME Bad # {} PROVE FALSE
  OBVIOUS
<1>1. IsWellFoundedOn(StrictSubsetOrdering(S), SUBSET S)
  <2>1. IsWellFoundedOn(StrictSubsetOrdering(S), FiniteSubsetsOf(S))
    BY FS_StrictSubsetOrderingWellFounded, Zenon
  <2>2. FiniteSubsetsOf(S) = SUBSET S
    BY FS_FiniteSubsetsOfFinite
  <2>3. QED
    BY <2>1, <2>2
<1>2. PICK T \in Bad : \A U \in Bad : ~ (<<U, T>> \in StrictSubsetOrdering(S))
  <2>1. Bad \subseteq SUBSET S
    OBVIOUS
  <2>2. QED
    BY <1>1, <2>1, WFMin, Zenon
<1>3. PICK U \in Bad : U \subseteq T /\ U # T
  OBVIOUS
<1>4. <<U, T>> \in StrictSubsetOrdering(S)
  BY <1>3 DEF StrictSubsetOrdering
<1>5. QED
  BY <1>2, <1>4

\* One of the elements is taken first.
LEMMA AddsStep ==
    ASSUME NEW f, NEW T, NEW sum, Adds(f, T, sum)
    PROVE  /\ sum[{}] = 0
           /\ \A s \in SUBSET T : s # {} =>
                 First(s) \in s /\ sum[s] = f[First(s)] + sum[s \ {First(s)}]
<1>1. \A s \in SUBSET T : s # {} => First(s) \in s
  BY DEF First
<1>2. QED
  BY <1>1 DEF Adds

\* There is only one sum.
LEMMA AddsUnique ==
    ASSUME NEW f, NEW g, NEW T, NEW U, NEW a, NEW b, Adds(f, T, a), Adds(g, U, b),
           NEW S \in SUBSET (T \cap U), IsFiniteSet(S), \A x \in S : f[x] = g[x]
    PROVE  a[S] = b[S]
<1> DEFINE Bad == {s \in SUBSET S : a[s] # b[s]}
<1>1. \A s \in SUBSET T : s # {} => First(s) \in s /\ a[s] = f[First(s)] + a[s \ {First(s)}]
  BY AddsStep
<1>2. \A s \in SUBSET U : s # {} => First(s) \in s /\ b[s] = g[First(s)] + b[s \ {First(s)}]
  BY AddsStep
<1>3. a[{}] = 0
  BY AddsStep
<1>4. b[{}] = 0
  BY AddsStep
<1>5. ASSUME NEW s \in Bad PROVE \E r \in Bad : r \subseteq s /\ r # s
  <2>1. s # {} /\ s \in SUBSET T /\ s \in SUBSET U
    BY <1>3, <1>4
  <2> DEFINE x == First(s)
  <2>2. x \in s /\ a[s] = f[x] + a[s \ {x}] /\ b[s] = g[x] + b[s \ {x}]
    BY <1>1, <1>2, <2>1
  <2>3. s \ {x} \in Bad
    BY <2>2
  <2>4. QED
    BY <2>2, <2>3
<1>6. Bad = {}
  <2> HIDE DEF Bad
  <2>1. Bad \in SUBSET SUBSET S
    BY DEF Bad
  <2>2. QED
    BY <1>5, <2>1, NoSmallest, Zenon
<1>7. QED
  BY <1>6

\* And there is one.
LEMMA AddsExists ==
    ASSUME NEW f, NEW S, IsFiniteSet(S)
    PROVE  \E sum : Adds(f, S, sum)
<1> DEFINE Sum(s) == CHOOSE sum : Adds(f, s, sum)
           Bad == {T \in SUBSET S : ~ \E sum : Adds(f, T, sum)}
<1>1. ASSUME NEW T \in Bad PROVE \E U \in Bad : U \subseteq T /\ U # T
  <2> SUFFICES ASSUME \A U \in SUBSET T : U # T => \E sum : Adds(f, U, sum)
               PROVE  FALSE
    OBVIOUS
  <2> DEFINE less(s) == s \ {First(s)}
             sum == [s \in SUBSET T |-> IF s = {} THEN 0 ELSE f[First(s)] + Sum(less(s))[less(s)]]
  <2>1. \A U \in SUBSET T : U # T => Adds(f, U, Sum(U))
    OBVIOUS
  <2>2. \A s \in SUBSET T : s # {} => less(s) \in SUBSET T /\ less(s) # T
    BY DEF First
  <2>3. ASSUME NEW r \in SUBSET T, r # T
        PROVE  sum[r] = Sum(r)[r]
    <3>1. Adds(f, r, Sum(r))
      BY <2>1, <2>3
    <3>2. CASE r = {}
      BY <3>1, <3>2 DEF Adds
    <3>3. CASE r # {}
      <4>1. Sum(r)[r] = f[First(r)] + Sum(r)[less(r)]
        BY <3>1, <3>3, AddsStep
      <4>2. Adds(f, less(r), Sum(less(r)))
        BY <2>1, <2>2, <3>3
      <4>3. IsFiniteSet(less(r))
        <5>1. less(r) \subseteq S
          OBVIOUS
        <5>2. QED
          BY <5>1, FS_Subset
      <4>4. less(r) \in SUBSET (r \cap less(r))
        OBVIOUS
      <4>5. Sum(r)[less(r)] = Sum(less(r))[less(r)]
        BY <3>1, <4>2, <4>3, <4>4, AddsUnique
      <4>6. QED
        BY <3>3, <4>1, <4>5
    <3>4. QED
      BY <3>2, <3>3
  <2>4. \A s \in SUBSET T : s # {} => Sum(less(s))[less(s)] = sum[less(s)]
    BY <2>2, <2>3
  <2>5. Adds(f, T, sum)
    <3>1. \A s \in SUBSET T :
             (IF s = {} THEN 0 ELSE f[First(s)] + Sum(less(s))[less(s)])
                = (IF s = {} THEN 0 ELSE f[First(s)] + sum[less(s)])
      <4> HIDE DEF sum, Sum, less
      <4> QED
        BY <2>4
    <3>2. [s \in SUBSET T |-> IF s = {} THEN 0 ELSE f[First(s)] + Sum(less(s))[less(s)]]
            = [s \in SUBSET T |-> IF s = {} THEN 0 ELSE f[First(s)] + sum[less(s)]]
      <4> HIDE DEF sum, Sum, less
      <4> QED
        BY <3>1
    <3>3. QED
      BY <3>2 DEF Adds
  <2>6. QED
    BY <2>5
<1>2. Bad = {}
  <2> HIDE DEF Bad
  <2>1. Bad \in SUBSET SUBSET S
    BY DEF Bad
  <2>2. QED
    BY <1>1, <2>1, NoSmallest, Zenon
<1>3. QED
  BY <1>2

\* The sum of a function with a finite domain and integer values.
LEMMA SumOfNone ==
    ASSUME NEW f, DOMAIN f = {}
    PROVE  SumFunction(f) = 0
<1>1. \E sum : Adds(f, DOMAIN f, sum)
  BY AddsExists, FS_EmptySet
<1>2. Adds(f, DOMAIN f, CHOOSE sum : Adds(f, DOMAIN f, sum))
  BY <1>1
<1>3. QED
  BY <1>2, SumIsFold, AddsStep

LEMMA AddsInts ==
    ASSUME NEW f, NEW T, IsFiniteSet(T), \A x \in T : f[x] \in Int, NEW sum, Adds(f, T, sum)
    PROVE  \A s \in SUBSET T : sum[s] \in Int
<1>1. \A s \in SUBSET T : s # {} => First(s) \in s /\ sum[s] = f[First(s)] + sum[s \ {First(s)}]
  BY AddsStep
<1>2. sum[{}] = 0
  BY AddsStep
<1> DEFINE Bad == {s \in SUBSET T : sum[s] \notin Int}
<1>3. ASSUME NEW s \in Bad PROVE \E r \in Bad : r \subseteq s /\ r # s
  <2>1. s # {} /\ s \in SUBSET T
    BY <1>2
  <2>2. First(s) \in s /\ sum[s] = f[First(s)] + sum[s \ {First(s)}]
    BY <1>1, <2>1
  <2>3. s \ {First(s)} \in Bad
    BY <2>1, <2>2
  <2>4. QED
    BY <2>2, <2>3
<1>4. Bad = {}
  <2> HIDE DEF Bad
  <2>1. Bad \in SUBSET SUBSET T
    BY DEF Bad
  <2>2. QED
    BY <1>3, <2>1, NoSmallest, Zenon
<1>5. QED
  BY <1>4

\* Whichever element is set apart, its value and the sum of the rest make the sum.
LEMMA AddsAny ==
    ASSUME NEW f, NEW T, IsFiniteSet(T), \A x \in T : f[x] \in Int, NEW sum, Adds(f, T, sum),
           NEW z \in T
    PROVE  sum[T] = f[z] + sum[T \ {z}]
<1>1. \A s \in SUBSET T : s # {} => First(s) \in s /\ sum[s] = f[First(s)] + sum[s \ {First(s)}]
  BY AddsStep
<1>2. \A s \in SUBSET T : sum[s] \in Int
  BY AddsInts
<1>3. \A s \in SUBSET T : \A x \in s : sum[s] = f[x] + sum[s \ {x}]
  <2> DEFINE Bad == {s \in SUBSET T : \E x \in s : sum[s] # f[x] + sum[s \ {x}]}
  <2>1. ASSUME NEW s \in Bad PROVE \E r \in Bad : r \subseteq s /\ r # s
    <3> SUFFICES ASSUME \A r \in SUBSET s : r # s => r \notin Bad
                 PROVE  FALSE
      OBVIOUS
    <3>1. PICK x \in s : sum[s] # f[x] + sum[s \ {x}]
      OBVIOUS
    <3> DEFINE y == First(s)
    <3>2. s \in SUBSET T /\ y \in s /\ sum[s] = f[y] + sum[s \ {y}]
      BY <1>1, <3>1
    <3>3. x # y
      BY <3>1, <3>2
    <3>4. sum[s \ {y}] = f[x] + sum[(s \ {y}) \ {x}]
      <4>1. s \ {y} \in SUBSET s /\ s \ {y} # s /\ x \in s \ {y} /\ s \ {y} \in SUBSET T
        BY <3>2, <3>3
      <4>2. s \ {y} \notin Bad
        BY <4>1
      <4>3. QED
        BY <4>1, <4>2
    <3>5. sum[s \ {x}] = f[y] + sum[(s \ {x}) \ {y}]
      <4>1. s \ {x} \in SUBSET s /\ s \ {x} # s /\ y \in s \ {x} /\ s \ {x} \in SUBSET T
        BY <3>1, <3>2, <3>3
      <4>2. s \ {x} \notin Bad
        BY <4>1
      <4>3. QED
        BY <4>1, <4>2
    <3>6. (s \ {y}) \ {x} = (s \ {x}) \ {y} /\ (s \ {x}) \ {y} \in SUBSET T
      BY <3>2
    <3>7. f[x] \in Int /\ f[y] \in Int /\ sum[(s \ {x}) \ {y}] \in Int
      BY <1>2, <3>2, <3>6
    <3> DEFINE rest == sum[(s \ {x}) \ {y}]
    <3>8. sum[s] = f[y] + (f[x] + rest) /\ f[x] + sum[s \ {x}] = f[x] + (f[y] + rest)
      BY <3>2, <3>4, <3>5, <3>6
    <3>9. rest \in Int
      BY <3>7
    <3> HIDE DEF rest, y
    <3>10. f[y] + (f[x] + rest) = f[x] + (f[y] + rest)
      BY <3>7, <3>9
    <3>11. QED
      BY <3>1, <3>8, <3>10
  <2>2. Bad = {}
    <3> HIDE DEF Bad
    <3>1. Bad \in SUBSET SUBSET T
      BY DEF Bad
    <3>2. QED
      BY <2>1, <3>1, NoSmallest, Zenon
  <2>3. QED
    BY <2>2
<1>4. T \in SUBSET T
  OBVIOUS
<1>5. QED
  BY <1>2, <1>3, <1>4

LEMMA SumOfInts ==
    ASSUME NEW f, IsFiniteSet(DOMAIN f), \A x \in DOMAIN f : f[x] \in Int
    PROVE  /\ SumFunction(f) \in Int
           /\ \A x \in DOMAIN f :
                 SumFunction(f) = f[x] + SumFunction([y \in DOMAIN f \ {x} |-> f[y]])
<1> DEFINE S == DOMAIN f
           Sum(g) == CHOOSE sum : Adds(g, DOMAIN g, sum)
<1>1. Adds(f, S, Sum(f)) /\ SumFunction(f) = Sum(f)[S]
  <2>1. \E sum : Adds(f, S, sum)
    BY AddsExists
  <2>2. QED
    BY <2>1, SumIsFold
<1> HIDE DEF Sum
<1>2. SumFunction(f) \in Int
  BY <1>1, AddsInts
<1>3. \A x \in S : Sum(f)[S] = f[x] + Sum(f)[S \ {x}]
  BY <1>1, AddsAny
<1>4. ASSUME NEW x \in S
      PROVE  SumFunction(f) = f[x] + SumFunction([y \in S \ {x} |-> f[y]])
  <2> DEFINE g == [y \in S \ {x} |-> f[y]]
  <2>1. IsFiniteSet(S \ {x}) /\ DOMAIN g = S \ {x}
    BY FS_Subset
  <2>2. Adds(g, S \ {x}, Sum(g)) /\ SumFunction(g) = Sum(g)[S \ {x}]
    <3> HIDE DEF g
    <3>1. \E sum : Adds(g, DOMAIN g, sum)
      BY <2>1, AddsExists
    <3>2. QED
      BY <2>1, <3>1, SumIsFold DEF Sum
  <2>3. \A y \in S \ {x} : f[y] = g[y]
    OBVIOUS
  <2> HIDE DEF g
  <2>4. Sum(f)[S \ {x}] = Sum(g)[S \ {x}]
    <3>1. S \ {x} \in SUBSET (S \cap (S \ {x}))
      OBVIOUS
    <3>2. QED
      BY <1>1, <2>1, <2>2, <2>3, <3>1, AddsUnique
  <2>5. Sum(f)[S] = f[x] + Sum(f)[S \ {x}]
    BY <1>3
  <2>6. QED
    BY <1>1, <2>2, <2>4, <2>5 DEF g
<1>5. QED
  BY <1>2, <1>4
-----------------------------------------------------------------------------
(* Workloads *)

\* A workload is a matter of the job's duties alone.
LEMMA WorkloadSame ==
    ASSUME NEW r1, NEW r2, NEW j,
           \A i \in Duties : (Live(r1[i]) /\ r1[i].job = j) \/ (Live(r2[i]) /\ r2[i].job = j)
                                => r1[i] = r2[i]
    PROVE  Workload(r1, j) = Workload(r2, j)
<1>1. Attached(r1, Duties, j) = Attached(r2, Duties, j)
  BY DEF Attached
<1>2. \A i \in Attached(r1, Duties, j) : r1[i].percentage = r2[i].percentage
  BY DEF Attached
<1>3. [i \in Attached(r1, Duties, j) |-> r1[i].percentage]
        = [i \in Attached(r2, Duties, j) |-> r2[i].percentage]
  BY <1>1, <1>2
<1>4. QED
  BY <1>3 DEF Workload

\* The duties of job j but for i.
Others(rows, i, j) == SumFunction([k \in Attached(rows, Duties \ {i}, j) |-> rows[k].percentage])

LEMMA OthersSame ==
    ASSUME NEW r1, NEW r2, NEW i, NEW j, \A k \in Duties \ {i} : r1[k] = r2[k]
    PROVE  Others(r1, i, j) = Others(r2, i, j)
<1>1. Attached(r1, Duties \ {i}, j) = Attached(r2, Duties \ {i}, j)
  BY DEF Attached
<1>2. [k \in Attached(r1, Duties \ {i}, j) |-> r1[k].percentage]
        = [k \in Attached(r2, Duties \ {i}, j) |-> r2[k].percentage]
  BY <1>1 DEF Attached
<1>3. QED
  BY <1>2 DEF Others

\* What one duty contributes to the workload.
LEMMA WorkloadApart ==
    ASSUME IsFiniteSet(Duties), NEW rows, NEW i \in Duties, NEW j,
           \A k \in Duties : Live(rows[k]) => rows[k].percentage \in Int
    PROVE  /\ Workload(rows, j) \in Int /\ Others(rows, i, j) \in Int
           /\ Live(rows[i]) /\ rows[i].job = j =>
                 Workload(rows, j) = rows[i].percentage + Others(rows, i, j)
           /\ ~(Live(rows[i]) /\ rows[i].job = j) => Workload(rows, j) = Others(rows, i, j)
<1> DEFINE all == [k \in Attached(rows, Duties, j) |-> rows[k].percentage]
           rest == [k \in Attached(rows, Duties \ {i}, j) |-> rows[k].percentage]
<1>1. /\ IsFiniteSet(Attached(rows, Duties, j))
      /\ IsFiniteSet(Attached(rows, Duties \ {i}, j))
  <2>1. /\ Attached(rows, Duties, j) \in SUBSET Duties
        /\ Attached(rows, Duties \ {i}, j) \in SUBSET Duties
    BY DEF Attached
  <2>2. QED
    BY <2>1, FS_Subset
<1>2. \A k \in Attached(rows, Duties, j) : rows[k].percentage \in Int
  BY DEF Attached
<1>3. \A k \in Attached(rows, Duties \ {i}, j) : rows[k].percentage \in Int
  BY DEF Attached
<1>4. SumFunction(rest) \in Int
  <2>1. IsFiniteSet(DOMAIN rest) /\ \A k \in DOMAIN rest : rest[k] \in Int
    BY <1>1, <1>3
  <2> HIDE DEF rest
  <2>2. QED
    BY <2>1, SumOfInts
<1>5. /\ SumFunction(all) \in Int
      /\ \A x \in DOMAIN all :
            SumFunction(all) = all[x] + SumFunction([y \in DOMAIN all \ {x} |-> all[y]])
  <2>1. IsFiniteSet(DOMAIN all) /\ \A k \in DOMAIN all : all[k] \in Int
    BY <1>1, <1>2
  <2> HIDE DEF all
  <2>2. QED
    BY <2>1, SumOfInts
<1>6. ASSUME Live(rows[i]) /\ rows[i].job = j
      PROVE  SumFunction(all) = rows[i].percentage + SumFunction(rest)
  <2>1. i \in DOMAIN all /\ all[i] = rows[i].percentage
    BY <1>6 DEF Attached
  <2>2. DOMAIN all \ {i} = Attached(rows, Duties \ {i}, j)
    BY DEF Attached
  <2>3. [y \in DOMAIN all \ {i} |-> all[y]] = rest
    BY <2>2
  <2> HIDE DEF all, rest
  <2>4. QED
    BY <1>5, <2>1, <2>3
<1>7. ASSUME ~(Live(rows[i]) /\ rows[i].job = j)
      PROVE  all = rest
  <2>1. Attached(rows, Duties, j) = Attached(rows, Duties \ {i}, j)
    BY <1>7 DEF Attached
  <2>2. QED
    BY <2>1
<1>8. QED
  BY <1>4, <1>5, <1>6, <1>7 DEF Workload, Others

\* A job without duties has no workload.
LEMMA NoWorkload ==
    ASSUME NEW rows, NEW j, \A i \in Duties : Live(rows[i]) => rows[i].job # j
    PROVE  Workload(rows, j) = 0
<1>1. Attached(rows, Duties, j) = {}
  BY DEF Attached
<1>2. DOMAIN [i \in Attached(rows, Duties, j) |-> rows[i].percentage] = {}
  BY <1>1
<1>3. QED
  BY <1>2, SumOfNone DEF Workload

-----------------------------------------------------------------------------
(* One request of each employer at a time.  The version column guards      *)
(* single rows; that a job's duties add up is a fact about several rows,   *)
(* and two requests of one employer can break it (see the run job_skew).   *)
(* Nobody else's can: a job and its duties are written by its employer     *)
(* alone, so that validate's sum still stands when the request commits.    *)

OneRequestEach ==
    \A t, u \in Threads : Sender[t] = Sender[u] /\ Sender[t] \in Employers => t = u

\* A job validate of JobUpdate has let be published, if it is published.
Due(row) == ~row.draft /\ AsShown(row.employer)

\* What both workload properties say, of the rows given.
Sums(rows) ==
    /\ \A i \in Duties : Live(rows[i]) => rows[i].percentage \in Nat
    /\ \A j \in Jobs : Live(rows[j]) =>
          /\ Workload(rows, j) <= 100
          /\ Due(rows[j]) => Workload(rows, j) = 100

\* The rows some work leaves if it is flushed now.
Leaves(w) == [i \in Ids |-> IF i \in DOMAIN w THEN w[i].new ELSE db[i]]

\* Work that concerns job j: it writes the job or one of its duties.
Touches(w, j) ==
    \/ j \in DOMAIN w
    \/ \E i \in Duties \cap DOMAIN w :
          \/ Live(w[i].old) /\ w[i].old.job = j
          \/ Live(w[i].new) /\ w[i].new.job = j

\* The work of a service step of t: on new rows, or on t's own jobs.
OwnWork(t, w) ==
    /\ \A i \in DOMAIN w : w[i].old = db[i] /\ (FreshId(i) \/ Live(db[i]))
    /\ \A j \in Jobs : Touches(w, j) => Own(t, j) \/ (j \in DOMAIN w /\ db[j] = Unborn)
    /\ Sums(Leaves(w))

\* Rows that differ from the committed ones only about job j.
LEMMA SumsOfOne ==
    ASSUME Sums(db), NEW rows, NEW j \in Jobs,
           \A k \in Jobs \ {j} : rows[k] = db[k],
           \A i \in Duties : rows[i] # db[i] =>
              /\ Live(db[i]) => db[i].job = j
              /\ Live(rows[i]) => rows[i].job = j /\ rows[i].percentage \in Nat,
           Live(rows[j]) =>
              /\ Workload(rows, j) <= 100
              /\ Due(rows[j]) => Workload(rows, j) = 100
    PROVE  Sums(rows)
<1>1. ASSUME NEW i \in Duties, Live(rows[i]) PROVE rows[i].percentage \in Nat
  BY <1>1 DEF Sums
<1>2. ASSUME NEW k \in Jobs, k # j, Live(rows[k])
      PROVE  /\ Workload(rows, k) <= 100
             /\ Due(rows[k]) => Workload(rows, k) = 100
  <2>1. rows[k] = db[k]
    BY <1>2
  <2>2. Workload(rows, k) = Workload(db, k)
    BY <1>2, WorkloadSame
  <2>3. QED
    BY <1>2, <2>1, <2>2 DEF Sums
<1>3. QED
  BY <1>1, <1>2 DEF Sums

LEMMA SumsElsewhere ==
    ASSUME Sums(db), NEW rows, \A i \in Jobs \cup Duties : rows[i] = db[i]
    PROVE  Sums(rows)
<1>1. \A j \in Jobs : Workload(rows, j) = Workload(db, j)
  BY WorkloadSame
<1>2. QED
  BY <1>1 DEF Sums

\* One row written.
LEMMA WriteLeaves ==
    ASSUME NEW i \in Ids, NEW new
    PROVE  /\ Leaves(Write(i, new))[i] = new
           /\ \A k \in Ids \ {i} : Leaves(Write(i, new))[k] = db[k]
BY DEF Leaves, Write

LEMMA OwnWrite ==
    ASSUME NEW t \in Threads, NEW i \in Ids, NEW new, FreshId(i) \/ Live(db[i]),
           \A j \in Jobs : Touches(Write(i, new), j) => Own(t, j) \/ (j = i /\ db[j] = Unborn),
           Sums(Leaves(Write(i, new)))
    PROVE  OwnWork(t, Write(i, new))
BY DEF OwnWork, Write

LEMMA JobTouches ==
    ASSUME NEW i \in Jobs, NEW new, NEW j \in Jobs, Touches(Write(i, new), j)
    PROVE  j = i
BY IdsDisjoint DEF Touches, Write

LEMMA DutyTouches ==
    ASSUME NEW i \in Duties, NEW new, NEW j \in Jobs, Touches(Write(i, new), j)
    PROVE  (Live(db[i]) /\ db[i].job = j) \/ (Live(new) /\ new.job = j)
BY IdsDisjoint DEF Touches, Write

\* A duty of one of t's own drafts is written, and perhaps the draft itself.
LEMMA OwnDuty ==
    ASSUME TypeOK, Sums(db), NEW t \in Threads, NEW i \in Duties, NEW j \in Jobs, NEW w,
           DOMAIN w \subseteq {i, j}, \A x \in DOMAIN w : w[x].old = db[x],
           Own(t, j), FreshId(i) \/ (Live(db[i]) /\ db[i].job = j),
           i \in DOMAIN w /\ Live(w[i].new) => w[i].new.job = j /\ w[i].new.percentage \in Nat,
           ~Due(Leaves(w)[j]), Workload(Leaves(w), j) <= 100
    PROVE  OwnWork(t, w)
<1> DEFINE rows == Leaves(w)
<1>1. i \notin Jobs /\ j \notin Duties /\ Jobs \subseteq Ids /\ Duties \subseteq Ids
  BY IdsAre, IdsDisjoint
<1>2. \A k \in Ids : rows[k] = IF k \in DOMAIN w THEN w[k].new ELSE db[k]
  BY DEF Leaves
<1>3. Live(db[i]) => db[i].job = j
  BY Blanks DEF FreshId
<1>4. Sums(rows)
  <2>1. ~Due(rows[j]) /\ Workload(rows, j) <= 100
    OBVIOUS
  <2> HIDE DEF rows
  <2>2. \A k \in Jobs \ {j} : rows[k] = db[k]
    BY <1>1, <1>2
  <2>3. \A k \in Duties : rows[k] # db[k] =>
           /\ Live(db[k]) => db[k].job = j
           /\ Live(rows[k]) => rows[k].job = j /\ rows[k].percentage \in Nat
    BY <1>1, <1>2, <1>3
  <2>4. QED
    BY <2>1, <2>2, <2>3, SumsOfOne
<1>5. ASSUME NEW k \in Jobs, Touches(w, k)
      PROVE  k = j
  BY <1>1, <1>3, <1>5 DEF Touches
<1>6. \A x \in DOMAIN w : FreshId(x) \/ Live(db[x])
  BY DEF Own
<1>7. QED
  BY <1>4, <1>5, <1>6 DEF OwnWork

\* What the workload is made of before and after a duty is written.
LEMMA DutyWorkload ==
    ASSUME TypeOK, IsFiniteSet(Duties), NEW i \in Duties, NEW rows, NEW j \in Jobs,
           \A k \in Duties \ {i} : rows[k] = db[k],
           Live(rows[i]) => rows[i].percentage \in Int
    PROVE  LET rest == Others(db, i, j)
           IN  /\ rest \in Int
               /\ Live(db[i]) /\ db[i].job = j => Workload(db, j) = db[i].percentage + rest
               /\ ~(Live(db[i]) /\ db[i].job = j) => Workload(db, j) = rest
               /\ Live(rows[i]) /\ rows[i].job = j =>
                     Workload(rows, j) = rows[i].percentage + rest
               /\ ~(Live(rows[i]) /\ rows[i].job = j) => Workload(rows, j) = rest
<1>1. \A k \in Duties : Live(db[k]) => db[k].percentage \in Int
  BY LiveRows DEF DutyRow
<1>2. \A k \in Duties : Live(rows[k]) => rows[k].percentage \in Int
  BY <1>1
<1>3. Others(rows, i, j) = Others(db, i, j)
  BY OthersSame
<1>4. /\ Others(db, i, j) \in Int
      /\ Live(db[i]) /\ db[i].job = j => Workload(db, j) = db[i].percentage + Others(db, i, j)
      /\ ~(Live(db[i]) /\ db[i].job = j) => Workload(db, j) = Others(db, i, j)
  BY <1>1, WorkloadApart
<1>5. /\ Live(rows[i]) /\ rows[i].job = j =>
            Workload(rows, j) = rows[i].percentage + Others(rows, i, j)
      /\ ~(Live(rows[i]) /\ rows[i].job = j) => Workload(rows, j) = Others(rows, i, j)
  BY <1>2, WorkloadApart
<1>6. QED
  BY <1>3, <1>4, <1>5

\* What the forms of t's employer do to a draft of theirs: it stays one, or the
\* employer's forms do not come back as shown.
LEMMA NotDue ==
    ASSUME NEW e \in Employers, NEW draft \in HiddenDraft[e], NEW row,
           row.draft = draft, row.employer = e
    PROVE  ~Due(row)
BY ConstantsTyped DEF Due, AsShown

\* A form of a duty of j is saved, and j holds the duty with it.
LEMMA OwnSaved ==
    ASSUME TypeOK, Sums(db), IsFiniteSet(Duties), NEW t \in Threads, Sender[t] \in Employers,
           NEW i \in Duties, NEW duty \in DutyRow, NEW j \in Jobs,
           NEW draft \in HiddenDraft[Sender[t]],
           Own(t, j), db[j].draft, duty.job = j, duty.percentage \in Nat,
           \/ FreshId(i)
           \/ Live(db[i]) /\ db[i].job = j /\ duty.version = db[i].version,
           duty.percentage + Others(db, i, j) <= 100
    PROVE  OwnWork(t, Saved(i, duty, j, draft))
<1> DEFINE w == Saved(i, duty, j, draft)
           rows == Leaves(w)
<1>1. /\ DOMAIN w \subseteq {i, j}
      /\ \A x \in DOMAIN w : w[x].old = db[x]
      /\ i \in DOMAIN w => /\ w[i].new \in DutyRow
                           /\ w[i].new.job = j /\ w[i].new.percentage = duty.percentage
      /\ i \notin DOMAIN w => db[i] = duty
      /\ j \in DOMAIN w => w[j].new.draft = draft /\ w[j].new.employer = db[j].employer
      /\ j \notin DOMAIN w => draft
  <2>1. draft \in BOOLEAN /\ Live(db[j])
    BY ConstantsTyped DEF Own
  <2>2. db[i] = Unborn \/ (Live(db[i]) /\ duty.version = db[i].version)
    BY DEF FreshId
  <2>3. QED
    BY <2>1, <2>2, SavedRows
<1> HIDE DEF w
<1>2. Jobs \subseteq Ids /\ Duties \subseteq Ids /\ i \notin Jobs /\ j \notin Duties
  BY IdsAre, IdsDisjoint
<1>3. \A k \in Ids : rows[k] = IF k \in DOMAIN w THEN w[k].new ELSE db[k]
  BY DEF Leaves
<1> HIDE DEF rows
<1>4. ~Due(rows[j])
  <2>1. rows[j].draft = draft /\ rows[j].employer = Sender[t]
    BY <1>1, <1>2, <1>3, ConstantsTyped DEF Own
  <2>2. QED
    BY <2>1, NotDue
<1>5. rows[i] \in DutyRow /\ rows[i].job = j /\ rows[i].percentage = duty.percentage
  BY <1>1, <1>2, <1>3
<1>6. Workload(rows, j) = duty.percentage + Others(db, i, j)
  <2>1. \A k \in Duties \ {i} : rows[k] = db[k]
    BY <1>1, <1>2, <1>3
  <2>2. Live(rows[i])
    BY <1>5, Blanks
  <2>3. QED
    BY <1>5, <2>1, <2>2, DutyWorkload
<1>7. Workload(rows, j) <= 100
  BY <1>6
<1>8. OwnWork(t, w)
  BY <1>1, <1>4, <1>7, OwnDuty DEF rows
<1>9. QED
  BY <1>8 DEF w

\* What authorise and validate establish of the work of each service.
LEMMA ServiceIsOwn ==
    ASSUME TypeOK, WellAttached, Sums(db), IsFiniteSet(Duties),
           NEW t \in Threads, Employer(t) \/ Worker(t) \/ Auditor(t)
    PROVE  \E w : Serve(t, w) /\ OwnWork(t, w)
<1> USE Blanks, IdsDisjoint
<1>0. Jobs \subseteq Ids /\ Duties \subseteq Ids /\ Applications \cup Records \subseteq Ids
  BY IdsAre
<1>1. CASE Sender[t] \in Employers /\ JobCreate(t)
  <2>1. PICK j \in Jobs, d \in Deadlines, draft \in HiddenDraft[Sender[t]] :
            FreshId(j) /\ Serve(t, Write(j,
            [st |-> "live", version |-> 0, employer |-> Sender[t],
             draft |-> draft, deadline |-> d]))
    BY <1>1 DEF JobCreate
  <2> DEFINE new == [st |-> "live", version |-> 0, employer |-> Sender[t],
                     draft |-> draft, deadline |-> d]
             rows == Leaves(Write(j, new))
  <2>2. ~Due(new)
    <3>1. new.draft = draft /\ new.employer = Sender[t]
      OBVIOUS
    <3> HIDE DEF new
    <3>2. QED
      BY <1>1, <3>1, NotDue
  <2> HIDE DEF new
  <2>3. rows[j] = new /\ \A k \in Ids \ {j} : rows[k] = db[k]
    BY <1>0, WriteLeaves
  <2>4. db[j] = Unborn
    BY <2>1 DEF FreshId
  <2>5. Sums(rows)
    <3> HIDE DEF rows
    <3>1. \A i \in Duties : rows[i] = db[i]
      BY <1>0, <2>3
    <3>2. \A i \in Duties : Live(rows[i]) => rows[i].job # j
      BY <2>4, <3>1 DEF WellAttached
    <3>3. Workload(rows, j) = 0
      BY <3>2, NoWorkload
    <3>4. \A k \in Jobs \ {j} : rows[k] = db[k]
      BY <1>0, <2>3
    <3>5. QED
      BY <2>2, <2>3, <3>1, <3>3, <3>4, SumsOfOne
  <2>6. OwnWork(t, Write(j, new))
    BY <1>0, <2>1, <2>4, <2>5, JobTouches, OwnWrite
  <2>7. QED
    BY <2>1, <2>6 DEF new
<1>2. CASE JobUpdate(t)
  <2>1. PICK j \in Jobs, d \in Deadlines, draft \in BOOLEAN :
            /\ Editable(j) /\ Own(t, j)
            /\ ~draft => Publishable(j, d)
            /\ Serve(t, Write(j, [Bump(db[j]) EXCEPT !.draft = draft, !.deadline = d]))
    BY <1>2 DEF JobUpdate
  <2> DEFINE new == [Bump(db[j]) EXCEPT !.draft = draft, !.deadline = d]
             rows == Leaves(Write(j, new))
  <2>2. db[j] \in JobRow
    BY <2>1, LiveRows DEF Editable
  <2>3. new.draft = draft
    <3>1. Bump(db[j]) \in [st : {"live"}, version : Int, employer : Employers,
                           draft : BOOLEAN, deadline : Nat]
      BY <2>2 DEF Bump, JobRow
    <3>2. QED
      BY <3>1
  <2> HIDE DEF new
  <2>4. rows[j] = new /\ \A k \in Ids \ {j} : rows[k] = db[k]
    BY <1>0, WriteLeaves
  <2>5. Sums(rows)
    <3> HIDE DEF rows
    <3>1. \A i \in Duties : rows[i] = db[i]
      BY <1>0, <2>4
    <3>2. Workload(rows, j) = Workload(db, j)
      BY <3>1, WorkloadSame
    <3>3. Workload(rows, j) <= 100
      BY <2>1, <3>2 DEF Own, Sums
    <3>4. Due(rows[j]) => Workload(rows, j) = 100
      BY <2>1, <2>3, <2>4, <3>2 DEF Publishable, Due
    <3>5. \A k \in Jobs \ {j} : rows[k] = db[k]
      BY <1>0, <2>4
    <3>6. QED
      BY <3>1, <3>3, <3>4, <3>5, SumsOfOne
  <2>6. OwnWork(t, Write(j, new))
    BY <1>0, <2>1, <2>5, JobTouches, OwnWrite DEF Own
  <2>7. QED
    BY <2>1, <2>6 DEF new
<1>3. CASE JobDelete(t)
  <2>1. PICK j \in Jobs : /\ Own(t, j)
                          /\ Serve(t, DeleteAll({j} \cup Attached(db, Duties \cup Records, j)))
    BY <1>3 DEF JobDelete
  <2> DEFINE S == {j} \cup Attached(db, Duties \cup Records, j)
             w == DeleteAll(S)
             rows == Leaves(w)
  <2>2. /\ \A i \in S : Live(db[i])
        /\ \A i \in S : i \in Jobs => i = j
        /\ \A i \in S : i \in Duties => db[i].job = j
    BY <2>1 DEF Attached, Own
  <2> HIDE DEF S
  <2>3. /\ \A i \in Ids : rows[i] = IF i \in S THEN Gone ELSE db[i]
        /\ DOMAIN w = S
        /\ \A i \in S : w[i].old = db[i] /\ w[i].new = Gone
    BY DEF Leaves, DeleteAll
  <2>4. j \in S
    BY DEF S
  <2>5. Sums(rows)
    <3> HIDE DEF rows, w
    <3>1. \A k \in Jobs \ {j} : rows[k] = db[k]
      BY <1>0, <2>2, <2>3
    <3>2. \A i \in Duties : rows[i] # db[i] => i \in S /\ rows[i] = Gone
      BY <1>0, <2>3
    <3>3. ~Live(rows[j])
      BY <1>0, <2>3, <2>4
    <3>4. QED
      BY <2>2, <3>1, <3>2, <3>3, SumsOfOne
  <2>6. \A k \in Jobs : Touches(w, k) => k = j
    <3> HIDE DEF rows, w
    <3> QED
      BY <2>2, <2>3 DEF Touches
  <2>7. OwnWork(t, w)
    <3> HIDE DEF w
    <3> QED
      BY <2>1, <2>2, <2>3, <2>5, <2>6 DEF OwnWork, rows
  <2>8. QED
    BY <2>1, <2>7 DEF S
<1>4. CASE Sender[t] \in Employers /\ DutyCreate(t)
  <2>1. PICK i \in Duties, j \in Jobs, p \in Percentages, draft \in HiddenDraft[Sender[t]] :
            /\ FreshId(i) /\ Own(t, j) /\ db[j].draft /\ p > 0 /\ Workload(db, j) + p <= 100
            /\ Serve(t, Saved(i, [st |-> "live", version |-> 0, job |-> j, percentage |-> p],
                              j, draft))
    BY <1>4 DEF DutyCreate
  <2> DEFINE duty == [st |-> "live", version |-> 0, job |-> j, percentage |-> p]
             rest == Others(db, i, j)
  <2>2. duty \in DutyRow /\ duty.job = j /\ duty.percentage = p /\ p \in Nat
    BY <2>1, ConstantsTyped DEF DutyRow
  <2> HIDE DEF duty
  <2>3. ~Live(db[i])
    BY <2>1 DEF FreshId
  <2>4. rest \in Int /\ Workload(db, j) = rest
    BY <2>3, DutyWorkload
  <2>5. duty.percentage + rest <= 100
    <3> HIDE DEF rest
    <3> QED
      BY <2>1, <2>2, <2>4
  <2>6. OwnWork(t, Saved(i, duty, j, draft))
    BY <1>4, <2>1, <2>2, <2>5, OwnSaved
  <2>7. QED
    BY <2>1, <2>6 DEF duty
<1>5. CASE Sender[t] \in Employers /\ DutyUpdate(t)
  <2>1. PICK i \in Duties, p \in Percentages, draft \in HiddenDraft[Sender[t]] :
            /\ Editable(i) /\ Own(t, db[i].job) /\ db[db[i].job].draft /\ p > 0
            /\ Workload(db, db[i].job) + p - db[i].percentage <= 100
            /\ Serve(t, Saved(i, [db[i] EXCEPT !.percentage = p], db[i].job, draft))
    BY <1>5 DEF DutyUpdate
  <2> DEFINE duty == [db[i] EXCEPT !.percentage = p]
             j == db[i].job
             rest == Others(db, i, j)
  <2>2. Live(db[i]) /\ db[i] \in DutyRow /\ p \in Nat
    BY <2>1, LiveRows, ConstantsTyped DEF Editable
  <2>3. /\ duty \in DutyRow /\ duty.job = j /\ duty.percentage = p
        /\ duty.version = db[i].version
    BY <2>2 DEF DutyRow
  <2>4. j \in Jobs /\ db[i].percentage \in Int
    BY <2>2 DEF DutyRow
  <2> HIDE DEF duty, j
  <2>5. rest \in Int /\ Workload(db, j) = db[i].percentage + rest
    BY <2>2, <2>4, DutyWorkload DEF j
  <2>6. duty.percentage + rest <= 100
    <3>1. Workload(db, j) + p - db[i].percentage <= 100
      BY <2>1 DEF j
    <3> HIDE DEF rest
    <3>2. QED
      BY <2>2, <2>3, <2>4, <2>5, <3>1
  <2>7. OwnWork(t, Saved(i, duty, j, draft))
    BY <1>5, <2>1, <2>2, <2>3, <2>4, <2>6, OwnSaved DEF j
  <2>8. QED
    BY <2>1, <2>7 DEF duty, j
<1>6. CASE DutyDelete(t)
  <2>1. PICK i \in Duties : /\ Live(db[i]) /\ Own(t, db[i].job) /\ db[db[i].job].draft
                            /\ Serve(t, DeleteAll({i}))
    BY <1>6 DEF DutyDelete
  <2> DEFINE j == db[i].job
             w == DeleteAll({i})
             rows == Leaves(w)
             rest == Others(db, i, j)
  <2>2. /\ DOMAIN w = {i} /\ w[i].old = db[i] /\ w[i].new = Gone
        /\ \A k \in Ids : rows[k] = IF k = i THEN Gone ELSE db[k]
    BY DEF DeleteAll, Leaves
  <2>3. db[i].percentage \in Nat /\ j \in Jobs
    BY <2>1, LiveRows DEF Sums, DutyRow
  <2> HIDE DEF j, w, rows
  <2>4. rest \in Int /\ Workload(db, j) = db[i].percentage + rest /\ Workload(rows, j) = rest
    <3>1. rows[i] = Gone /\ \A k \in Duties \ {i} : rows[k] = db[k]
      BY <1>0, <2>2
    <3>2. QED
      BY <2>1, <2>3, <3>1, DutyWorkload DEF j
  <2>5. Workload(rows, j) <= 100
    <3>1. Workload(db, j) <= 100
      BY <2>1, <2>3 DEF Sums, Own, j
    <3> HIDE DEF rest
    <3>2. QED
      BY <2>3, <2>4, <3>1
  <2>6. ~Due(rows[j])
    <3>1. rows[j] = db[j]
      BY <1>0, <2>2, <2>3
    <3>2. QED
      BY <2>1, <3>1 DEF Due, j
  <2>7. OwnWork(t, w)
    BY <2>1, <2>2, <2>3, <2>5, <2>6, OwnDuty DEF j, rows
  <2>8. QED
    BY <2>1, <2>7 DEF w
<1>7. CASE Accept(t) \/ Reject(t) \/ Apply(t) \/ AuditCreate(t) \/ AuditUpdate(t)
  <2>1. PICK i \in Applications \cup Records :
            \E new : (FreshId(i) \/ Live(db[i])) /\ Serve(t, Write(i, new))
    BY <1>7 DEF Accept, Reject, Decide, Apply, AuditCreate, AuditUpdate, Editable
  <2>2. PICK new : (FreshId(i) \/ Live(db[i])) /\ Serve(t, Write(i, new))
    BY <2>1
  <2>3. \A k \in Jobs \cup Duties : Leaves(Write(i, new))[k] = db[k]
    BY <1>0, WriteLeaves
  <2>4. Sums(Leaves(Write(i, new)))
    BY <2>3, SumsElsewhere
  <2>5. \A j \in Jobs : ~Touches(Write(i, new), j)
    BY DEF Touches, Write
  <2>6. OwnWork(t, Write(i, new))
    BY <1>0, <2>2, <2>4, <2>5, OwnWrite
  <2>7. QED
    BY <2>2, <2>6
<1>8. QED
  BY <1>1, <1>2, <1>3, <1>4, <1>5, <1>6, <1>7 DEF Employer, Worker, Auditor

\* What a request holds until Commit: changes of rows nobody else can touch, so
\* that they would still add up if it were flushed now.
Held(t) ==
    /\ \A i \in (Jobs \cup Duties) \cap DOMAIN tx[t] : tx[t][i].old = db[i]
    /\ \A i \in (Jobs \cup Duties) \cap DOMAIN tx[t] : tx[t][i].old = Unborn =>
          \A u \in Threads \ {t} : i \notin DOMAIN tx[u]
    /\ \A j \in Jobs : Touches(tx[t], j) =>
          Own(t, j) \/ (j \in DOMAIN tx[t] /\ tx[t][j].old = Unborn)
    /\ Sums(After(t))

EachInv == IInv /\ Sums(db) /\ \A t \in Threads : Held(t)

\* Two requests in flight never concern one job, or write one job or duty.
LEMMA Apart ==
    ASSUME OneRequestEach, EachInv, NEW t \in Threads, NEW u \in Threads, t # u, NEW j \in Jobs
    PROVE  ~(Touches(tx[t], j) /\ Touches(tx[u], j))
<1>1. ASSUME NEW v \in Threads, NEW w \in Threads, v # w,
             j \in DOMAIN tx[v], tx[v][j].old = Unborn, Touches(tx[w], j)
      PROVE  FALSE
  <2>1. db[j] = Unborn /\ j \notin DOMAIN tx[w]
    BY <1>1 DEF EachInv, Held
  <2>2. QED
    BY <1>1, <2>1, Blanks DEF EachInv, Held, Own
<1>2. ASSUME Own(t, j), Own(u, j)
      PROVE  FALSE
  <2>1. Sender[t] = Sender[u] /\ Sender[t] \in Employers
    BY <1>2, LiveRows DEF Own, JobRow, EachInv, IInv
  <2>2. QED
    BY <2>1 DEF OneRequestEach
<1>3. QED
  BY <1>1, <1>2 DEF EachInv, Held

LEMMA ApartRows ==
    ASSUME OneRequestEach, EachInv, NEW t \in Threads, NEW u \in Threads, t # u,
           NEW i \in Jobs \cup Duties
    PROVE  ~(i \in DOMAIN tx[t] /\ i \in DOMAIN tx[u])
<1>1. CASE i \in Jobs
  BY <1>1, Apart DEF Touches
<1>2. CASE i \in Duties
  <2> SUFFICES ASSUME i \in DOMAIN tx[t], i \in DOMAIN tx[u] PROVE FALSE
    OBVIOUS
  <2>1. tx[t][i].old = db[i] /\ tx[u][i].old = db[i] /\ db[i] # Unborn
    BY <1>2 DEF EachInv, Held
  <2>2. Live(db[i])
    BY <2>1 DEF EachInv, IInv, PendingLawful, Lawful
  <2>3. db[i].job \in Jobs
    BY <1>2, <2>2, LiveRows DEF DutyRow, EachInv, IInv
  <2>4. QED
    BY <1>2, <2>1, <2>2, <2>3, Apart DEF Touches
<1>3. QED
  BY <1>1, <1>2

\* The other requests in flight do not notice a commit.
LEMMA CommitHeld ==
    ASSUME OneRequestEach, EachInv, NEW t \in Threads, Commit(t),
           NEW u \in Threads, u # t
    PROVE  Held(u)'
<1>0. Jobs \subseteq Ids /\ Duties \subseteq Ids
  BY IdsAre
<1>1. /\ db' = After(t) /\ \A v \in Threads : tx'[v] = IF v = t THEN NoWork ELSE tx[v]
      /\ \A i \in Ids : IF i \in DOMAIN tx[t]
                        THEN db'[i] = tx[t][i].new /\ db[i] = tx[t][i].old
                        ELSE db'[i] = db[i]
  BY FlushOverReadRow DEF EachInv, IInv, TypeOK, Commit, Flush, After
<1>2. tx'[u] = tx[u] /\ DOMAIN tx'[t] = {} /\ Held(u) /\ Held(t)
  BY <1>1 DEF NoWork, EachInv
<1>3. \A i \in (Jobs \cup Duties) \cap DOMAIN tx[u] : i \notin DOMAIN tx[t] /\ db'[i] = db[i]
  BY <1>0, <1>1, ApartRows
<1>4. \A i \in (Jobs \cup Duties) \cap DOMAIN tx'[u] : tx'[u][i].old = db'[i]
  BY <1>2, <1>3 DEF Held
<1>5. \A i \in (Jobs \cup Duties) \cap DOMAIN tx'[u] : tx'[u][i].old = Unborn =>
         \A v \in Threads \ {u} : i \notin DOMAIN tx'[v]
  BY <1>1, <1>2 DEF Held, NoWork
<1>6. \A j \in Jobs : Touches(tx'[u], j) =>
         Own(u, j)' \/ (j \in DOMAIN tx'[u] /\ tx'[u][j].old = Unborn)
  <2> SUFFICES ASSUME NEW j \in Jobs, Touches(tx[u], j)
               PROVE  Own(u, j)' \/ (j \in DOMAIN tx[u] /\ tx[u][j].old = Unborn)
    BY <1>2
  <2>1. j \notin DOMAIN tx[t]
    BY Apart DEF Touches
  <2>2. db'[j] = db[j]
    BY <1>0, <1>1, <2>1
  <2>3. QED
    BY <1>2, <2>2 DEF Held, Own
<1>7. \A i \in Ids : After(u)'[i] = IF i \in DOMAIN tx[u] THEN tx[u][i].new ELSE db'[i]
  BY <1>2 DEF After
<1>8. \A i \in Ids : After(u)[i] = IF i \in DOMAIN tx[u] THEN tx[u][i].new ELSE db[i]
  BY DEF After
<1>9. Sums(After(u)) /\ Sums(db')
  BY <1>1, <1>2 DEF Held
<1>10. Sums(After(u)')
  <2> DEFINE rows == After(u)'
             were == After(u)
  <2> HIDE DEF rows, were
  <2>1. ASSUME NEW i \in Duties, Live(rows[i])
        PROVE  rows[i].percentage \in Nat
    <3>1. CASE i \in DOMAIN tx[u]
      <4>1. rows[i] = were[i]
        BY <1>0, <1>7, <1>8, <3>1 DEF rows, were
      <4>2. QED
        BY <1>9, <2>1, <4>1 DEF Sums, were
    <3>2. CASE i \notin DOMAIN tx[u]
      <4>1. rows[i] = db'[i]
        BY <1>0, <1>7, <3>2 DEF rows
      <4>2. QED
        BY <1>9, <2>1, <4>1 DEF Sums
    <3>3. QED
      BY <3>1, <3>2
  <2>2. ASSUME NEW j \in Jobs, Live(rows[j])
        PROVE  /\ Workload(rows, j) <= 100
               /\ Due(rows[j]) => Workload(rows, j) = 100
    \* The commit is about j: then the other request leaves j as it is now.
    <3>1. CASE Touches(tx[t], j)
      <4>1. ~Touches(tx[u], j)
        BY <3>1, Apart
      <4>2. rows[j] = db'[j]
        BY <1>0, <1>7, <4>1 DEF Touches, rows
      <4>3. ASSUME NEW i \in Duties,
                   (Live(rows[i]) /\ rows[i].job = j) \/ (Live(db'[i]) /\ db'[i].job = j)
            PROVE  rows[i] = db'[i]
        <5>1. CASE i \in DOMAIN tx[u]
          <6>1. rows[i] = tx[u][i].new /\ db'[i] = tx[u][i].old
            BY <1>0, <1>2, <1>3, <1>7, <5>1 DEF rows, Held
          <6>2. QED
            BY <4>1, <4>3, <5>1, <6>1 DEF Touches
        <5>2. QED
          BY <1>0, <1>7, <5>1 DEF rows
      <4>4. Workload(rows, j) = Workload(db', j)
        BY <4>3, WorkloadSame
      <4>5. QED
        BY <1>9, <2>2, <4>2, <4>4 DEF Sums
    \* It is not: then j is for the other request what it was before.
    <3>2. CASE ~Touches(tx[t], j)
      <4>1. j \notin DOMAIN tx[t] /\ rows[j] = were[j]
        BY <1>0, <1>1, <1>7, <1>8, <3>2 DEF Touches, rows, were
      <4>2. ASSUME NEW i \in Duties,
                   (Live(rows[i]) /\ rows[i].job = j) \/ (Live(were[i]) /\ were[i].job = j)
            PROVE  rows[i] = were[i]
        <5>1. CASE i \in DOMAIN tx[t] /\ i \notin DOMAIN tx[u]
          <6>1. rows[i] = tx[t][i].new /\ were[i] = tx[t][i].old
            BY <1>0, <1>1, <1>7, <1>8, <5>1 DEF rows, were
          <6>2. QED
            BY <3>2, <4>2, <5>1, <6>1 DEF Touches
        <5>2. CASE i \notin DOMAIN tx[t] \/ i \in DOMAIN tx[u]
          BY <1>0, <1>1, <1>7, <1>8, <5>2 DEF rows, were
        <5>3. QED
          BY <5>1, <5>2
      <4>3. Workload(rows, j) = Workload(were, j)
        BY <4>2, WorkloadSame
      <4>4. QED
        BY <1>9, <2>2, <4>1, <4>3 DEF Sums, were
    <3>3. QED
      BY <3>1, <3>2
  <2>3. QED
    BY <2>1, <2>2 DEF Sums, rows
<1>11. QED
  BY <1>4, <1>5, <1>6, <1>10 DEF Held

\* A service step adds its own work, and concerns no job another request does.
LEMMA ServeHeld ==
    ASSUME EachInv, NEW t \in Threads, NEW w, Serve(t, w), OwnWork(t, w), NEW u \in Threads
    PROVE  Held(u)'
<1>1. db' = db /\ \A v \in Threads : tx'[v] = IF v = t THEN w ELSE tx[v]
  BY DEF Serve, Hold, EachInv, IInv, TypeOK
<1>2. CASE u = t
  <2>1. tx'[t] = w /\ \A v \in Threads \ {t} : tx'[v] = tx[v]
    BY <1>1
  <2>2. \A i \in DOMAIN w : w[i].old = db'[i] /\ (FreshId(i) \/ Live(db[i]))
    BY <1>1 DEF OwnWork
  <2>3. \A i \in (Jobs \cup Duties) \cap DOMAIN w : w[i].old = Unborn =>
           \A v \in Threads \ {t} : i \notin DOMAIN tx'[v]
    BY <1>1, <2>1, <2>2, Blanks DEF FreshId
  <2>4. \A j \in Jobs : Touches(w, j) =>
           Own(t, j)' \/ (j \in DOMAIN w /\ w[j].old = Unborn)
    BY <1>1, <2>2 DEF OwnWork, Own
  <2>5. Sums(After(t)')
    <3>1. After(t)' = Leaves(w)
      BY <1>1, <2>1 DEF After, Leaves
    <3>2. QED
      BY <3>1 DEF OwnWork
  <2>6. QED
    BY <1>2, <2>1, <2>2, <2>3, <2>4, <2>5 DEF Held
<1>3. CASE u # t
  <2>1. tx'[u] = tx[u] /\ Held(u)
    BY <1>1, <1>3 DEF EachInv
  <2>2. ASSUME NEW i \in (Jobs \cup Duties) \cap DOMAIN tx[u], tx[u][i].old = Unborn,
               NEW v \in Threads \ {u}, i \in DOMAIN tx'[v]
        PROVE  FALSE
    <3>1. db[i] = Unborn /\ i \notin DOMAIN tx[v]
      BY <2>1, <2>2 DEF Held
    <3>2. v = t /\ i \in DOMAIN w
      BY <1>1, <2>2, <3>1
    <3>3. FreshId(i)
      BY <3>1, <3>2, Blanks DEF OwnWork
    <3>4. QED
      BY <2>2, <3>3 DEF FreshId
  <2>3. After(u)' = After(u)
    BY <1>1, <2>1 DEF After
  <2>4. QED
    BY <1>1, <2>1, <2>2, <2>3 DEF Held, Own
<1>4. QED
  BY <1>2, <1>3

\* A request that is done holds nothing.
LEMMA NothingHeld ==
    ASSUME NEW t \in Threads, DOMAIN tx[t] = {}, db = [i \in Ids |-> db[i]], Sums(db)
    PROVE  Held(t)
<1>1. After(t) = db
  BY DEF After
<1>2. \A j \in Jobs : ~Touches(tx[t], j)
  BY DEF Touches
<1>3. QED
  BY <1>1, <1>2 DEF Held

LEMMA EachInit == Init => EachInv
<1> SUFFICES ASSUME Init PROVE EachInv
  OBVIOUS
<1>1. /\ db = [i \in Ids |-> Unborn]
      /\ \A t \in Threads : DOMAIN tx[t] = {}
  BY DEF Init, NoWork
<1>2. Sums(db)
  BY <1>1, Blanks, IdsAre DEF Sums
<1>3. \A t \in Threads : Held(t)
  BY <1>1, <1>2, NothingHeld
<1>4. QED
  BY <1>2, <1>3, InitInv DEF EachInv

LEMMA EachNext ==
    ASSUME OneRequestEach, IsFiniteSet(Duties), EachInv, [Next]_vars
    PROVE  EachInv'
<1>1. IInv'
  BY NextInv DEF EachInv
<1>2. ASSUME NEW t \in Threads, Employer(t) \/ Worker(t) \/ Auditor(t)
      PROVE  EachInv'
  <2>1. PICK w : Serve(t, w) /\ OwnWork(t, w)
    BY <1>2, ServiceIsOwn DEF EachInv, IInv
  <2>2. \A u \in Threads : Held(u)'
    BY <2>1, ServeHeld
  <2>3. db' = db
    BY <2>1 DEF Serve, Hold
  <2>4. QED
    BY <1>1, <2>2, <2>3 DEF EachInv
<1>3. ASSUME NEW t \in Threads, Commit(t)
      PROVE  EachInv'
  <2>1. db' = After(t) /\ DOMAIN tx'[t] = {}
    BY <1>3 DEF Commit, Flush, EachInv, IInv, TypeOK, NoWork
  <2>2. Sums(db')
    BY <2>1 DEF EachInv, Held
  <2>3. Held(t)'
    <3>1. db' = [i \in Ids |-> db'[i]]
      BY <1>1 DEF IInv, TypeOK
    <3>2. After(t)' = db'
      BY <2>1, <3>1 DEF After
    <3>3. \A j \in Jobs : ~Touches(tx'[t], j)
      BY <2>1 DEF Touches
    <3>4. QED
      BY <2>1, <2>2, <3>2, <3>3 DEF Held
  <2>4. \A u \in Threads : Held(u)'
    BY <1>3, <2>3, CommitHeld
  <2>5. QED
    BY <1>1, <2>2, <2>4 DEF EachInv
<1>4. ASSUME NEW t \in Threads, Rollback(t)
      PROVE  EachInv'
  <2>1. db' = db /\ \A u \in Threads : tx'[u] = IF u = t THEN NoWork ELSE tx[u]
    BY <1>4 DEF Rollback, Discard, EachInv, IInv, TypeOK
  <2>2. DOMAIN tx'[t] = {} /\ \A u \in Threads : DOMAIN tx'[u] \subseteq DOMAIN tx[u]
    BY <2>1 DEF NoWork
  <2>3. ASSUME NEW u \in Threads
        PROVE  Held(u)'
    <3>1. CASE u = t
      <4>1. After(t)' = db'
        BY <2>1, <2>2 DEF After, EachInv, IInv, TypeOK
      <4>2. \A j \in Jobs : ~Touches(tx'[t], j)
        BY <2>2 DEF Touches
      <4>3. QED
        BY <2>1, <2>2, <3>1, <4>1, <4>2 DEF Held, EachInv
    <3>2. CASE u # t
      <4>1. tx'[u] = tx[u] /\ After(u)' = After(u)
        BY <2>1, <3>2 DEF After
      <4>2. QED
        BY <2>1, <2>2, <4>1 DEF Held, EachInv, Own
    <3>3. QED
      BY <3>1, <3>2
  <2>4. QED
    BY <1>1, <2>1, <2>3 DEF EachInv
<1>5. CASE Tick \/ UNCHANGED vars
  <2>1. db' = db /\ tx' = tx
    BY <1>5 DEF Tick, vars
  <2>2. \A u \in Threads : Held(u)'
    BY <2>1 DEF EachInv, Held, After, Own
  <2>3. QED
    BY <1>1, <2>1, <2>2 DEF EachInv
<1>6. QED
  BY <1>2, <1>3, <1>4, <1>5 DEF Next

LEMMA AssumptionsStay ==
    OneRequestEach /\ IsFiniteSet(Duties) => [](OneRequestEach /\ IsFiniteSet(Duties))
<1>1. OneRequestEach /\ IsFiniteSet(Duties) => (OneRequestEach /\ IsFiniteSet(Duties))'
  BY DEF OneRequestEach
<1>2. QED
  BY <1>1, PTL

LEMMA EachInvariance == OneRequestEach /\ IsFiniteSet(Duties) => (Spec => []EachInv)
<1>1. OneRequestEach /\ IsFiniteSet(Duties) /\ EachInv /\ [Next]_vars => EachInv'
  BY EachNext
<1>2. QED
  BY <1>1, EachInit, AssumptionsStay, PTL DEF Spec

\* A published job's duties sum up to 100%, as long as no employer has two
\* requests in flight at a time: workers, auditors and other employers may be as
\* busy as they like, and the job may be created, filled, published and deleted
\* over any number of transactions, committed or rolled back.
THEOREM PublishedAddsUp ==
    OneRequestEach /\ IsFiniteSet(Duties) => (Spec => []PublishedWorkload)
<1>1. EachInv => PublishedWorkload
  BY DEF EachInv, Sums, PublishedWorkload, Published, Due
<1>2. QED
  BY <1>1, EachInvariance, PTL

\* Under the same assumption a draft's duties never exceed 100%, so that it can
\* still be filled up and published.
THEOREM NeverAboveHundred ==
    OneRequestEach /\ IsFiniteSet(Duties) => (Spec => []WorkloadUpToHundred)
<1>1. EachInv => WorkloadUpToHundred
  BY DEF EachInv, Sums, WorkloadUpToHundred
<1>2. QED
  BY <1>1, EachInvariance, PTL

=============================================================================
