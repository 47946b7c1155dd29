------------------------------- MODULE JobBoard -------------------------------
(***************************************************************************)
(* Jobs, their duties, the applications workers send and the records       *)
(* auditors write: the services of acme.features.employer.{job,duty,       *)
(* application}, worker.application and auditor.auditRecord, as service    *)
(* steps and commits of Transactions.  A request that authorise or         *)
(* validate refuses changes nothing and has no step here.                  *)
(***************************************************************************)
EXTENDS Transactions, Functions

CONSTANTS
    Jobs, Duties, Applications, Records,  \* the ids of each table
    Employers,     \* the accounts with an Employer role
    Sender,        \* Sender[t]: the account whose requests are thread t's
    HiddenDraft,   \* HiddenDraft[e]: what employer e's forms return as the draft
                   \* field that is hidden on them, or is not on them at all
    Percentages,   \* what employers type as a duty's percentage
    Deadlines,     \* the deadlines employers choose, as instants of the clock
    MaxTime        \* bound on the clock

ASSUME IdsAre == Ids = Jobs \cup Duties \cup Applications \cup Records

ASSUME IdsDisjoint ==
    /\ Jobs \cap Duties = {}
    /\ Jobs \cap Applications = {}
    /\ Jobs \cap Records = {}
    /\ Duties \cap Applications = {}
    /\ Duties \cap Records = {}
    /\ Applications \cap Records = {}

ASSUME ConstantsTyped ==
    /\ Percentages \subseteq Int
    /\ Deadlines \subseteq Nat
    /\ MaxTime \in Nat
    /\ \A e \in Employers : HiddenDraft[e] \subseteq BOOLEAN

VARIABLE now    \* the clock deadlines are compared with

vars == <<db, tx, now>>

-----------------------------------------------------------------------------
(* Rows *)

Children == Duties \cup Applications \cup Records

JobRow == [st : {"live"}, version : Nat, employer : Employers, draft : BOOLEAN, deadline : Nat]
DutyRow == [st : {"live"}, version : Nat, job : Jobs, percentage : Int]
ApplicationRow == [st : {"live"}, version : Nat, job : Jobs,
                   status : {"PENDING", "ACCEPTED", "REJECTED"}]
RecordRow == [st : {"live"}, version : Nat, job : Jobs, draft : BOOLEAN]

RowOf(i) == {Unborn, Gone} \cup
    (CASE i \in Jobs -> JobRow
       [] i \in Duties -> DutyRow
       [] i \in Applications -> ApplicationRow
       [] i \in Records -> RecordRow)

Published(row) == Live(row) /\ ~row.draft
Open(row) == Published(row) /\ row.deadline > now

\* The rows of ids that refer to job j, and the sum of its duties' percentages.
Attached(rows, ids, j) == {i \in ids : Live(rows[i]) /\ rows[i].job = j}
Workload(rows, j) ==
    SumFunction([i \in Attached(rows, Duties, j) |-> rows[i].percentage])

-----------------------------------------------------------------------------
\* The service step of a request ends with these changes pending.
Serve(t, work) == Hold(t, work) /\ UNCHANGED now

\* authorise: the job is the principal's own.
Own(t, j) == Live(db[j]) /\ db[j].employer = Sender[t]

-----------------------------------------------------------------------------
(* employer/job *)

\* EmployerJobCreateService: instantiate makes a draft; the page has no draft
\* box, and bind takes a draft field that comes with the form all the same.
JobCreate(t) ==
    \E j \in Jobs, d \in Deadlines, draft \in HiddenDraft[Sender[t]] :
        /\ FreshId(j)
        /\ d > now
        /\ Serve(t, Write(j, [st |-> "live", version |-> 0, employer |-> Sender[t],
                             draft |-> draft, deadline |-> d]))

\* What validate asks of a job whose form clears the draft box.
Publishable(j, d) == Workload(db, j) = 100 /\ d > now

\* mutant: authorise forgets that the job must be a draft
JobUpdateAnyTime(t) ==
    \E j \in Jobs, d \in Deadlines, draft \in BOOLEAN :
        /\ Editable(j) /\ Own(t, j)
        /\ ~draft => Publishable(j, d)
        /\ Serve(t, Write(j, [Bump(db[j]) EXCEPT !.draft = draft, !.deadline = d]))

\* EmployerJobUpdateService: a draft may be saved with any deadline, or published.
JobUpdate(t) ==
    \E j \in Jobs, d \in Deadlines, draft \in BOOLEAN :
        /\ Editable(j) /\ Own(t, j)
        /\ db[j].draft
        /\ ~draft => Publishable(j, d)
        /\ <<draft, d>> # <<db[j].draft, db[j].deadline>>
        /\ Serve(t, Write(j, [Bump(db[j]) EXCEPT !.draft = draft, !.deadline = d]))

\* EmployerJobDeleteService: the duties and the audit records go with the job.
JobDelete(t) ==
    \E j \in Jobs :
        /\ Own(t, j)
        /\ Attached(db, Applications, j) = {}
        /\ Serve(t, DeleteAll({j} \cup Attached(db, Duties \cup Records, j)))

-----------------------------------------------------------------------------
(* employer/duty: only while the job is a draft *)

\* bind writes a duty's form on the duty and its hidden job.draft on the job, a
\* managed row too; the flush updates the rows that are not as they were read.
Saved(i, duty, j, draft) ==
    LET bound == [x \in {i, j} |-> IF x = i THEN duty ELSE [db[j] EXCEPT !.draft = draft]]
    IN  Changes([x \in {y \in {i, j} : bound[y] # db[y]} |->
                    IF Live(db[x]) THEN Bump(bound[x]) ELSE bound[x]])

\* Within the bound on updates.
Updatable(j, draft) == draft \/ Editable(j)

\* mutant: instantiate forgets setJob
DutyCreateAdrift(t) ==
    \E i \in Duties, j \in Jobs, p \in Percentages :
        /\ FreshId(i)
        /\ Own(t, j) /\ db[j].draft
        /\ Workload(db, j) + p <= 100
        /\ Serve(t, Write(i, [st |-> "live", version |-> 0, percentage |-> p]))

\* EmployerDutyCreateService
DutyCreate(t) ==
    \E i \in Duties, j \in Jobs, p \in Percentages, draft \in HiddenDraft[Sender[t]] :
        /\ FreshId(i)
        /\ Own(t, j) /\ db[j].draft /\ Updatable(j, draft)
        /\ p > 0
        /\ Workload(db, j) + p <= 100
        /\ Serve(t, Saved(i, [st |-> "live", version |-> 0, job |-> j, percentage |-> p],
                          j, draft))

\* mutant: the new percentage is checked alone
DutyUpdateAlone(t) ==
    \E i \in Duties, p \in Percentages :
        /\ Editable(i)
        /\ Own(t, db[i].job) /\ db[db[i].job].draft
        /\ p > 0 /\ p <= 100
        /\ Serve(t, Write(i, [Bump(db[i]) EXCEPT !.percentage = p]))

\* EmployerDutyUpdateService
DutyUpdate(t) ==
    \E i \in Duties, p \in Percentages, draft \in HiddenDraft[Sender[t]] :
        /\ Editable(i)
        /\ Own(t, db[i].job) /\ db[db[i].job].draft /\ Updatable(db[i].job, draft)
        /\ p > 0
        /\ Workload(db, db[i].job) + p - db[i].percentage <= 100
        /\ Serve(t, Saved(i, [db[i] EXCEPT !.percentage = p], db[i].job, draft))

\* mutant: authorise checks the draft and forgets the owner
DutyDeleteOfOthers(t) ==
    \E i \in Duties :
        /\ Live(db[i])
        /\ db[db[i].job].draft
        /\ Serve(t, DeleteAll({i}))

\* EmployerDutyDeleteService
DutyDelete(t) ==
    \E i \in Duties :
        /\ Live(db[i])
        /\ Own(t, db[i].job) /\ db[db[i].job].draft
        /\ Serve(t, DeleteAll({i}))

-----------------------------------------------------------------------------
(* worker/application and employer/application *)

\* mutant: authorise forgets the deadline
ApplyLate(t) ==
    \E a \in Applications, j \in Jobs :
        /\ FreshId(a)
        /\ Published(db[j])
        /\ Serve(t, Write(a, [st |-> "live", version |-> 0, job |-> j, status |-> "PENDING"]))

\* WorkerApplicationCreateService
Apply(t) ==
    \E a \in Applications, j \in Jobs :
        /\ FreshId(a)
        /\ Open(db[j])
        /\ Serve(t, Write(a, [st |-> "live", version |-> 0, job |-> j, status |-> "PENDING"]))

\* mutant: authorise forgets the status
DecideAgain(t, a, status) ==
    /\ Editable(a) /\ Own(t, db[a].job)
    /\ Serve(t, Write(a, [Bump(db[a]) EXCEPT !.status = status]))

Decide(t, a, status) ==
    /\ Editable(a) /\ Own(t, db[a].job)
    /\ db[a].status = "PENDING"
    /\ Serve(t, Write(a, [Bump(db[a]) EXCEPT !.status = status]))

\* EmployerApplicationAcceptService
Accept(t) == \E a \in Applications : Decide(t, a, "ACCEPTED")

\* EmployerApplicationRejectService: refused unless the form has a justification.
Reject(t) == \E a \in Applications : Decide(t, a, "REJECTED")

-----------------------------------------------------------------------------
(* auditor/auditRecord *)

\* AuditorAuditRecordCreateService: the form has a draft box.
AuditCreate(t) ==
    \E r \in Records, j \in Jobs, draft \in BOOLEAN :
        /\ FreshId(r)
        /\ Open(db[j])
        /\ Serve(t, Write(r, [st |-> "live", version |-> 0, job |-> j, draft |-> draft]))

\* AuditorAuditRecordUpdateService: each update stamps a new moment, so the
\* version moves even when the form changes nothing.
AuditUpdate(t) ==
    \E r \in Records, draft \in BOOLEAN :
        /\ Editable(r)
        /\ db[r].draft
        /\ Serve(t, Write(r, [Bump(db[r]) EXCEPT !.draft = draft]))

-----------------------------------------------------------------------------
(* The end of a transaction *)

\* The foreign keys: a live row's job is live.
Referenced(rows) == \A i \in Children : Live(rows[i]) => Live(rows[rows[i].job])

Commit(t) ==
    /\ Flush(t)
    /\ Referenced(After(t))
    /\ UNCHANGED now

Rollback(t) == Discard(t) /\ UNCHANGED now

Tick ==
    /\ now < MaxTime
    /\ now' = now + 1
    /\ UNCHANGED <<db, tx>>

-----------------------------------------------------------------------------
Init ==
    /\ db = [i \in Ids |-> Unborn]
    /\ tx = [t \in Threads |-> NoWork]
    /\ now = 0

\* Only an Employer role is let in to these services.
Employer(t) ==
    /\ Sender[t] \in Employers
    /\ \/ JobCreate(t) \/ JobUpdate(t) \/ JobDelete(t)
       \/ DutyCreate(t) \/ DutyUpdate(t) \/ DutyDelete(t)
       \/ Accept(t) \/ Reject(t)
Worker(t) == Apply(t)
Auditor(t) == AuditCreate(t) \/ AuditUpdate(t)

Next ==
    \/ \E t \in Threads : Employer(t) \/ Worker(t) \/ Auditor(t) \/ Commit(t) \/ Rollback(t)
    \/ Tick

Spec == Init /\ [][Next]_vars

-----------------------------------------------------------------------------
(* Properties *)

\* Every row, committed or pending, is a row of its table.
TypeOK ==
    /\ db = [i \in Ids |-> db[i]]
    /\ \A i \in Ids : db[i] \in RowOf(i)
    /\ tx = [t \in Threads |-> tx[t]]
    /\ \A t \in Threads : \A i \in DOMAIN tx[t] :
        /\ i \in Ids
        /\ tx[t][i].old \in RowOf(i)
        /\ tx[t][i].new \in RowOf(i)
    /\ now \in 0..MaxTime

\* A duty belongs to a job that exists, an application or an audit record to a
\* job that has been published: authorise saw the job published in a snapshot
\* that may be old when the insert is flushed, while its employer edits or
\* deletes the job.
WellAttached ==
    /\ \A i \in Duties : Live(db[i]) => Live(db[db[i].job])
    /\ \A i \in Applications \cup Records : Live(db[i]) => Published(db[db[i].job])

\* What was published stays as it was published: no request, however old the
\* form or the snapshot it started from, changes a published job or a final
\* audit record; they can only be deleted.
FrozenOncePublished ==
    [][\A i \in Jobs \cup Records : Published(db[i]) => db'[i] \in {db[i], Gone}]_vars

\* An application is never lost, and its decision is never revised.
DecidedOnce ==
    [][\A a \in Applications : Live(db[a]) =>
          /\ Live(db'[a])
          /\ db[a].status # "PENDING" => db'[a] = db[a]]_vars

\* A published job whose deadline has passed, with no request for it in flight,
\* takes no further application or audit record, ever.
InFlight(j) ==
    \E t \in Threads : \E i \in DOMAIN tx[t] \cap (Applications \cup Records) :
        tx[t][i].old = Unborn /\ tx[t][i].new.job = j
Quiet(j) == Published(db[j]) /\ ~Open(db[j]) /\ ~InFlight(j)
ClosedStaysQuiet ==
    [][\A j \in Jobs : Quiet(j) =>
          /\ Quiet(j)' \/ db'[j] = Gone
          /\ Attached(db', Applications \cup Records, j)
                \subseteq Attached(db, Applications \cup Records, j)]_vars

\* employer.job.error.workload: the duties of a published job sum up to 100%.
\* Only validate of JobUpdate checks it, so it is said of the employers whose
\* forms return the draft fields they were not shown as the page had them.
AsShown(e) == HiddenDraft[e] \subseteq {TRUE}
PublishedWorkload ==
    \A j \in Jobs : Published(db[j]) /\ AsShown(db[j].employer) => Workload(db, j) = 100

\* employer.duty.error.up-to-hundred: no job's duties exceed 100%.
WorkloadUpToHundred ==
    \A j \in Jobs : Live(db[j]) => Workload(db, j) <= 100

=============================================================================
