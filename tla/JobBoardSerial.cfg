\* Two employers, each with one request at a time, and what workers and auditors send.
SPECIFICATION Spec
CONSTANTS
    j1 = j1
    j2 = j2
    d1 = d1
    d2 = d2
    d3 = d3
    a1 = a1
    r1 = r1
    t1 = t1
    t2 = t2
    e1 = e1
    e2 = e2
    Ids = {j1, j2, d1, d2, d3, a1, r1}
    Jobs = {j1, j2}
    Duties = {d1, d2, d3}
    Applications = {a1}
    Records = {r1}
    Threads = {t1, t2}
    Employers = {e1, e2}
    Sender <- MCTwoEmployers
    HiddenDraft <- MCShownOrEither
    Percentages <- MCPercentages
    Deadlines = {1}
    MaxTime = 0
    MaxVersion = 2
SYMMETRY SameIds
INVARIANTS PublishedWorkload WorkloadUpToHundred
\* Ids and updates are bounded: the model stops when they are used up.
CHECK_DEADLOCK FALSE
