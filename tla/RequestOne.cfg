\* One request at a time.
SPECIFICATION Spec
CONSTANTS
    q1 = q1
    q2 = q2
    Requests = {q1, q2}
    Pool = 1
    NoStatus = NoStatus
INVARIANTS NothingLeftOpen
PROPERTIES KeepsPromise
\* Every request is answered and no other arrives.
CHECK_DEADLOCK FALSE
