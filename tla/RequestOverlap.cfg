\* Two requests at a time on one controller: what overlap leaves standing.
SPECIFICATION Spec
CONSTANTS
    q1 = q1
    q2 = q2
    Requests = {q1, q2}
    Pool = 2
    NoStatus = NoStatus
INVARIANTS TypeOK
PROPERTIES Answered EndedOnce StepsForward
\* Every request is answered and no other arrives.
CHECK_DEADLOCK FALSE
