\* Three users, each with one request at a time.
SPECIFICATION Spec
CONSTANTS
    t1 = t1
    t2 = t2
    t3 = t3
    u1 = u1
    u2 = u2
    u3 = u3
    k1 = k1
    k2 = k2
    Ids = {k1, k2, p1, p2, p3, p4, m1, m2}
    Talks = {k1, k2}
    Participations = {p1, p2, p3, p4}
    Messages = {m1, m2}
    Threads = {t1, t2, t3}
    Users = {u1, u2, u3}
    Requester <- MCRequester
    Queried <- MCQueried
    MaxVersion = 0
SYMMETRY Symmetry
INVARIANTS TypeOK CreatorTakesPart InvolvedOnce
PROPERTIES OutsiderStaysSilent
\* Ids are used up: the model stops.
CHECK_DEADLOCK FALSE
