\* One administrator, one user, one request at a time each.
SPECIFICATION Spec
CONSTANTS
    a1 = a1
    a2 = a2
    a3 = a3
    t1 = t1
    t2 = t2
    t3 = t3
    s1 = s1
    s2 = s2
    s3 = s3
    NoAccount = NoAccount
    Ids = {a1, a2, r1, r2, r3}
    UserAccounts = {a1, a2}
    Roles = {r1, r2, r3}
    Names = {n1, n2}
    Administrators = {a1}
    Threads = {t1, t2}
    Sessions = {s1, s2}
    SessionOf <- MCSessionOf
    Owner <- MCOwner
    SelfMade <- MCSelfMade
    MaxVersion = 1
SYMMETRY Symmetry
INVARIANT OneRoleOfEachClass
\* Ids and updates are bounded: the model may stop.
CHECK_DEADLOCK FALSE
