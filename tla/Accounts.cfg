\* An administrator and two users, each with one request at a time.
SPECIFICATION Spec
CONSTANTS
    a1 = a1
    a2 = a2
    a3 = a3
    t1 = t1
    t2 = t2
    t3 = t3
    s1 = s1
    s2 = s2
    s3 = s3
    NoAccount = NoAccount
    Ids = {a1, a2, a3, r1, r2}
    UserAccounts = {a1, a2, a3}
    Roles = {r1, r2}
    Names = {n1, n2}
    Administrators = {a1}
    Threads = {t1, t2, t3}
    Sessions = {s1, s2, s3}
    SessionOf <- MCSessionOf
    Owner <- MCOwner
    SelfMade <- MCSelfMade
    MaxVersion = 1
SYMMETRY Symmetry
INVARIANTS TypeOK AuditorsAsked OneOfAKind PrincipalBacked
PROPERTIES RenewedIsComplete StatusOnPurpose KeepsRowsAtomic
\* Ids and updates are bounded: the model may stop.
CHECK_DEADLOCK FALSE
