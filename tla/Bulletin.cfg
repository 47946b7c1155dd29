\* Two sponsors: one has two tabs and renews his principal, the other is an administrator too.
SPECIFICATION Spec
CONSTANTS
    t1 = t1
    t2 = t2
    t3 = t3
    s1 = s1
    s2 = s2
    sp1 = sp1
    sp2 = sp2
    NoSponsor = NoSponsor
    Configuration = Configuration
    Ids = {x1, c1, n1, sp1, sp2, Configuration}
    Notices = {x1}
    Commercials = {c1}
    NonCommercials = {n1}
    Sponsors = {sp1, sp2}
    Threads = {t1, t2, t3}
    Sessions = {s1, s2}
    SessionOf <- MCSessionOf
    SponsorOf <- MCSponsorOf
    RolesOf <- MCRolesOf
    MaxVersion = 1
SYMMETRY Symmetry
INVARIANTS TypeOK
PROPERTIES OnlyItsSponsorEdits PaidByItsMaker
\* Ids and updates are bounded: the model may stop.
CHECK_DEADLOCK FALSE
