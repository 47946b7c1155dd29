\* The launcher is killed at most once.
SPECIFICATION Spec
CONSTANTS
    e1 = e1
    e2 = e2
    e3 = e3
    e4 = e4
    e5 = e5
    e6 = e6
    e7 = e7
    Files <- MCFiles
    Needs <- MCNeeds
    MaxKills = 1
INVARIANTS TypeOK NothingLost AllOrNothing SortedIfFlat
PROPERTIES Ends NeverAgain
\* The launcher ends.
CHECK_DEADLOCK FALSE
