SPECIFICATION Spec
CONSTANTS
    Ids = {a, b}
    Absent = Absent
    Last = 2
    Claims <- MCClaims
    Values = {v}
    BackoffCap = 1
    MaxClock = 4
INVARIANT
    QuietSnapshotIsMerge
CHECK_DEADLOCK FALSE
