\* One endpoint, no database error: only the signal can cancel a write.
SPECIFICATION Spec
CONSTANTS
    Ids = {1}
    Absent = Absent
    Runner = run
    NoSnapshot = NoSnapshot
    StoreErrors = FALSE
    MaxHalts = 0
    Last = 1
    Values = {v}
    BackoffCap = 1
    MaxClock = 1
    Readings <- MCReadings
    Syncers <- MCSyncers
    Claims <- MCClaims
INVARIANT
    GracefulStopKeepsReading
CHECK_DEADLOCK FALSE
