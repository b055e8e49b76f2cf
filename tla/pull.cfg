\* Two endpoints with a service each, two successful polls, one restart.
SPECIFICATION FairSpec
CONSTANTS
    Ids = {1, 2}
    Absent = Absent
    Runner = run
    NoSnapshot = NoSnapshot
    StoreErrors = FALSE
    MaxHalts = 1
    Last = 2
    Values = {v}
    BackoffCap = 1
    MaxClock = 2
    Readings <- MCReadings
    Syncers <- MCSyncers
    Claims <- MCClaims
INVARIANTS
    TypeOK
    SavedOnce
    BackoffMatchesHealth
PROPERTIES
    NeverBlanks
    EventuallyServed
    EventuallyDurable
CHECK_DEADLOCK FALSE
