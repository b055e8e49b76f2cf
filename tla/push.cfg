\* One collector, a process that may go down at any step, a store that may
\* refuse any operation.
SPECIFICATION FairSpec
CONSTANTS
    Ids = {a, b}
    Handlers = {h1}
    Runner = run
    Absent = Absent
    NoSnapshot = NoSnapshot
    StoreErrors = TRUE
    MaxHalts = 1
    MaxClock = 2
    Readings <- MCReadings
    Syncers <- MCSyncers
INVARIANTS
    TypeOK
    AckedAccountedFor
    RestartServesStored
PROPERTIES
    FirstUpsertKeepsStored
    EventuallyServed
CHECK_DEADLOCK FALSE
