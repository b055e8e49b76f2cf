SPECIFICATION Spec
CONSTANTS
    Ids = {a, b}
    Handlers = {h1}
    Runner = run
    Absent = Absent
    NoSnapshot = NoSnapshot
    StoreErrors = FALSE
    MaxHalts = 0
    MaxClock = 2
    Readings <- MCReadings
    Syncers <- MCSyncers
PROPERTY
    UpsertKeepsUnmentioned
CHECK_DEADLOCK FALSE
