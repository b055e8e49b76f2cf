\* One service (no operation looks across services), three days of two
\* instants; samples live one day, the shortest age that is safe,
\* so that most prunes fall in the middle of a day.
SPECIFICATION FairSpec
CONSTANTS
    Ids = {a}
    DayLength = 2
    MaxDay = 2
    RawAge = 2
    Retention = 1
    Lag = 2
    Concurrent = FALSE
INVARIANT
    TypeOK
PROPERTIES
    ImplementsMemory
    UpstreamKept
    SealedDayIsStable
    PruneKeepsUnrolled
    EveryDaySealed
CHECK_DEADLOCK FALSE
