\* A push deployment: handlers save while the rollup runs.
SPECIFICATION Spec
CONSTANTS
    Ids = {a}
    DayLength = 2
    MaxDay = 2
    RawAge = 2
    Retention = 1
    Lag = 1
    Concurrent = TRUE
PROPERTY
    UpstreamKept
CHECK_DEADLOCK FALSE
