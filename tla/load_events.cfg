SPECIFICATION Spec
CONSTANTS
    one = one
    other = other
    a = a
    b = b
    x = x
    y = y
    codes = codes
    Processes = {one, other}
    Files <- MCFiles
    Embeds <- MCEmbeds
    Nobody = Nobody
    ImplicitCommit = FALSE
    MaxCrashes = 1
    Services = {a, b}
    IncidentIds = {x, y}
    Buckets = {codes}
    NoBuckets = NoBuckets
    MaxSaves = 2
INVARIANT
    LoadedEventsComplete
CHECK_DEADLOCK FALSE
