SPECIFICATION Spec
CONSTANTS
    MaxTime = 4
    DayLen = 2
    Lag = 1
    FromToday = TRUE
    Backfill = 0
    Cap = 3
    MaxDelay = 1
    MaxSkew = 1
    MaxBurst = 2
    MaxRows = 4
    MaxFaults = 1
    Planted = {}
INVARIANTS
    NoSkip
    NotAhead
PROPERTIES
    EventuallyLogged
