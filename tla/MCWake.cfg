SPECIFICATION Spec
CONSTANTS
    MaxWait = 2
    MaxAge = 4
    MaxBody = 1
    MaxLists = 2
    MaxFrees = 2
    WakeOnFree = TRUE
INVARIANTS
    WakeInv
    HeartbeatBeforeGate
PROPERTIES
    ListIsSeen
    FreeIsSeen
