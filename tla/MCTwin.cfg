SPECIFICATION Spec
CONSTANTS
    Messages <- MCMessages
    Cranes = {"C1"}
    BlockOf <- MCBlockOf
    Start = 5
    MaxTime = 10
    MinLoaded = 3
    MinCarryTrip = 2
    MaxFixStep = 8
    MinCycle = 3
    MaxCycle = 4
    LeftGuard = 0
    LegsMax = 2
    Lost = 2
    Day = 8
    Future = 1
    Stale = 4
PROPERTIES
    BoxCarried
CHECK_DEADLOCK FALSE
