SPECIFICATION Spec
CONSTANTS
    Yts = {t1}
    k1 = k1
    k2 = k2
    Points = {k1, k2}
    Routes <- MCRoutes
    MoveLag = 1
    BufMax = 2
    LegWindow = 1
    TripWindow = 3
    SnapAge = 0
    LabelWindow = 3
    PickWindow = 3
    TripKeep = 4
    TablesEnd = 5
    MaxCycles = 3
    MaxSnaps = 1
    MaxMoves = 2
    MaxFaults = 1
    TTs = {t1, t2}
    RTGs = {r1}
    Places = {k1, k2}
    StaleAfter = 1
    LostAfter = 2
    CacheKeep = 4
    WriteMax = 1
    BackoffMin = 1
    BackoffMax = 2
    FeedEnd = 5
    MaxRuns = 2
    Qcs = {C1}
    Scenes <- MCScenes
    ShiftLen = 2
    SampleKeep = 4
    PruneEvery = 2
    SmoothLen = 2
    KpiEnd = 6
    Views <- MCViews
    Boxes = {"A", "B"}
    Targets = {"07F", "C1"}
    TripStale = 1
    TripLost = 2
    MinLeg = 1
    Route = 2
    TripEnd = 6
    MaxTripRuns = 2
    CraneTargets = {"C1"}
    MoveGap = 2
    MoveWindow = 4
    EdgeKeep = 1
    PlcLost = 3
    PlcEnd = 9
    MaxPlcRuns = 2
    Messages <- MCMessages
    Cranes = {"C1"}
    BlockOf <- MCBlockOf
    Start = 5
    MaxTime = 10
    MinLoaded = 2
    MinCarryTrip = 2
    MaxFixStep = 8
    MinCycle = 3
    MaxCycle = 4
    LeftGuard = 0
    LegsMax = 2
    Lost = 2
    Day = 8
    Future = 1
    Stale = 4
INVARIANTS
    CycleInv
    LegInv
    TablesInv
    
PROPERTIES
    CycleSteps
    FixHistory
    TripRows
    Handovers
CHECK_DEADLOCK FALSE
