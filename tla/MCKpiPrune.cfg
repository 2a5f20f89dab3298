SPECIFICATION KpiSpec
CONSTANTS
    Qcs = {C1}
    Scenes <- MCScenes
    ShiftLen = 2
    SampleKeep = 4
    PruneEvery = 2
    SmoothLen = 2
    KpiEnd = 6
PROPERTIES
    ClosedDayKept
CHECK_DEADLOCK FALSE
