SPECIFICATION Spec
CONSTANTS
    NShifts = 2
    ShiftLen = 2
    KPI_T1_SRC = {"local", "oracle"}
    BASELINE_DAYS = 1
    Late = 1
    PipeEnd = 5
    MaxLanded = 2
    MaxManual = 1
    MaxPipeFaults = 1
CHECK_DEADLOCK FALSE
INVARIANTS
    PipeInv
    BaselineTracks

    
    
