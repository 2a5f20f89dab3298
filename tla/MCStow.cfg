SPECIFICATION Spec
CONSTANTS
    NVoyages = 2
    PlanBoxes <- MCPlanBoxes
    c1 = c1
    c2 = c2
    MaxRev = 1
    STOWPLAN_MODE = {"delta"}
    MAX_VOYAGES = 1
    SAFETY_LAG = 1
    MaxPlanDelay = 1
    PlanEnd = 2
    MaxChanges = 3
CHECK_DEADLOCK FALSE
INVARIANTS
    StowInv
PROPERTIES
    StowHealed
