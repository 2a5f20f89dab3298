SPECIFICATION MCSpec
CONSTANTS
    Trucks = {t1, t2}
    Boxes = {b1, b2}
    MaxTime = 2
    Margin = 1
    ReadErr = 1
    ListedRecent = 2
    RestoreMaxAge = 1
    MaxLag = 1
    MaxLists = 2
    MaxRecords = 2
    MaxFaults = 1
SYMMETRY Symm
INVARIANTS
    TypeOK
    OneOrderPerTruck
    OneAssignPerBox
    UnansweredIsRestorable
PROPERTIES
    SwapOncePerTrip
