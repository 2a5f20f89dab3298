SPECIFICATION Spec
CONSTANTS
    Trucks = {t1, t2, t3}
    Boxes = {b1, b2}
    MaxTime = 1
    Margin = 1
    ReadErr = 0
    ListedRecent = 1
    RestoreMaxAge = 1
    MaxLag = 0
    MaxLists = 2
    MaxRecords = 0
    MaxFaults = 0
SYMMETRY Symm
INVARIANTS
    OneOrderPerBox
