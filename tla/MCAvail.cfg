SPECIFICATION Spec
CONSTANTS
    NTrucks = 1
    NKeys = 2
    Collectors = {c1, c2}
    MaxTime = 2
    Overlap = 1
    ClockMargin = 1
    MaxReplay = 1
    MaxHold = 1
    MaxCommits = 2
    MaxOther = 1
SYMMETRY Symm
INVARIANTS
    AvailInv
    Disjoint
PROPERTIES
    EveryVisit
    
