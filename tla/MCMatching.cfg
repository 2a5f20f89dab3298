SPECIFICATION Spec
CONSTANTS
    MaxTrucks = 3
    MaxSlots = 3
    MaxCost = 1
    Forbidden = 4
    NTrucks = 3
    NBuckets = 3
    MaxN = 2
    MaxBase = 1
    MoveS = 1
    Cutoff = 1
    PairCost <- MCPairCost
    Fleets <- MCFleets
    CmpTrucks = {"TT1", "TT2"}
    TosTruck = "TT1"
    Nowhere = 2
    RecoStanding = 1
    RecoWindow = 3
    RecoMargin = 1
    HistWindow = 4
    SnapSkew = 1
    LatestAge = 2
    RecoLag = 1
    CompareEnd = 4
    MaxRecos = 2
    MaxHist = 2
    MaxUpdates = 2
CHECK_DEADLOCK FALSE
INVARIANTS
    BestMatching
    SolverInv
    CoverInv
    TrucksAreUsed
    CoveredAreAssigned
    ComparisonsHold
