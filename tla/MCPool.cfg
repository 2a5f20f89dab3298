SPECIFICATION Spec
CONSTANTS
    b1 = b1
    b2 = b2
    Orders = {b1, b2}
    Twins <- MCTwins
    VoyageOf <- MCVoyageOf
    PoolTrucks = {t1}
    PoolCranes = {q1, q2}
    NoTruck = none
    TTL = 1
    KEEP = 1
    PoolEnd = 3
    MaxPoolChanges = 1
    MaxPoolFaults = 1
CHECK_DEADLOCK FALSE
INVARIANTS
    PoolInv
    FreshBehind
PROPERTIES
    ListIsReading
    ListCatchesUp
