CONSTANTS
    M = 3
    K = 2
    DistanceBits = 2
    Distances <- AnyDistances
SPECIFICATION Spec
INVARIANTS
    FindsNearest
CHECK_DEADLOCK FALSE
