CONSTANTS
    M = 5
    K = 3
    DistanceBits = 2
    Distances <- AnyDistances
SPECIFICATION Spec
INVARIANTS
    TypeOK
    InsertionInvariant
    ReturnsNearest
PROPERTIES
    ImplementsSearch
CHECK_DEADLOCK FALSE
