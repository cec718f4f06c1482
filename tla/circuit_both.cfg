CONSTANTS
    M = 3
    N = 8
    L = 2
    K = 2
    Inputs <- MCInputs
SPECIFICATION Spec
INVARIANTS
    TypeOK
PROPERTIES
    SearchesHamming
    SearchesShares
CHECK_DEADLOCK FALSE
