CONSTANTS
    M = 1
    N = 2
    RSSBits = 1
    Seeds = {1}
    Draws <- MCDraws
    Pads <- MCPads
    Rand <- MCRand
    BlockBytes = 8
    ByteBits = 3
    Stale = 5
    Capacity = 2
    Inputs <- MCOneBitInputs
SPECIFICATION FairSpec
INVARIANTS
    DistanceExact
CHECK_DEADLOCK FALSE
