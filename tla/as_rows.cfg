CONSTANTS
    M = 2
    N = 2
    RSSBits = 2
    Seeds = {1, 2}
    Draws <- MCDraws
    Pads <- MCPads
    Rand <- MCRand
    BlockBytes = 8
    ByteBits = 3
    Stale = 5
    Capacity = 5
    Inputs <- MCFewInputs
SPECIFICATION FairSpec
INVARIANTS
    TypeOK
    Lockstep
    TripletsMultiply
    SharesOpen
    DistanceExact
PROPERTIES
    Termination
    SharesTheDistance
CHECK_DEADLOCK FALSE
