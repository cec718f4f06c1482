CONSTANTS
    LabelBits = {0, 1}
    Hash <- MCHash
    SIMDInputs = 2
    mInputA_size = 1
    mInputB_size = 2
    Gates <- MCGates
    Outputs <- MCOutputs
    Draws <- MCDraws
    Rows <- MCRows
    CodeDeltas <- MCCodeDeltas
    RandChoices <- MCRandChoices
    ByteBits = 2
    Capacity = 2
SPECIFICATION FairSpec
INVARIANTS
    Lockstep
    LabelsEncode
    OutputsCorrect
PROPERTIES
    Termination
CHECK_DEADLOCK FALSE
