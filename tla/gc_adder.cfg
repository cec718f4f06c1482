CONSTANTS
    LabelBits = {0, 1}
    Hash <- MCHash
    NumAlice = 2
    NumBob = 1
    Gates <- MCGates
    Outputs <- MCOutputs
    Capacity = 3
SPECIFICATION FairSpec
INVARIANTS
    TypeOK
    Lockstep
    LabelsEncode
    OutputsCorrect
PROPERTIES
    Termination
CHECK_DEADLOCK FALSE
