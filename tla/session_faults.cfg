CONSTANTS
    a = a
    b = b
    Phones <- TwoPhones
    Protocols = {0, 1}
    Faults <- AllFaults
    MaxTasks <- MCTasks
    MaxLaunches <- MCLaunches
    MaxRestarts = 1
SPECIFICATION FairSpec
INVARIANTS
    TypeOK
    NothingMistaken
    ServerSurvives
    PhoneSurvives
PROPERTIES
    Answered
CHECK_DEADLOCK FALSE
