CONSTANTS
    a = a
    b = b
    Phones <- OnePhone
    Protocols = {0, 1}
    Faults = {}
    MaxTasks <- NoTasks
    MaxLaunches <- MCLaunches
    MaxRestarts = 0
SPECIFICATION FairSpec
PROPERTIES
    SetupAnswered
CHECK_DEADLOCK FALSE
