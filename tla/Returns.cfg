SPECIFICATION FairSpec
CONSTANTS
    N = 2
    Clients = {c1}
    Keys = {k1}
    Tasks = {"Append"}
    MaxOps = 1
    MaxFaults = 1
    MaxChanges = 2
    MaxCrash = 1
PROPERTIES OperationsReturn ApplyChannelDrains
CHECK_DEADLOCK FALSE
