SPECIFICATION Spec
CONSTANTS
    N = 2
    Clients = {c1, c2}
    Keys = {k1}
    Tasks = {"Get", "Append"}
    MaxOps = 1
    MaxFaults = 1
    MaxChanges = 1
    MaxCrash = 0
SYMMETRY ClerkSymmetry
PROPERTIES Linearizable
CHECK_DEADLOCK FALSE
