SPECIFICATION Spec
CONSTANTS
    N = 2
    Clients = {c1}
    Keys = {k1}
    Tasks = {"Get", "Put", "Append"}
    MaxOps = 2
    MaxFaults = 1
    MaxChanges = 1
    MaxCrash = 1
INVARIANTS TypeOK ServiceInv ReplicasAgree AppendsInOrder WriteFindsKey
PROPERTIES Linearizable
CHECK_DEADLOCK FALSE
