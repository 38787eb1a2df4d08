SPECIFICATION FairSpec
CONSTANTS
    Calls = {c1, c2}
    Ends = {e1}
    Servers = {s1}
    Stuck = {c2}
    Nil = Nil
    MaxChanges = 7
INVARIANTS TypeOK PositiveIsSaved FalseOnlyIfDisturbed
PROPERTIES RemoteCalls CallsReturn DeadCallsReturn
CHECK_DEADLOCK FALSE
