SPECIFICATION Spec
CONSTANTS
    N = 2
    Tickers = {0, 1}
    MaxElections = 2
    MaxCmd = 1
    MaxCrash = 1
    MaxRounds = 2
    MaxAppends = 1
INVARIANTS
    TypeOK
    EntriesDurable
    
    
    ReignInv
PROPERTIES
    LeaderAppendOnly
\* The bounds run out: the bounded model stops where the program would go on.
CHECK_DEADLOCK FALSE
