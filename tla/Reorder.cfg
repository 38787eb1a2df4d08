SPECIFICATION MachineSpec
CONSTANTS
    N = 2
    Tickers = {0}
    MaxElections = 1
    MaxCmd = 2
    MaxCrash = 1
    MaxRounds = 3
    MaxAppends = 2
INVARIANTS
    OneReignOneLog
    OneReignOneHistory
    ReignInv
\* The bounds run out: the bounded model stops where the program would go on.
CHECK_DEADLOCK FALSE
