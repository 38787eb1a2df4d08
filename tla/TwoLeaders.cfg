SPECIFICATION Spec
CONSTANTS
    N = 3
    Tickers = {0, 1}
    MaxElections = 2
    MaxCmd = 0
    MaxCrash = 0
    MaxRounds = 0
    MaxAppends = 0
INVARIANTS
    ElectionSafety
\* The bounds run out: the bounded model stops where the program would go on.
CHECK_DEADLOCK FALSE
