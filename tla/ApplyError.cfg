SPECIFICATION ScheduledSpec
CONSTANTS
    N = 3
    Tickers = {0, 1}
    MaxElections = 2
    MaxCmd = 2
    MaxCrash = 0
    MaxRounds = 2
    MaxAppends = 2
INVARIANTS
    ApplyAgreement
\* The bounds run out: the bounded model stops where the program would go on.
CHECK_DEADLOCK FALSE
