SPECIFICATION Spec
CONSTANTS
    N = 3
    Tickers = {0, 1}
    MaxElections = 3
    MaxCmd = 0
    MaxCrash = 1
    MaxRounds = 0
    MaxAppends = 0
INVARIANTS
    OneMajorityPerTerm
    RightfulLeaderUnique
    DurableVote
    VoteInv
PROPERTIES
    VoteIsKept
\* The bounds run out: the bounded model stops where the program would go on.
CHECK_DEADLOCK FALSE
