SPECIFICATION Spec
CONSTANTS
    Requests = {r1, r2}
    Me = 1
    Others = {0, 2}
    None = None
    MaxTerm = 2
    MaxEarly = 1
    MaxFail = 1
    MaxCrash = 1
SYMMETRY RequestSymmetry
INVARIANTS TypeOK RestoredAsSaved OneVotePerTerm
CHECK_DEADLOCK FALSE
