SPECIFICATION Spec
CONSTANTS
    Values = {x}
    MaxPartitions = 2
    MaxOps = 3
    MaxOutput = 2
INVARIANTS
    TypeOK
    SearchSound
    VerdictRight
    PartialsRight
PROPERTIES
    InfoSettled
    CheckEnds
\* The check ends; of an empty history without a timeout it never returns.
CHECK_DEADLOCK FALSE
