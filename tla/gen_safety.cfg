SPECIFICATION FairRunSpec
CONSTANTS
    MaxStatements = 2
    MaxSolutions = 3
    MaxRepairs = 2
    Diagnostics = {f1}
    Unset = Unset
INVARIANTS
    GateBeforeTests
    CandidateEarned
    StaleOnlyByReference
PROPERTY EventuallyEnded
CHECK_DEADLOCK FALSE
