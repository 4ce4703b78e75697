SPECIFICATION RunSpec
CONSTANTS
    MaxStatements = 2
    MaxSolutions = 2
    MaxRepairs = 2
    Diagnostics = {f1}
    Unset = Unset
INVARIANT CandidateIsFresh
CHECK_DEADLOCK FALSE
