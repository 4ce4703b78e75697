SPECIFICATION MCSpec
CONSTANTS
    Admins = {d1}
    Viewers = {v1}
    Assessments = {a1, a2}
    MaxFaults = 1
    None = None
    Deciders = {p1, p2}
    Authors = {p2}
    Texts = {t1, t2}
    MaxRevisions = 1
    MaxEvidence = 2
    MaxDecisions = 2
    Blank = Blank
INVARIANTS
    CompletedIsRecorded
    FailedIsOver
PROPERTIES
    
    AcceptedEnds
