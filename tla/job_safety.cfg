SPECIFICATION FairSpec
CONSTANTS
    Reviewers = {v1, v2}
    Feedbacks = {f1, f2}
    MaxRounds = 1
    MaxRuns = 3
    MaxFaults = 1
    Job = Job
    None = None
INVARIANTS
    StoredAsDecided
    SuccessIsOwn
    AcknowledgedTruly
    TimeoutMeansSilence
    RepairsBounded
PROPERTIES
    JobIsWriteOnce
    EventuallyClosed
CHECK_DEADLOCK FALSE
