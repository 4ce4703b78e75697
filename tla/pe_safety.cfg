SPECIFICATION FairSpec
CONSTANTS
    MaxAttempts = 3
    Timeout = 2
    Lease = 3
    Buffer = 1
    Requests = {q1, q2}
    Texts = {t1, t2}
    MaxFaults = 3
    None = None
INVARIANTS
    SingleFlight
    AnswersCommitted
    CallsAccounted
    SurvivesOneFault
PROPERTIES
    ImplementsWriteOnce
    EventuallySettled
\* The activity settles.
CHECK_DEADLOCK FALSE
