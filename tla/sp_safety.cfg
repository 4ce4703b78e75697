SPECIFICATION FairSpec
CONSTANTS
    MaxAttempts = 3
    Payloads = {p1, p2}
    Models = {m1, m2}
    Active = m1
    Kinds = {"generated", "rejected", "imported"}
    MaxFaults = 1
    MaxTouches = 1
    None = None
INVARIANTS
    StepsHold
    CompletedIsWhole
    PublishedIsWhole
    ResultWasAnnounced
PROPERTY
    StoreIsWriteOnce
    EventuallyCompleted
CHECK_DEADLOCK FALSE
