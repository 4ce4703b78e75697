SPECIFICATION FairSpec
CONSTANTS
    NumEvents = 1
    Dispatchers = {d1, d2, d3}
    BatchSize = 1
    MaxAttempt = 2
    RequestTimeout = 1
    Lease = 2
    MaxQueued = 0
    Enabled = {d1, d2}
    MaxFaults = 2
    None = None
PROPERTIES
    EventuallyHandled
    ReadinessIsTrue
