SPECIFICATION Spec
CONSTANTS
    NumEvents = 2
    Dispatchers = {d1, d2}
    BatchSize = 2
    MaxAttempt = 2
    RequestTimeout = 1
    Lease = 3
    MaxQueued = 1
    Enabled = {d1, d2}
    MaxFaults = 2
    None = None
SYMMETRY DispatcherSymmetry
INVARIANT SoleDelivery
PROPERTY DeliversAtLeastOnce
