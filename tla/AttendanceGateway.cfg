SPECIFICATION Spec
CONSTANTS
    b1 = b1
    b2 = b2
    b3 = b3
    e1 = e1
    e2 = e2
    e3 = e3
    Batches = {b1, b2}
    Events = {e1, e2, e3}
    EventsOf <- MCEventsOf
    Near <- MCNear
    MaxQueueItems = 1
    MaxRetryAttempts = 2
    MaxFaults = 2
    MaxStrays = 1
    None = None
INVARIANTS
    TypeOK
    AcceptedAccounted
    SendsBounded
CHECK_DEADLOCK FALSE
