SPECIFICATION FairSpec
CONSTANTS
    b1 = b1
    b2 = b2
    b3 = b3
    e1 = e1
    e2 = e2
    e3 = e3
    Batches = {b1, b2, b3}
    Events = {e1}
    EventsOf <- MCOneEvent
    Near <- MCNearItself
    MaxQueueItems = 2
    MaxRetryAttempts = 3
    MaxFaults = 1
    MaxStrays = 0
    None = None
INVARIANT TakenInTurn
PROPERTY QueueDrains
CHECK_DEADLOCK FALSE
