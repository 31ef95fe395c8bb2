SPECIFICATION FairSpec
CONSTANTS
    u1 = u1
    Entries = {1}
    Tasks = {1, 2}
    Logs = {}
    RecipientOf <- MCRecipientOf
    Expiring = {}
    Workers = {w1}
    Handlers = {h1}
    MaxAttempts = 2
    MaxRetries = 1
    MaxCrashes = 1
    None = None
PROPERTIES
    TasksSettle
    InactiveReleased
CHECK_DEADLOCK FALSE
