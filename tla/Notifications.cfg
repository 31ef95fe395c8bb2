SPECIFICATION Spec
CONSTANTS
    u1 = u1
    Entries = {1, 2}
    Tasks = {1, 2}
    Logs = {g1}
    RecipientOf <- MCRecipientOf
    Expiring = {2}
    Workers = {w1, w2}
    Handlers = {h1, h2}
    MaxAttempts = 2
    MaxRetries = 1
    MaxCrashes = 1
    None = None
CONSTRAINT OneMessageOrLocks
SYMMETRY Symmetry
INVARIANTS
    TypeOK
    AttemptsBounded
    PublicationsAccounted
    LogsTellOutcome
    LiveTasksHaveReceipts
    NoLockCycle
PROPERTY ResolvedNeverPublished
CHECK_DEADLOCK FALSE
