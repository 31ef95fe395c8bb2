SPECIFICATION FairSpec
CONSTANTS
    t1 = t1
    p1 = p1
    Scans = {s1, s2}
    Patches = {p1, p2}
    TaskOf <- MCTaskOf
    EngineScans = EngineScans
    EnginePatches = EnginePatches
    ScreenPatches = ScreenPatches
    MaxFaults = 2
    None = None
CONSTRAINTS Apart RetryOnly FewerFaults
INVARIANTS
    TypeOK
    ScansAccounted
    DoubleCountOnlyInDoubt
    PatchTakenOnce
    ConflictRowsResolvable
    SyncingRowsAreSent
PROPERTIES
    ClosedPatchStaysOut
    AskedFlushSends
CHECK_DEADLOCK FALSE
