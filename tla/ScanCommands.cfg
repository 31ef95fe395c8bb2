SPECIFICATION FairSpec
CONSTANTS
    Contents = {c1, c2}
    Threshold = 2
    MaxKeys = 2
    MaxFaults = 2
INVARIANTS
    OneKeyPerCommand
    RefusedMeansNotExecuted
PROPERTIES
    AtMostOnce
    CommandSettles
CHECK_DEADLOCK FALSE
