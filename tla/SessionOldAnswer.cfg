SPECIFICATION Spec
CONSTANTS
    Contents = {c1}
    Threshold = 2
    MaxKeys = 2
    MaxFaults = 2
PROPERTY
    OldAnswersKeepSession
CHECK_DEADLOCK FALSE
