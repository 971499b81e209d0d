SPECIFICATION Spec
CONSTANTS
    BATCH_SIZE = 2
    MaxEvents = 3
    MaxFiles = 2
    MaxFaults = 0
    Rotates = TRUE
INVARIANT
    OffsetInPlace
CHECK_DEADLOCK FALSE
