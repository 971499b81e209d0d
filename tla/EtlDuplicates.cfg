SPECIFICATION Spec
CONSTANTS
    BATCH_SIZE = 2
    MaxEvents = 4
    MaxFiles = 1
    MaxFaults = 1
    Rotates = FALSE
INVARIANT
    NoDuplicates
CHECK_DEADLOCK FALSE
