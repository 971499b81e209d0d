SPECIFICATION Spec
CONSTANTS
    BATCH_SIZE = 2
    MaxEvents = 2
    MaxFiles = 2
    MaxFaults = 0
    Rotates = TRUE
INVARIANT
    DeletedImported
CHECK_DEADLOCK FALSE
