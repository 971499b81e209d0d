SPECIFICATION FairSpec
CONSTANTS
    BATCH_SIZE = 2
    MaxEvents = 4
    MaxFiles = 2
    MaxFaults = 2
    Rotates = TRUE
INVARIANTS
    ExactlyOnce
    NothingSkipped
    BatchContiguous
PROPERTY
    AllImported
CHECK_DEADLOCK FALSE
