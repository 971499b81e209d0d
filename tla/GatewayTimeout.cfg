SPECIFICATION Spec
CONSTANTS
    Conn = {c1, c2}
    NoConn = NoConn
    FD = {1, 2}
    MaxClients = 1
    FailLimit = 1
    QueueCapacity = 2
    PoolWorkers = 2
    MaxFrames = 1
    MayBeSilent = TRUE
    MayStall = FALSE
    Restarts = FALSE
SYMMETRY ClientSymmetry
INVARIANTS
    TypeOK
    EntriesServed
    FreedUnused
CHECK_DEADLOCK FALSE
