SPECIFICATION Spec
CONSTANTS
    Conn = {c1, c2, c3}
    NoConn = NoConn
    FD = {1, 2}
    MaxClients = 2
    FailLimit = 1
    QueueCapacity = 3
    PoolWorkers = 2
    MaxFrames = 1
    MayBeSilent = FALSE
    MayStall = FALSE
    Restarts = FALSE
SYMMETRY ClientSymmetry
INVARIANTS
    TableExact
    WorkerOwnsFd
CHECK_DEADLOCK FALSE
