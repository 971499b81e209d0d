SPECIFICATION Spec
CONSTANTS
    Conn = {c1, c2}
    NoConn = NoConn
    FD = {1, 2}
    MaxClients = 2
    FailLimit = 1
    QueueCapacity = 2
    PoolWorkers = 2
    MaxFrames = 1
    MayBeSilent = TRUE
    MayStall = FALSE
    Restarts = FALSE
PROPERTY
    PingedStays
CHECK_DEADLOCK FALSE
