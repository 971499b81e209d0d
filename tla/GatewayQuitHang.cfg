SPECIFICATION ServingSpec
CONSTANTS
    Conn = {c1}
    NoConn = NoConn
    FD = {1}
    MaxClients = 1
    FailLimit = 1
    QueueCapacity = 1
    PoolWorkers = 1
    MaxFrames = 1
    MayBeSilent = TRUE
    MayStall = TRUE
    Restarts = FALSE
PROPERTIES
    QuitCompletes
CHECK_DEADLOCK FALSE
