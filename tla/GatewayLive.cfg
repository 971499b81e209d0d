SPECIFICATION ReadingSpec
CONSTANTS
    Conn = {c1}
    NoConn = NoConn
    FD = {1}
    MaxClients = 1
    FailLimit = 3
    QueueCapacity = 1
    PoolWorkers = 1
    MaxFrames = 1
    MayBeSilent = TRUE
    MayStall = TRUE
    Restarts = TRUE
PROPERTIES
    QuitCompletes
    HangUpReleased
    SilentKicked
CHECK_DEADLOCK FALSE
