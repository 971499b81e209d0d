SPECIFICATION Spec
CONSTANTS
    MaxPings = 0
    MaxRequests = 2
    SocketRoom = 3
    Splits = TRUE
INVARIANT
    HalfFrameKept
CHECK_DEADLOCK FALSE
