SPECIFICATION Spec
CONSTANTS
    MaxPings = 4
    MaxRequests = 3
    SocketRoom = 2
    Splits = FALSE
INVARIANT
    NotJammed
CHECK_DEADLOCK FALSE
