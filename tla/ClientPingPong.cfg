SPECIFICATION Spec
CONSTANTS
    MaxPings = 2
    MaxRequests = 2
    SocketRoom = 3
    Splits = FALSE
INVARIANT
    AnsweredOnce
CHECK_DEADLOCK FALSE
