SPECIFICATION FairSpec
CONSTANTS
    MaxPings = 3
    MaxRequests = 4
    SocketRoom = 3
    Splits = FALSE
INVARIANT
    RequestsConserved
PROPERTY
    AllAcked
CHECK_DEADLOCK FALSE
