SPECIFICATION FairSpec
CONSTANTS
    PROTO_MAGIC_1 = 2
    PROTO_MAGIC_2 = 3
    PROTO_MAX_PAYLOAD = 2
    Payload <- MCPayload
    Noise <- MCNoise
    MaxFrames = 3
    MaxNoise = 1
INVARIANTS
    InOrder
    InSync
    HalfFrame
PROPERTY
    AllHandled
CHECK_DEADLOCK FALSE
