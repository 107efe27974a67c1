CONSTANTS
    Word = 32
    Configs <- MCConfigs
    Frame = 160
    MaxQueues = 3
    MaxCalls = 70
SPECIFICATION Spec
INVARIANTS
    SharesExact
    CodecsFaithful
    SocketsEven
    FailedReleased
CHECK_DEADLOCK FALSE
