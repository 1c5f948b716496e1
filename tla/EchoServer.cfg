SPECIFICATION EchoSpec
CONSTANTS
    CHUNK_SIZE = 1
    PIPE_CAPACITY = 0
    HEAP_LIMIT = 3
    MaxCalls = 10
    MaxSent = 4
    BUF_SIZE = 4
    SNDBUF = 2
CHECK_DEADLOCK FALSE
INVARIANTS OperationalMeansConnected NoCrash SilenceIsTimed
PROPERTIES QuietUnlessArmed TimeoutIsDue Echoes CallsBack Answered
