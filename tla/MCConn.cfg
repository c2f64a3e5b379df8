SPECIFICATION FairSpec
CONSTANTS
    Buffer = 1
    PingInterval = 4
    PongWait = 6
    WriteWait = 4
    Delay = 1
    Flight = 1
    MaxSent = 3
CHECK_DEADLOCK FALSE
INVARIANTS TypeOK AnsweringKept
PROPERTIES LosesOnly GoroutinesEnd
