SPECIFICATION FairSpec
CONSTANTS
    t1 = t1
    t2 = t2
    w = w
    Threads = {t1, t2}
    Worker = w
    AwsLogs = FALSE
    MaxCalls = 4
    MaxForks = 1
    MaxSinks = 3
INVARIANTS
    TypeOK
    OneManager
    RegisteredSinksLive
PROPERTIES
    CallsReturn
    ImplementsLifecycle
CHECK_DEADLOCK FALSE
