SPECIFICATION Spec
CONSTANTS
    t1 = t1
    t2 = t2
    w = w
    Threads = {t1, t2}
    Worker = w
    AwsLogs = TRUE
    MaxCalls = 3
    MaxForks = 0
    MaxSinks = 3
INVARIANT
    NoSelfJoin
CHECK_DEADLOCK FALSE
