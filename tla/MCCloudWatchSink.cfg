SPECIFICATION Spec
CONSTANTS
    l1 = l1
    l2 = l2
    l3 = l3
    s1 = s1
    s2 = s2
    Logs = {l1, l2, l3}
    Streams = {s1, s2}
    NoStream = NoStream
    NoLog = NoLog
    StreamOf <- TwoStreams
    Limit = 2
    LambdaStream = s1
    MaxForks = 1
INVARIANTS
    TypeOK
    FlushComplete
    WorkerOwnsLiveSink
    NoOrphanLock
    CachedStreamsExist
PROPERTIES
    LoopSendsOnce
    ChildNeverResends
    ImplementsDelivery
