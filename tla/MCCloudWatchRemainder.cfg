SPECIFICATION Spec
CONSTANTS
    l1 = l1
    l2 = l2
    l3 = l3
    s1 = s1
    s2 = s2
    Logs = {l1, l2, l3}
    Streams = {s1, s2}
    NoStream = NoStream
    NoLog = NoLog
    StreamOf <- TwoStreams
    LambdaStream = s2
    Limit = 2
    MaxForks = 0
INVARIANT
    SentOnce
