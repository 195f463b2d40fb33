SPECIFICATION Spec
CONSTANTS
    a = a
    b = b
    all = all
    s = s
    t = t
    u = u
    NoStamp = NoStamp
    Channels = {a, b}
    Combined = all
    Modes <- Both
    Stamped = TRUE
    Stamps = {s, t, u}
    Apart = TRUE
    SizePerFile = 1
    NoLimit <- MinusOne
    MaxFiles = 1
    MaxLogs = 7
    MaxStarts = 2
SYMMETRY Swaps
INVARIANTS
    TypeOK
    SizeBound
    LastFileGetsOneLog
PROPERTY
    ImplementsRecordLog
CHECK_DEADLOCK FALSE
