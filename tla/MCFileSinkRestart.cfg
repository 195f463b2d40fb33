SPECIFICATION Spec
CONSTANTS
    a = a
    b = b
    all = all
    s = s
    t = t
    u = u
    NoStamp = NoStamp
    Channels = {a, b}
    Combined = all
    Modes <- Both
    Stamped = FALSE
    Stamps = {s}
    Apart = FALSE
    SizePerFile = 1
    NoLimit <- MinusOne
    MaxFiles <- MinusOne
    MaxLogs = 7
    MaxStarts = 3
INVARIANT
    OneStartPerFile
CHECK_DEADLOCK FALSE
