SPECIFICATION Spec
CONSTANTS
    t1 = t1
    t2 = t2
    l1 = l1
    Threads <- ThreadSet
    Loggers <- LoggerSet
    Names <- NameSet
    Levels <- LevelSet
    Keys <- KeySet
    MaxChannels = 3
    MaxCalls = 4
    MaxForks = 1
SYMMETRY Symmetry
CHECK_DEADLOCK FALSE
INVARIANTS
    TypeOK
    Sharing
    LevelsFollowDefault
    DecidedWhenMade
    WholeContexts
    OnlyOverlapLoses
    MostLocalWins
