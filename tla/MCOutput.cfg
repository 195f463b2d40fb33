SPECIFICATION Spec
CONSTANTS
    Uninitialised <- Leftovers
    Malformed <- Bad
    ThreadId = "thread"
    SinkName <- Names
    Streams <- StreamNames
    Settings <- Options
    LevelSettings <- Levels
    LevelSpellings <- Spellings
    TagLists <- Lists
    LoggedRecords <- Logs
    SdkLevels = {0, 1, 4, 6}
    SdkMessagesOf <- Messages
    GlobalContext <- Process
    MaxSinks = 2
    MaxEdits = 5
    SdkEdits = 3
INVARIANTS
    TypeOK
    EveryLogWritten
    FormatsAgree
    OptionsHonoured
    LinesInTheirColor
    ComplainsOnce
    GateAgrees
    Sanitized
    FailureAnnounced
CHECK_DEADLOCK FALSE
