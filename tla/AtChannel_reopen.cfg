SPECIFICATION Spec
CONSTANTS
    NoLine = NoLine
    Requests <- OneCommand
    InitCommands <- OneCommand
    MayTimeOut = FALSE
    MayCut = FALSE
    AnswersInPause = FALSE
    RetryCount = 2
    MaxSessions = 2
    MaxCommands = 4
    MaxUnsolicited = 0
INVARIANTS
    NoNullResponse
