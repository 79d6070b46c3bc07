SPECIFICATION FairSpec
CONSTANTS
    NoLine = NoLine
    Requests <- AllTypes
    InitCommands <- OneCommand
    MayTimeOut = TRUE
    MayCut = TRUE
    AnswersInPause = FALSE
    RetryCount = 2
    MaxSessions = 2
    MaxCommands = 3
    MaxUnsolicited = 1
INVARIANTS
    ResponseHasWaiter
    OwnAnswer
PROPERTIES
    CommandEnds
    HangUpReopens
CHECK_DEADLOCK FALSE
