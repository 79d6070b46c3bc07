SPECIFICATION FileSpec
CONSTANTS
    e1 = e1
    e2 = e2
    b1 = b1
    p1 = p1
    p2 = p2
    q1 = q1
    Actions = {e1, e2, b1, p1, p2, q1}
    Root = Root
    NoNode = NoNode
    NoValue = NoValue
    Props = {"p", "q"}
    Values = {"1", "2"}
    Events = {"early-init", "init", "early-boot", "boot"}
    ActionList <- Files6
    TriggerOf <- FewTriggers
    Files <- AllFiles
    InitRcs <- WrittenFiles
    Unescapable = {"trigger", "restart", "raw"}
    SVC_MAXARGS = 6
    NR_SVC_SUPP_GIDS = 1
    NameMax = 2
    NameSymbols = {"s", "u"}
    Loaded <- NothingLoaded
    ClientSets <- AnyClients
    MaxDepth = 4
INVARIANTS
    QueueIntact
    TriggeredHaveRun
    ReadAsWritten
PROPERTIES
    DrainsFinish
CHECK_DEADLOCK FALSE
