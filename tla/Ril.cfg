SPECIFICATION Spec
CHECK_DEADLOCK FALSE
CONSTANTS
    Null = Null
    Conns = {"p1", "p2", "s"}
    MAX_FD_EVENTS = 4
    Blocks = {1, 2, 3}
    Requests = {1, 2, 3, 4}
    Scenarios <- MCScenarios
INVARIANTS
    OneClientServed
    LoopSurvives
    NoLostWakeup
    LockReleased
PROPERTIES
    ClientServed
