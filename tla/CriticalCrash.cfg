SPECIFICATION CounterSpec
CONSTANTS
    CrashThreshold = 4
    CrashWindow = 4
    LastSecond = 11
    MaxExits = 10
INVARIANTS
    NoSpuriousRecovery
    BoundedTolerance
CHECK_DEADLOCK FALSE
