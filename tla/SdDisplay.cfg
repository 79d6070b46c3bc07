SPECIFICATION Spec
CHECK_DEADLOCK FALSE
CONSTANTS
    Null = Null
    Words = 2
    Blocks = 2
    FifoDepth = 2
    OcrTries = 2
    Scenarios <- MCScenarios
    FatBase = 3
    RootBase = 2
    DirOffset = 4
    FileOffset = 3
    EndOfChain = 65535
INVARIANTS
    TransfersWhole
    PictureIsFile

    
