\* Both modes, a character limit, one retry, a budget two pages can exhaust.
CONSTANTS
    w1 = w1
    w2 = w2
    Workers <- MCWorkers
    Total = 3
    Modes <- BothModes
    MaxRetries = 1
    MemLimit = 5
    MaxTotalChars = 3
    Docs <- AllDocs
SPECIFICATION FairSpec
CHECK_DEADLOCK FALSE
INVARIANTS
    TypeOK
    OutputInOrder
    LimitRespected
    SendNeverBlocks
    StrictSuccessIsTotal
    StopsOnlyAtEmptyPage
    ResetAfterWorkers
    PageInOnePlace
PROPERTIES
    ImplementsOrderedOutput
    ReturnsAndWorkersExit
