\* A failed page in best-effort mode.
CONSTANTS
    w1 = w1
    w2 = w2
    Workers <- MCWorkers
    Total = 2
    Modes = {"best-effort"}
    MaxRetries = 0
    MemLimit = 3
    MaxTotalChars = 0
    Docs <- FailDocs
SPECIFICATION Spec
CHECK_DEADLOCK FALSE
INVARIANT SkipsOnlyTheFailedPage
