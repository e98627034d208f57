\* Strict mode with a character limit; the consumer may leave.
CONSTANTS
    w1 = w1
    w2 = w2
    Workers <- MCWorkers
    Total = 3
    Modes = {"strict"}
    MaxRetries = 0
    MemLimit = 3
    MaxTotalChars = 3
    Docs <- StreamDocs
SPECIFICATION FairSpec
CHECK_DEADLOCK FALSE
INVARIANTS
    ClosedAfterRelease
PROPERTIES
    ImplementsOrderedOutput
    StreamEnds
