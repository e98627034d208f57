\* Nested objects in pieces of up to three bytes, texts cut off anywhere.
CONSTANTS
    Inputs <- MCInputs
    Capacity = 3
    MaxElements = 4
SPECIFICATION FairSpec
CHECK_DEADLOCK FALSE
INVARIANTS
    TypeOK
    ReadsWhatIsWritten
PROPERTIES
    EndsUnlessStuck
