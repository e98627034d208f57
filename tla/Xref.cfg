\* Files of up to four sections, read with any refusal of memory.
CONSTANTS
    Offsets <- MCOffsets
    Objects <- MCObjects
    Files <- MCFiles
    Stale <- MCStale
    InitialCapacity = 2
SPECIFICATION FairSpec
CHECK_DEADLOCK FALSE
INVARIANTS
    TypeOK
    NewestStreamWins
    NewestRevisionWins
    StreamFaultsTolerated
    NoPanicOnCoveredIndex
PROPERTIES
    EndsWithoutCycle
