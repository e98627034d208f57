\* Three extractions and a metadata call share one slot.
CONSTANTS
    e1 = e1
    e2 = e2
    s1 = s1
    m1 = m1
    Extracts <- MCExtracts
    Streams <- MCStreams
    Metadatas <- MCMetadatas
    MaxConcurrentPDFs = 1
SPECIFICATION FairSpec
CHECK_DEADLOCK FALSE
INVARIANTS
    SlotsAccounted
PROPERTIES
    EveryCallEnds
