\* Five objects; trees with any Counts, cycles, packed objects, outlines.
CONSTANTS
    Ids <- MCIds
    Files <- MCFiles
    Fonts = {"a", "b"}
    Names = {"F1", "F2"}
    OutlineBudget = 6
SPECIFICATION FairSpec
CHECK_DEADLOCK FALSE
INVARIANTS
    TypeOK
    InTreeOrder
    FoundThroughExtends
    OwnFontsUnlessShadowed
PROPERTIES
    EndsWithoutCycle
