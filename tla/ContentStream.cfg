\* Programs of up to four keywords, in two streams.
CONSTANTS
    Fonts = {"F1", "F2"}
    Codes = {"a", "b"}
    Runs <- MCRuns
    Keywords <- MCKeywords
    MaxKeywords = 4
    MaxStreams = 2
SPECIFICATION Spec
CHECK_DEADLOCK FALSE
INVARIANTS
    TypeOK
    SameText
    ResultsKeepText
    DecodedByItsFont
    ChecksNest
