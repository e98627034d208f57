\* Four values of a byte, codes of two bytes, seven keywords with one out of order.
CONSTANTS
    ByteSize = 4
    MaxCode = 2
    Encodings <- MCEncodingSet
    KnownNames = {"A", "B"}
    OperandRuns <- MCOperandRuns
    Texts <- MCTexts
    MaxKeywords = 7
    MaxOdd = 1
SPECIFICATION Spec
CHECK_DEADLOCK FALSE
INVARIANTS
    TypeOK
    DecodesAsListed
