SPECIFICATION Spec
CONSTANTS
    Mtus = {8, 9}
    HeadLens = {2, 6, 9}
    MinMtu = 8
    ChecksumLen = 2
    SizetLen = 2
    SizeaLen = 1
    Int16Max = 127
    SplitMtus = {5, 7, 11}
    MaxChunk = 3
    MaxSaved = 11
    MaxDepth = 2
INVARIANTS
    TypeOK
    StreamInPlace
    SizeIsSaved
    SealedIsParsable
PROPERTIES
    RecutKeepsPayload
CHECK_DEADLOCK FALSE
