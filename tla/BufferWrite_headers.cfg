SPECIFICATION Spec
CONSTANTS
    Mtus = {8}
    HeadLens = {2}
    MinMtu = 8
    ChecksumLen = 2
    SizetLen = 2
    SizeaLen = 1
    Int16Max = 127
    SplitMtus = {7}
    MaxChunk = 3
    MaxSaved = 12
    MaxDepth = 2
INVARIANTS
    HeadersIntact
CHECK_DEADLOCK FALSE
