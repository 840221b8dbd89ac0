SPECIFICATION Spec
CONSTANTS
    Magic <- MCMagic
    MinHeader = 6
    Huge = 1000
    Streams <- AllStreams
    MaxChunk = 25
INVARIANTS
    TypeOK
    CacheIsTail
    NoMagicCached
    NothingInvented
PROPERTIES
    AllFetched
CHECK_DEADLOCK FALSE
