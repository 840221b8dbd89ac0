SPECIFICATION Spec
CONSTANTS
    Magic <- MCMagic
    MinHeader = 6
    Huge = 1000
    Streams <- CleanStreams
    MaxChunk = 25
INVARIANTS
    MoreIsAsked
CHECK_DEADLOCK FALSE
