SPECIFICATION FairSpec
CONSTANTS
    m1 = m1
    m2 = m2
    m3 = m3
    A = A
    B = B
    C = C
    x = x
    y = y
    Message = {m1, m2, m3}
    Types = {A, B, C}
    TID = {x, y}
    NoTypes = NoTypes
    TypesOf <- MCTypesOf
    TIDOf <- MCTIDOf
    Count <- MCCount
    PayloadLen <- MCPayloadLen
    LastLen <- MCLastLen
    Int16Max = 127
    Magic <- MCMagic
    MinHeader = 5
    Huge = 1000
    Streams <- AllStreams
    Known = {A, B}
    Mtu = 22
    MaxReads = 3
INVARIANTS
    TypeOK
    CacheIsTail
    WaitsForMore
    KeptInOrder
PROPERTIES
    ImplementsDelivery
    ReturnsOrStuck
CHECK_DEADLOCK FALSE
