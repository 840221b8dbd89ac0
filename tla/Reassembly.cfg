SPECIFICATION FairSpec
CONSTANTS
    m1 = m1
    m2 = m2
    m3 = m3
    A = A
    B = B
    x = x
    y = y
    Message = {m1, m2, m3}
    Types = {A, B}
    TID = {x, y}
    NoTypes = NoTypes
    TypesOf <- MCTypesOf
    TIDOf <- MCTIDOf
    Count <- MCCount
    PayloadLen <- MCPayloadLen
    LastLen <- MCLastLen
    Int16Max = 127
    Known = {A}
    Late = {B}
    Repeated = {m1}
    MaxDelivered = 2
INVARIANTS
    TypeOK
    DeliveredWhole
    AtMostOnce
    WantedIsMissing
PROPERTIES
    ComesOut
    ImplementsDelivery
CHECK_DEADLOCK FALSE
