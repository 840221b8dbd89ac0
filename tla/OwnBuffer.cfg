SPECIFICATION Spec
CONSTANTS
    m1 = m1
    m2 = m2
    m3 = m3
    m4 = m4
    A = A
    B = B
    x = x
    y = y
    Message = {m1, m2, m3, m4}
    Types = {A, B}
    TID = {x, y}
    NoTypes = NoTypes
    TypesOf <- MCTypesOf
    TIDOf <- MCTIDOf
    Count <- MCCount
    PayloadLen <- MCPayloadLen
    LastLen <- MCLastLen
    Int16Max = 3
    Overhead = 4
    SplitMtus = {4, 6, 9}
    MaxDump = 3
    MaxBytes = 8
INVARIANTS
    TypeOK
    ZeroIsWhole
    ReadsMessage
    CompleteNeverFaults
CHECK_DEADLOCK FALSE
