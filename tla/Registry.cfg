SPECIFICATION FairSpec
CONSTANTS
    v1 = v1
    v2 = v2
    v3 = v3
    w = w
    u = u
    F = F
    G = G
    NoClass = NoClass
    Class = {v1, v2, v3, w, u}
    Family = {F, G}
    FamilyOf <- MCFamilyOf
    ProgenyOf <- MCProgenyOf
    LayoutOf <- OwnLayouts
    Decorates <- MCDecorates
    Sent = {v1, w}
INVARIANTS
    TypeOK
    MigratesWhenItCan
    ChainIsHonest
    FiledIsReadable
PROPERTIES
    ReadableStays
    DecorateEnds
