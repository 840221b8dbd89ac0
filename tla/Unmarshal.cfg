SPECIFICATION Spec
CONSTANTS
    SizeaMod = 8
    Shapes <- MCShapes
    Sample <- MCSample
    Stale <- MCStale
    MaxReads = 2
INVARIANT TypeOK
PROPERTIES
    ReadsBack
    HonestAcrossClasses
    RefusedUntouched
CHECK_DEADLOCK FALSE
