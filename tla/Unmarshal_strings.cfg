SPECIFICATION Spec
CONSTANTS
    SizeaMod = 8
    Shapes <- MCShapes
    Sample <- MCSample
    Stale <- MCStale
    MaxReads = 2
PROPERTIES
    StringsReadBack
CHECK_DEADLOCK FALSE
