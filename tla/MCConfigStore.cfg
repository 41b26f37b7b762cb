SPECIFICATION FairConfigSpec
CONSTANTS
    Threads = {t1, t2}
    ScalarPaths <- MCScalarPaths
    ArrayPaths <- MCArrayPaths
    BadParents <- MCBadParents
    Values = {v1, v2}
    MaxCalls = 3
INVARIANTS
    ConfigTypeOK
    FileIsWhole
PROPERTIES
    ImplementsDurableDocument
CHECK_DEADLOCK FALSE
