SPECIFICATION Spec
CONSTANTS
    Ids = {i1, i2}
    Names = {n1, n2}
    Urls = {u1}
    OldUrl = u0
    Rands = {1, 2}
    MaxFaults = 2
    MaxSecond = 1
    MaxQueues = 2
INVARIANTS
    RecordsAgree
PROPERTIES
    NoOrphans
SYMMETRY Symmetry
