SPECIFICATION MCSpec
CONSTANTS
    Procs = {p1, p2}
    Nobody = Nobody
    MaxCommands = 3
    Clients = {c1, c2}
    KindsOf <- MCKinds
    c1 = c1
    c2 = c2
    Viewers = {v1, v2}
    MaxContent = 1
    MaxFaults = 1
    Resync = 2
INVARIANTS
    OneDaemon
    OnceUnlessLost
    ForcedExactlyInside
PROPERTIES
    QuietAfterStop
    EverythingReturns
    ViewsConverge
CHECK_DEADLOCK FALSE
