CONSTANTS
    Total = 4
    Chunk = 2
    Concurrency = 2
    DrainMax = 1
    MaxRetries = 2
    MaxFaults = 2
    MaxRuns = 2
SPECIFICATION Spec
INVARIANTS
    CompletedIsWhole
CHECK_DEADLOCK FALSE
