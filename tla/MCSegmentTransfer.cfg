CONSTANTS
    Total = 5
    Chunk = 2
    Concurrency = 2
    DrainMax = 1
    MaxRetries = 2
    MaxFaults = 1
    MaxRuns = 2
SPECIFICATION Spec
INVARIANTS
    SlotsAreSound
    CompletedSegmentsAreWhole
CHECK_DEADLOCK FALSE
