CONSTANTS
    MaxByte = 5
    ChunkSizes = {1, 2, 4}
    Total = 4
    Chunk = 2
    Concurrency = 2
    DrainMax = 1
    MaxRetries = 2
    MaxFaults = 2
    MaxRuns = 2
SPECIFICATION RangesAndJobSpec
INVARIANTS
    ExactRanges
    LoadRestores
    SelectionSound
    ReservationSound
    ContentBeforeState
PROPERTIES
    SavedProgressStays
    JobEnds
CHECK_DEADLOCK FALSE
