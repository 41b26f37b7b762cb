SPECIFICATION PoolAndFileSpec
CONSTANTS
    WorkerCount = 3
    MaxTasks = 3
    BufferSize = 2
    Offsets = {0, 3}
    MaxLen = 3
    MaxBytes = 5
INVARIANTS
    Fifo
    WorkIsNoticed
    NothingDropped
    NoBufferRace
    NothingLost
    ReturnIsTrue
    NoUseAfterFree
PROPERTIES
    TasksFinish
    CallsReturn
    ImplementsOrderedWriter
CHECK_DEADLOCK FALSE
