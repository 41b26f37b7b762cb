CONSTANTS
    NoItem = NoItem
    Items = {a, b}
    Preset = {a, b}
    Workers = {w1, w2}
    MaxConcurrent = 1
    Calls = {"queue_start", "queue_stop", "stop"}
    MaxCalls = 2
    MaxCrashes = 1
    MaxFailures = 0
    MaxProgress = 0
SPECIFICATION Spec
PROPERTIES
    QueuedIsStarted
    DownloadingEnds
CHECK_DEADLOCK FALSE
