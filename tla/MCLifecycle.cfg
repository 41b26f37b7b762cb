CONSTANTS
    NoItem = NoItem
    Items = {a, b}
    Preset = {a}
    Workers = {w1, w2}
    MaxConcurrent = 1
    Calls = {"add", "pause", "resume", "start", "stop", "restart", "remove", "queue_start", "queue_stop"}
    MaxCalls = 3
    MaxCrashes = 1
    MaxFailures = 1
    MaxProgress = 1
SPECIFICATION Spec
CONSTRAINT LastIsForOne
SYMMETRY Alike
INVARIANTS
    ListIsSound
CHECK_DEADLOCK FALSE
