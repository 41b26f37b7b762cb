CONSTANTS
    NoItem = NoItem
    Items = {a}
    Preset = {a}
    Workers = {w1}
    MaxConcurrent = 1
    Calls = {"start", "restart"}
    MaxCalls = 2
    MaxCrashes = 1
    MaxFailures = 0
    MaxProgress = 0
SPECIFICATION Spec
PROPERTIES
    DownloadsSurvive
CHECK_DEADLOCK FALSE
