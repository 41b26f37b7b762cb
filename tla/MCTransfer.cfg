SPECIFICATION Spec
CONSTANTS
    p1 = p1
    p2 = p2
    Nobody = Nobody
    MaxFaults = 1
    MaxChanges = 1
    MaxCalls = 2
    Total = 3
    ChunkSize = 2
    MaxRedirects = 1
    MaxRuns = 3
    Text <- Playlists
    Root = "master"
    PageList <- Pieces
    Size = 3
    Proxies = {p1, p2}
    Direct = Direct
    Hosts <- Domains
    Lists <- NoProxy
    Processes = {p1}
    Machine <- Bits
    SequenceMask = 1
    MaxTime = 3
    MaxSteps = 2
    FileJobs = {p1, p2}
    Others = Others
    MaxName = 2
    MaxFileFaults = 2
    Urls = {p1, p2}
    MaxEdits = 3
    Cap = 3
    Batch = 2
    MaxEntries = 3
    MaxLines = 5
    MaxUpsets = 2
    Requests = {p1}
    Local = p1
    Addresses = {p1, p2}
    SessionIds = {1, 2}
    Nothing = Nothing
    MaxSwitches = 3
    Items = {p1}
    Guis = {p1, p2}
    MaxTries = 1
    MaxStarts = 2
INVARIANTS
    FinishedIsWhole
    StoredIsTrue
    OneOfEach
    ClientsAreRight
PROPERTIES
    NothingIsSpoilt
    TransfersEnd
    ClientsCatchUp
CHECK_DEADLOCK FALSE
