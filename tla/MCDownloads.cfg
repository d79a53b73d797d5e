SPECIFICATION Spec
CONSTANTS
    Function <- Message
    Asking <- MCAsking
    NoDialog = NoDialog
    UserDialog = UserDialog
    MaxQueue = 1
    LastTab = 1
    MaxDownloads = 2
    MaxBefore = 0
    MaxChunks = 1
    MaxSwitches = 1
    MaxCrashes = 1
INVARIANTS
    TypeOK
    ProxyKnown
    SoleDownloadExact
    SaveTargetKept
PROPERTIES
    StopWorks
