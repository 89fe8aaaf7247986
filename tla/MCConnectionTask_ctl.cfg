SPECIFICATION FairSpec
CONSTANTS
    HwReqs <- TwoResets
    StatusReqs <- OneStatus
    InitialBackoff = 1
    MaxBackoff = 2
    CtlCap = 2
    TcpCap = 1
    PtyCap = 1
    MaxPty = 0
    MaxDev = 1
    MaxFailures = 1
INVARIANTS
    NoOrphanRequest
    PendingOnlyWhileConnected
PROPERTIES
    LifecycleSpec
    StatusAnswered
    HardwareTaken
    ShutdownCompletes
