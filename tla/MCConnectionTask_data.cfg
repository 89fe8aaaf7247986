SPECIFICATION FairSpec
CONSTANTS
    HwReqs <- OneReset
    StatusReqs <- NoRequest
    InitialBackoff = 1
    MaxBackoff = 3
    CtlCap = 2
    TcpCap = 1
    PtyCap = 1
    MaxPty = 2
    MaxDev = 0
    MaxFailures = 2
INVARIANTS
    NothingDropped
    SessionMatchesState
PROPERTY
    MessageSent
