SPECIFICATION SessionSpec
CONSTANTS
    B = 10
    CliRequests <- MCRequests
    Paths <- MCPaths
    ListedInfos <- MCInfos
    TextLen = 3
    HostMessages <- MCHostMessages
    Inputs <- MCInputs
    MaxSent = 2
    MaxInputs = 1
INVARIANTS
    SessionTypeOK
    StreamsIntact
    BrokenOnlyIfCut
    ToolShowsVerdict
    ToolNotStranded
    AllArrive
CHECK_DEADLOCK FALSE
