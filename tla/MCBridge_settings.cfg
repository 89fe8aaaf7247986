SPECIFICATION BridgeFairSpec
CONSTANTS
    HwReqs = {}
    StatusReqs = {}
    InitialBackoff = 1
    MaxBackoff = 1
    CtlCap = 1
    TcpCap = 2
    PtyCap = 1
    MaxPty = 0
    MaxDev = 0
    MaxFailures = 1
    Lines <- MCLines
    InitialLine <- Fresh
    MaxSets = 2
    MaxWrites = 1
    MaxOther = 1
INVARIANTS
    PtyTypeOK
    NoMissedChange
    SettingKept
PROPERTIES
    DataMeetsItsSettings
    SettingsConverge
CHECK_DEADLOCK FALSE
