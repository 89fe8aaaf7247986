SPECIFICATION FairSpec
CONSTANTS
    TcpToUartCap = 1
    UartToTcpCap = 3
    EventCap = 2
    RxBuf = 3
    TxBuf = 1
    SockBuf = 1
    MaxBody = 1
    MaxSockets = 2
    ResetEnabled = FALSE
    InKinds <- DataOnly
    MaxIn = 0
    MaxWire = 3
    MaxOther = 0
    MaxClients = 2
PROPERTY
    UplinkFlows
CHECK_DEADLOCK FALSE
