SPECIFICATION FairSpec
CONSTANTS
    TcpToUartCap = 1
    UartToTcpCap = 1
    EventCap = 2
    RxBuf = 1
    TxBuf = 1
    SockBuf = 1
    MaxBody = 1
    MaxSockets = 1
    ResetEnabled = TRUE
    InKinds <- DataAndReset
    MaxIn = 3
    MaxWire = 1
    MaxOther = 0
    MaxClients = 1
PROPERTY
    NeverBacksUp
CHECK_DEADLOCK FALSE
