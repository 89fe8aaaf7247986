SPECIFICATION FairSpec
CONSTANTS
    TcpToUartCap = 1
    UartToTcpCap = 2
    EventCap = 1
    RxBuf = 2
    TxBuf = 1
    SockBuf = 1
    MaxBody = 1
    MaxSockets = 2
    ResetEnabled = FALSE
    InKinds <- DataOnly
    MaxIn = 2
    MaxWire = 3
    MaxOther = 0
    MaxClients = 2
INVARIANTS
    TypeOK
    NoLostWakeup
    BytesInOrder
    NoStrandedBytes
PROPERTIES
    UplinkFlowsUncut
    NeverBacksUp
    NextServed
CHECK_DEADLOCK FALSE
