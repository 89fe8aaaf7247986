SPECIFICATION Spec
CONSTANTS
    TcpToUartCap = 1
    UartToTcpCap = 1
    EventCap = 2
    RxBuf = 1
    TxBuf = 1
    SockBuf = 1
    MaxBody = 1
    MaxSockets = 1
    ResetEnabled = TRUE
    InKinds <- AllKinds
    MaxIn = 3
    MaxWire = 1
    MaxOther = 1
    MaxClients = 2
INVARIANT
    ResetAnsweredAfterPulse
CHECK_DEADLOCK FALSE
