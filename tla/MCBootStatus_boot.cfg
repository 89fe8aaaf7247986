SPECIFICATION BootFairSpec
CONSTANTS
    Networks = 2
    MaxRetries = 2
    MaxRestarts = 1
    MaxDrops = 1
    QueueCap = 2
    TickMs = 2
    BriefMs = 2
    FlashMs = 4
    ClientMs = 6
    ResetMs = 3
    LongMs = 8
    SolidMs = 10
    Tailscale = TRUE
    RebootMs = 14
    MaxHeld = 1
    MaxPosts = 2
INVARIANTS
    BootTypeOK
    CyclesBeforeRetry
    NoSilentGiveUp
    LitHasTimer
    
PROPERTIES
    BootRecovers
    ShownBeforeRestart
CHECK_DEADLOCK FALSE
