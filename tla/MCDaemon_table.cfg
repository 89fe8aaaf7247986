SPECIFICATION FairSpec
CONSTANTS
    a = a
    b = b
    c1 = c1
    Names <- TwoNames
    Clients <- OneClient
    EventCap = 3
    MaxTasks = 3
    MaxCmds = 4
INVARIANTS
    UniqueNames
    DeadAnnounced
    AnsweredOnce
PROPERTIES
    CommandsAnswered
    DeadUnlisted
