SPECIFICATION Spec
CONSTANTS
    a = a
    b = b
    c1 = c1
    Names <- OneName
    Clients <- OneClient
    EventCap = 4
    MaxTasks = 2
    MaxCmds = 3
PROPERTIES
    ClosedRemovesClosed
