CONSTANTS
    a = a
    b = b
    c = c
    Servers <- Two
    Connections = 1
    IsGraph = FALSE
    Requests <- Mixed
    NoServer = NoServer
    MaxTasks = 3
SPECIFICATION FairP2PSpec
INVARIANTS
    ResultIsTrue
    CallbackInTask
    EraseOnce
PROPERTIES
    RequestReturns
