CONSTANTS
    a = a
    b = b
    c = c
    Servers <- Two
    Connections = 2
    IsGraph = TRUE
    Requests <- Large
    NoServer = NoServer
    MaxTasks = 2
SPECIFICATION P2PSpec
INVARIANTS
    SegmentsCover
    ServerAskedOnce
