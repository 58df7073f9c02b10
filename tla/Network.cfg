CONSTANTS
    Servers = {n1, n2}
    Configs <- PassConfigs
    CountAdvancedBlocks = 2
    MaxAdvancedLoad = 3
    BlocksInBatch = 2
    PreloadBlocks = 2
    PreloadSlack = 1
    MaxFaults = 1
    MaxRestarts = 1
SPECIFICATION NsSpec
INVARIANTS
    NothingRefused
    HonestDumpsPass
PROPERTIES
    ImplementsReplica
    KeepsUp
CHECK_DEADLOCK FALSE
