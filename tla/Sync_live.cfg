CONSTANTS
    Hash <- MCHash
    Genesis = 0
    prevHash <- MCPrevHash
    height <- MCHeight
    StateBlocks = {}
    s2 = s2
    Sign <- MCSign
    signParent <- MCSignParent
    hashRank <- MCHashRank
    NoHash = NoHash
    RawDump = RawDump
    BatchSize = 2
    CrashPoints <- CrashAnywhere
    MaxCrashes = 2
    MaxReorgs = 0
    MaxFaults = 0
    MaxAlarms = 0
SPECIFICATION FairSyncSpec
INVARIANTS
    WorkerOnChain
PROPERTIES
    WorkerContiguous
    CatchesUp
