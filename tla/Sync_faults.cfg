CONSTANTS
    Hash <- MCHash
    Genesis = 0
    prevHash <- RootsPrevHash
    height <- RootsHeight
    StateBlocks = {}
    s2 = s2
    Sign <- MCSign
    signParent <- MCSignParent
    hashRank <- MCHashRank
    NoHash = NoHash
    RawDump = RawDump
    BatchSize = 2
    CrashPoints <- CrashAnywhere
    MaxCrashes = 1
    MaxReorgs = 2
    MaxFaults = 1
    MaxAlarms = 0
SPECIFICATION SyncSpec
INVARIANTS
    LoadedChainIntact
