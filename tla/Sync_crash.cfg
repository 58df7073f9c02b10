CONSTANTS
    Hash <- MCHash
    Genesis = 0
    prevHash <- MCPrevHash
    height <- MCHeight
    StateBlocks = {}
    s2 = s2
    Sign <- MCSign
    signParent <- MCSignParent
    hashRank <- MCHashRank
    NoHash = NoHash
    RawDump = RawDump
    BatchSize = 2
    CrashPoints <- CrashOutsideDrop
    MaxCrashes = 2
    MaxReorgs = 1
    MaxFaults = 0
    MaxAlarms = 1
SPECIFICATION SyncSpec
INVARIANTS
    DbRecoverable
    HeadersInFile
PROPERTIES
    SavesDurableChain
