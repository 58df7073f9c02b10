CONSTANTS
    Hash <- MCHash
    Genesis = 0
    prevHash <- MCPrevHash
    height <- MCHeight
    StateBlocks <- MCStateBlocks
SPECIFICATION BcSpec
INVARIANTS
    BcTypeOK
    NumbersAgree
    ChainLinked
    LastStateBlockInRange
    RestartSucceeds
PROPERTY NumbersStable
