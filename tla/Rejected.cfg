CONSTANTS
    t1 = t1
    t2 = t2
    Tx = {t1, t2}
    txs <- MCTxs
    Node = {n1, n2}
    Kinds = {"file", "network"}
    Count = 2
    MaxBlocks = 4
    MaxLast = 3
    MaxHistory = 2
    MaxFaults = 2
SPECIFICATION RjSpec
INVARIANTS
    CountedOnce
    NamedHaveDumps
PROPERTY
    RejectedIsFound
CHECK_DEADLOCK FALSE
