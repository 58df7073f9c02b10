CONSTANTS
    w1 = w1
    w2 = w2
    tk = tk
    w0 = w0
    Wallet <- MCWallet
    InitialWallet = w0
    Token = {tk}
    Chains <- MCChains
    Modulus = 8
    CounterModulus = 64
    Modules = {"block", "balance", "txs", "addr_txs"}
    ValidateState = TRUE
    MaxFaults = 1
    MaxCrashes = 1
SPECIFICATION LdSpec
INVARIANTS
    DelegationsBacked
    MoneyConserved
    TokenSupply
    HistoryComplete
    HonestStateAccepted
PROPERTIES
    ImplementsAccounts
