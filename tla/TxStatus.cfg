CONSTANTS
    c1 = c1
    Contract = {c1}
    Chains <- MCChains
    MainCapacity = 1
    ScriptCapacity = 1
    Keep = 3
    MaxFaults = 1
    MaxCrashes = 1
SPECIFICATION TsSpec
INVARIANTS
    AttributesRecent
    StatusMatchesState
PROPERTIES
    StatusKept
    AllWritten
CHECK_DEADLOCK FALSE
