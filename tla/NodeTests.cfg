CONSTANTS
    Node = {1, 2}
    Chains <- MCChains
    NoGeo = 0
    MinTests = {1, 2}
    CountGroups = 5
    IntModulus = 16
    SizeModulus = 32
    MaxFaults = 1
    MaxCrashes = 1
SPECIFICATION NtSpec
INVARIANTS
    TablesComplete
    RatingOfOneDay
    LastResultOfToday
    GroupsAsInLoop
