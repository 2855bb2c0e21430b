SPECIFICATION FairSpec
CONSTANTS
    Ad = {a1, a2}
    NoAd = NoAd
    SeedAd = {a1}
    Count = 1
    MaxRaw = 2
    MaxRuns = 1
    MaxVersion = 2
    MaxNow = 2
    MaxSeeds = 1
    MaxFaults = 1
INVARIANTS
    TypeOK
    EditsAreNotLost
    AgentKeepsItsQuota
PROPERTIES
    IndexContract
    TextsReachTheIndex
CHECK_DEADLOCK FALSE
