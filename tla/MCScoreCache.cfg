SPECIFICATION FairSpec
CONSTANTS
    Ad = {a1, a2}
    ECPM = {1, 2}
    Absent = Absent
    NoAd = NoAd
    TTL = 4
    Interval = 1
    MaxCycle = 1
INVARIANTS
    TypeOK
    PausedAdsLeave
    SteadyAdsAreCached
PROPERTIES
    StoreContract
    Converges
