SPECIFICATION FairSpec
CONSTANTS
    Campaign = {c1}
    Price = {1}
    MaxAmount = 2
    Key = {k1}
    Caller = {r1, r2}
    Limit = 2
    Window = 2
    Retries = 1
    MaxLate = 1
    Arm = {m1}
    NoCampaign = NoCampaign
INVARIANTS
    TypeOK
    CapHolds
    CountersHaveWindows
PROPERTIES
    RefusedStaysRefused
    WindowsEnd
