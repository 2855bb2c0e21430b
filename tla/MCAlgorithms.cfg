SPECIFICATION AllSpec
CONSTANTS
    NoBid = NoBid
    Bid = {b1, b2, b3}
    Price = {0, 1, 2, 3}
    Score = {0, 1}
    Floor = 1
    Arms <- MCArms
    Reward = {0, 12, 24}
    MaxPlays = 4
    MaxCount = 2
    VariantSets <- MCVariantSets
INVARIANTS
    RunIsSecondPrice
    BiddingTheValueIsDominant
    AlignedScoresRunIsRun
    VerdictFollowsRates
    GreedyArmHasBestAverage
CHECK_DEADLOCK FALSE
