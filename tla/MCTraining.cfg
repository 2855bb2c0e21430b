SPECIFICATION LoopSpec
CONSTANTS
    b1 = b1
    b2 = b2
    NoId = NoId
    Bid <- MCBid
    Unreadable = {}
    Logs <- MCFive
    Batch = 5
    MaxFaults = 0
    Threshold = 5
    MaxSamples = 5
    BatchSize = 16
INVARIANTS
    ConsumedSamplesAreTrainedOn
