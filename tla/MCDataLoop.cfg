SPECIFICATION FairLoopSpec
CONSTANTS
    b1 = b1
    b2 = b2
    NoId = NoId
    Bid <- MCBid
    Unreadable = {}
    Logs <- MCLogs
    Batch = 1
    MaxFaults = 1
    Threshold = 2
    MaxSamples = 3
    BatchSize = 16
INVARIANTS
    TrainedAtMostOnce
    TrainingWaitsForThreshold
    AtMostOneLateFlush
PROPERTIES
    FullFileIsArchived
