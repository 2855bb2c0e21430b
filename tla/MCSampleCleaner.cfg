SPECIFICATION Spec
CONSTANTS
    b1 = b1
    b2 = b2
    bad = bad
    NoId = NoId
    Bid <- MCBid
    Unreadable <- MCUnreadable
    Logs <- MCLogs
    Batch = 2
    MaxFaults = 1
INVARIANTS
    TypeOK
    AtMostOneLinePerJoin
    LabelsHaveEvents
PROPERTIES
    OnlyKillsLoseSamples
