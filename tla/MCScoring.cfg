SPECIFICATION Spec
CONSTANTS
    r1 = r1
    r2 = r2
    r3 = r3
    a1 = a1
    a2 = a2
    Request = {r1, r2}
    IdOf <- OwnIds
    Malformed = {r2}
    NoImp = {}
    Ad = {a1, a2}
    BidPrice <- MCBidPrice
    ECPM = {5, 7}
    Recalls <- AllRecalls
    LLMAnswers <- AllAnswers
    Absent = Absent
    NoBid = NoBid
    Floor = 5
    QueueCap = 1
    FlightCap = 1
    Retries = 1
    StartUps <- AllStartUps
    MaxStarts = 1
    Experiment = {1}
    Ratio = {60}
    Null = Null
    RequestId <- MCRequestId
    Bucket <- MCBucket
    MaxEdits = 0
    NoAssignment = NoAssignment
    NoRows = NoRows
INVARIANTS
    WinnerIsSound
    AlignedScorersSettleSecondPrice
