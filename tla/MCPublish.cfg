SPECIFICATION Spec
CONSTANTS
    r1 = r1
    r2 = r2
    r3 = r3
    a1 = a1
    a2 = a2
    Request = {r1, r2, r3}
    IdOf <- OneId
    Malformed = {}
    NoImp = {}
    Ad = {a1}
    BidPrice <- MCBidPrice
    ECPM = {7}
    Recalls <- OneAd
    LLMAnswers <- OneAnswer
    Absent = Absent
    NoBid = NoBid
    Floor = 6
    QueueCap = 1
    FlightCap = 1
    Retries = 1
    StartUps <- Publishing
    MaxStarts = 1
    Experiment = {}
    Ratio = {50}
    Null = Null
    RequestId <- MCRequestId
    Bucket <- MCBucket
    MaxEdits = 0
    NoAssignment = NoAssignment
    NoRows = NoRows
INVARIANTS
    TypeOK
    ImpressionsAccounted
PROPERTIES
    Answered
    ImpressionsDrain
