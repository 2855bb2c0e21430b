SPECIFICATION Spec
CONSTANTS
    r1 = r1
    r2 = r2
    r3 = r3
    a1 = a1
    a2 = a2
    Request = {r1, r2}
    IdOf <- OwnIds
    Malformed = {}
    NoImp = {r2}
    Ad = {a1}
    BidPrice <- MCBidPrice
    ECPM = {7}
    Recalls <- OneAd
    LLMAnswers <- OneAnswer
    Absent = Absent
    NoBid = NoBid
    Floor = 6
    QueueCap = 1
    FlightCap = 1
    Retries = 1
    StartUps <- Routing
    MaxStarts = 2
    Experiment = {1}
    Ratio = {20}
    Null = Null
    RequestId <- MCRequestId
    Bucket <- MCBucket
    MaxEdits = 1
    NoAssignment = NoAssignment
    NoRows = NoRows
INVARIANTS
    VariantDecidesScorer
PROPERTIES
    ExchangeContract
