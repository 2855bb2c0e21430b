SPECIFICATION Spec
CONSTANTS
    Experiment = {1, 2}
    Ratio = {0, 29, 30, 100}
    Null = Null
    RequestId <- MCRequestId
    Bucket <- MCBucket
    MaxEdits = 2
    NoAssignment = NoAssignment
    NoRows = NoRows
INVARIANTS
    TypeOK
PROPERTIES
    ListCatchesUp
    RampUpKeepsTreatment
    LaterExperimentsDoNotDisturb
