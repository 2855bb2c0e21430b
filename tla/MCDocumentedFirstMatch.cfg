SPECIFICATION Spec
CONSTANTS
    Experiment = {1, 2}
    Ratio = {29, 50}
    Null = Null
    RequestId <- MCRequestId
    Bucket <- MCBucket
    MaxEdits = 0
    NoAssignment = NoAssignment
    NoRows = NoRows
INVARIANT
    DocumentedFirstMatch
