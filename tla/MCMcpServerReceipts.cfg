\* What the README says of receipts: violated.
SPECIFICATION Spec
CONSTANTS
    Calls = {p1, p2}
    Actions = {act}
    IdempotentActions = {}
    JSON = {json}
    NotJSON = NotJSON
    Empty = Empty
    NoResult = NoResult
    MaxTime = 1
    NoSignature = NoSignature
    UserContracts = {}
    Operator = operator
    NoPrice = NoPrice
    NoKey = NoKey
    NoDoc = NoDoc
    NoArguments = NoArguments
    Spelling <- MCSpelling
INVARIANTS
    ReceiptsAreVerifiable
CHECK_DEADLOCK FALSE
