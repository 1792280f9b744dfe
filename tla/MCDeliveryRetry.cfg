\* What a caller that is told to retry would repeat.
SPECIFICATION Spec
CONSTANTS
    Calls = {c1, c2}
    Actions = {act}
    IdempotentActions = {}
    JSON = {json1, json2}
    NotJSON = NotJSON
    Empty = Empty
    NoResult = NoResult
    MaxTime = 1
    Contracts = {ct}
    Keys = {kp, kc}
    NoSignature = NoSignature
    NoReceipt = NoReceipt
    Provider = provider
    Consumer = consumer
    Amounts = {1, 2}
    MaxSettlements = 2
INVARIANTS
    RetryIsSafe
CHECK_DEADLOCK FALSE
