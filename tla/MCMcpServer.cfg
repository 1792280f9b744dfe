\* Two processes, each started by a tool or from a shell.
SPECIFICATION FairSpec
CONSTANTS
    Calls = {p1, p2}
    Actions = {act}
    IdempotentActions = {}
    JSON = {json}
    NotJSON = NotJSON
    Empty = Empty
    NoResult = NoResult
    MaxTime = 1
    NoSignature = NoSignature
    UserContracts <- MCContracts
    Operator = operator
    NoPrice = NoPrice
    NoKey = NoKey
    NoDoc = NoDoc
    NoArguments = NoArguments
    Spelling <- MCSpelling
INVARIANTS
    SettlesWhatWasSigned
    
    WitnessHoldsWhatWasPrinted
    ToolVerifiesForReal
    FilesAreRemoved
PROPERTIES
    ImplementsOutcomes
    EveryToolCallReturns
CHECK_DEADLOCK FALSE
