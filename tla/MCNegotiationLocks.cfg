\* Two goroutines on one session that may be open, past its deadline or closed.
SPECIFICATION LockSpec
CONSTANTS
    Agents <- MCAgents
    Pairings <- MCPairings
    Joined <- MCJoined
    Actions = {act}
    Params = {p1}
    ReadableParams = {p1}
    NoTerms = NoTerms
    Nonces = {n1}
    Keys = {k1}
    NoKey = NoKey
    TTLs = {0}
    Refs = {r1}
    Free = Free
    NoBinding = NoBinding
    NoOne = NoOne
    MaxOffers = 2
    MaxTime = 1
    Procs = {g1, g2}
    NoProc = NoProc
    UnknownID = UnknownID
    NoRef = NoRef
    NoCall = NoCall
    NoDecision = NoDecision
INVARIANTS
    NoIntruders
    NoCircularWait
    DecisionsAreFresh
PROPERTIES
    ImplementsNegotiation
    EveryCallReturns
CHECK_DEADLOCK TRUE
