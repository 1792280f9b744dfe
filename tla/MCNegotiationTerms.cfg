\* One session, offers that differ in action, params and nonce.
SPECIFICATION Spec
CONSTANTS
    Agents <- MCAgents
    Pairings <- MCPairings
    Joined <- MCJoined
    Actions = {act1, act2}
    Params = {p1, p2, unreadable}
    ReadableParams = {p1, p2}
    NoTerms = NoTerms
    Nonces = {n1, n2}
    Keys = {k1}
    NoKey = NoKey
    TTLs = {1}
    Refs = {r1}
    Free = Free
    NoBinding = NoBinding
    NoOne = NoOne
    MaxOffers = 3
    MaxTime = 2
INVARIANTS
    TypeOK
    BindingIsTheLastOffer
    ShortNegotiationsAreBilateral
PROPERTIES
    ImplementsAgreement
CHECK_DEADLOCK FALSE
