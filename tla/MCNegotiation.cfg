\* Two sessions, offers of one kind, every order of calls; both sessions may
\* open at one reading of the clock.
SPECIFICATION Spec
CONSTANTS
    Agents <- MCAgents
    Pairings <- MCPairings
    Joined <- MCJoined
    Actions = {act}
    Params = {p1}
    ReadableParams = {p1}
    NoTerms = NoTerms
    Nonces = {n1}
    Keys = {k1}
    NoKey = NoKey
    TTLs = {0, 1}
    Refs = {r1, r2}
    Free = Free
    NoBinding = NoBinding
    NoOne = NoOne
    MaxOffers = 4
    MaxTime = 2
SYMMETRY RefSymmetry
INVARIANTS
    OffersFollowTurns
    SessionsReachable
PROPERTIES
    ClosedIsFinal
    DeadlineHonoured
CHECK_DEADLOCK FALSE
