\* Two holders of a binding or an offer, two keys, two terms.
SPECIFICATION Spec
CONSTANTS
    Holders = {h1, h2}
    Keys = {kp, kc}
    NoSig = NoSig
    Terms = {low, high}
    Nonces = {n1}
    OperatorKey = kp
INVARIANTS
    VerifiedMeansSigned
PROPERTIES
    CeremonyKeepsSignatures
    FirstSignatureVerifies
CHECK_DEADLOCK FALSE
