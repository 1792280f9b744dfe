\* The key the engine signs with after SetConsumerKey.
SPECIFICATION Spec
CONSTANTS
    Holders = {h1, h2}
    Keys = {kp, kc}
    NoSig = NoSig
    Terms = {low, high}
    Nonces = {n1}
    OperatorKey = kp
PROPERTIES
    EngineSignsForItsOperator
CHECK_DEADLOCK FALSE
