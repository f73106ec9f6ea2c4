SPECIFICATION FairSpec
CONSTANTS
    a1 = a1
    a2 = a2
    b1 = b1
    bound = bound
    chainA = chainA
    chainB = chainB
    qlog = qlog
    Writers = {w1, w2}
    Identities = {a1, a2, b1}
    Boundaries = {}
    ModelCalls = {a1, a2}
    Malformed = {}
    Padded = {}
    Chains = {chainA, chainB, qlog}
    ChainOf <- MCChainOf
    BoundaryChain = qlog
    TokenCounts = {1}
    MaxTotal = 3
    Unknown = Unknown
    MaxCrashes = 2
    ClockAdvances = TRUE
PROPERTIES
    EventuallyIngested
