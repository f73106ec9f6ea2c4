SPECIFICATION Spec
CONSTANTS
    a1 = a1
    a2 = a2
    b1 = b1
    bound = bound
    chainA = chainA
    chainB = chainB
    qlog = qlog
    Writers = {w1, w2}
    Identities = {a1, a2, b1}
    Boundaries = {bound}
    ModelCalls = {a1, a2, b1}
    Malformed = {b1}
    Padded = {}
    Chains = {chainA, chainB, qlog}
    ChainOf <- MCChainOf
    BoundaryChain = qlog
    TokenCounts = {1, 2}
    MaxTotal = 2
    Unknown = Unknown
    MaxCrashes = 2
    ClockAdvances = TRUE
INVARIANTS
    LedgerVerifies
    DamageIsDetected
    TruncationIsDetected
    CachedTotalIsExact
    BoundaryIsExact
PROPERTIES
    ImplementsUsageLog
SYMMETRY MCSymmetry
