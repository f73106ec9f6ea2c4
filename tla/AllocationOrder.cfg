SPECIFICATION Spec
CONSTANTS
    Calls = {call}
    Projects = {1, 2}
    Keys = {k1, k2, k3}
    Requests <- MCAnyOrder
    Legacy <- MCLegacy
    CrashPoints = {13, 14}
    MaxRevisions = 4
    NoRevert = NoRevert
    TokensOf = {1, 3, 10}
INVARIANTS
    AllocationsVerify
