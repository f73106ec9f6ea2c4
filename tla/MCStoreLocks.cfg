SPECIFICATION Spec
CONSTANTS
    Processes = {p1, p2, p3}
    MaxCommits = 2
    MaxCrashes = 2
INVARIANTS
    OneWriter
    DiagnosticsAreComplete
    PendingPurgeIsRespected
SYMMETRY MCSymmetry
