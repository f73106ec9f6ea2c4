SPECIFICATION Spec
CONSTANTS
    Spans = {s1, s2, s3}
    Usages = {u1, u2}
    Lineage = Lineage
    NoSpan = NoSpan
    MaxCrashes = 1
INVARIANTS
    ExclusionsAreCovered
PROPERTIES
    ReconciledInAnyOrder
SYMMETRY MCSymmetry
