SPECIFICATION Spec
CONSTANTS
    total = total
    input = input
    cached = cached
    Counters = {total, input, cached}
    Total = total
    PartOf <- MCPartOf
    Shapes <- MCShapes
    Kinds = {"root", "fork", "spawn"}
    Steps = {0, 1}
    Unseen = {0, 2}
    PartialFiles = TRUE
    MaxInherited = 2
    MaxSnapshots = 3
    MaxCrashes = 1
    Missing = Missing
    NoUsage = NoUsage
INVARIANTS
    NeverOvercounts
    ExactForRegular
