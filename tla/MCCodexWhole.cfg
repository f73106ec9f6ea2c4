SPECIFICATION FairSpec
CONSTANTS
    total = total
    input = input
    cached = cached
    Counters = {total}
    Total = total
    PartOf = {}
    Shapes <- MCFullShapes
    Kinds = {"root", "fork", "spawn"}
    Steps = {0, 1}
    Unseen = {0}
    PartialFiles = FALSE
    MaxInherited = 2
    MaxSnapshots = 4
    MaxCrashes = 1
    Missing = Missing
    NoUsage = NoUsage
INVARIANTS
    WholeLogImports
PROPERTIES
    ReimportIsIdempotent
    EventuallyRecorded
