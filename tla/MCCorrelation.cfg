SPECIFICATION Spec
CONSTANTS
    Spans <- MCSpans
    PluginEvents <- MCPluginEvents
    Lines <- MCLines
    Legacy <- MCLegacy
    StartModes = {"off", "full"}
    MaxDeliveries = 4
    MaxModeChanges = 1
    MaxCrashes = 1
CHECK_DEADLOCK FALSE
CONSTRAINT MCBound
INVARIANTS
    TypeOK
    ParentsMatch
    ChildrenFindParents
    LegacyIsNotCountedTwice
    PromptsStayPrivate
