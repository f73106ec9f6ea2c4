SPECIFICATION Spec
CONSTANTS
    homeA = homeA
    homeB = homeB
    Targets = {homeA, homeB}
    Default = homeA
    None = None
    MaxCommands = 3
    MaxFailures = 2
    MaxCrashes = 1
CHECK_DEADLOCK FALSE
INVARIANTS
    TypeOK
    SetupKeepsCollectorRunning
    UninstallLeavesNothing
PROPERTIES
    SetupNeverRedirects
    SettingsOutliveFiles
