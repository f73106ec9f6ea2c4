SPECIFICATION AdapterSpec
CONSTANTS
    Kinds = {"codex", "claude", "vscode", "posix", "powershell", "opencode"}
    Homes = {"A", "B"}
    MaxCommands = 4
    MaxEdits = 2
    MaxCuts = 2
INVARIANTS
    OriginalsOnRecord
    UninstallIsComplete
    InstallIsVisible
PROPERTIES
    UserEditsSurvive
CHECK_DEADLOCK FALSE
