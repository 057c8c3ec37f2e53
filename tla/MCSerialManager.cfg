SPECIFICATION ManagerFairSpec
CONSTANTS
    Faults = {"open", "close", "short", "write", "mute"}
    MaxPending = 3
    Calls <- ShutdownCalls
    UnitSettings <- FoundUnit
CHECK_DEADLOCK FALSE
INVARIANTS
    ManagerTypeOK
    SafeExit
    PromptHasInstances
PROPERTIES
    StopsBeforeClosing
    ErrorEnds
