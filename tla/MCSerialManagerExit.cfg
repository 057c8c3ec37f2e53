SPECIFICATION ManagerSpec
CONSTANTS
    Faults = {"write"}
    MaxPending = 3
    Calls <- ShutdownCalls
    UnitSettings <- FoundUnit
CHECK_DEADLOCK FALSE
INVARIANTS
    AlwaysSafeExit
