SPECIFICATION FairSpec
CONSTANTS
    Faults = {"short", "read", "mute"}
    MaxPending = 2
    MaxPos = 1
    Calls <- SettingCalls
INVARIANTS
    SettingsMatchUnit
    WaitedMoveArrives
PROPERTIES
    CallEnds
