SPECIFICATION Spec
CONSTANTS
    Faults = {"short", "read", "mute"}
    MaxPending = 2
    Threads = {"t1"}
    Calls <- ClientCalls
    Found <- FoundUnit
    Legal = {1, 2}
    MaxShots = 1
INVARIANTS
    
    ReadOnce
PROPERTIES
    MembersFollowUnit
