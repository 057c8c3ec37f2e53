SPECIFICATION Spec
CONSTANTS
    Faults = {}
    MaxPending = 2
    Threads = {"t1", "t2"}
    Calls <- AverageCalls
    Found <- FoundUnit
    Legal = {1, 2}
    MaxShots = 1
INVARIANTS
    ReadOnce
