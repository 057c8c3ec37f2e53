SPECIFICATION FairSpec
CONSTANTS
    Faults = {"open", "close", "short", "write", "read", "mute"}
    MaxPending = 2
    Threads = {"t1", "t2"}
    Calls <- SharedCalls
    Found <- FoundUnit
    Legal = {1, 2}
    MaxShots = 0
INVARIANTS
    TypeOK
    AnswerIsOwn
    ReportIsTrue
PROPERTIES
    SendEnds
