SPECIFICATION FairSpec
CONSTANTS
    Faults = {"open", "close", "short", "write", "read", "mute"}
    MaxPending = 4
    Calls <- AllCalls
    UnitSettings <- FoundUnit
INVARIANTS
    TypeOK
    CacheMatchesUnit
    AtMostOnce
    OutcomeIsTrue
    AnswerIsOwn
PROPERTIES
    SingleShotUndivided
    CallEnds
    ImplementsSim
