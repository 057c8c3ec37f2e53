SPECIFICATION Spec
CONSTANTS
    Faults = {"open", "close", "short", "mute"}
    MaxPending = 2
    MaxPos = 1
    Calls <- MotionCalls
INVARIANTS
    TypeOK
    WaitedMoveArrives
    FrameKept
    TransmissionLands
PROPERTIES
    MovesFromRest
