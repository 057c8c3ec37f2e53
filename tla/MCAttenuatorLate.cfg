SPECIFICATION Spec
CONSTANTS
    Faults = {"late"}
    MaxPending = 3
    MaxPos = 1
    Calls <- MotionCalls
PROPERTIES
    MovesFromRest
