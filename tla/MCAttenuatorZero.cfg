SPECIFICATION Spec
CONSTANTS
    Faults = {}
    MaxPending = 2
    MaxPos = 2
    Calls <- ZeroCalls
INVARIANTS
    TransmissionLandsAfterZero
