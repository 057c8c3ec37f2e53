CONSTANTS
    Units <- MCUnits
    Uses <- MCUses
SPECIFICATION Spec
INVARIANTS
    TypeOK
    WholeIsExact
    CutOnlyShortens
    FlagsTrue
CHECK_DEADLOCK FALSE
