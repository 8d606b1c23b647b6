SPECIFICATION Spec
CONSTANTS
    Lengths <- MCLengths
    Intensities = {0, 1, 2}
    NULL = NULL
INVARIANTS
    PeaksRight
    CutsRight
PROPERTIES
    PartsEnd
CHECK_DEADLOCK FALSE
