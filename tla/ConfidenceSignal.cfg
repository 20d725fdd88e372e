\* alpha = 0.3, the default; SCALE = 40 * 10^4, so four updates are exact.
SPECIFICATION Spec
CONSTANTS
    SCALE = 400000
    ALPHA_NUM = 3
    ALPHA_DEN = 10
    SEVERITIES = {0, 200000, 400000, 400001}
    MAX_CYCLES = 4
INVARIANTS
    TypeOK
    HighConfidenceIsEarned
PROPERTIES
    WindowBlocksRise
    KindGatesMovement
    WindowIsSingleCycle
