\* alpha = 0.3 and severities 0.0 and 0.5; six updates reach the momentum it takes.
SPECIFICATION Spec
CONSTANTS
    SCALE = 400000
    ALPHA_NUM = 3
    ALPHA_DEN = 10
    SEVERITIES = {0, 200000}
    MAX_CYCLES = 6
PROPERTY FailureNeverRaises
