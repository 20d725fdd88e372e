SPECIFICATION Spec
CONSTANTS
    SCALE = 400000
    ALPHA_NUM = 3
    ALPHA_DEN = 10
    SEVERITIES = {0, 200000, 400001}
    MAX_CYCLES = 3
PROPERTY ReplayRestoresState
