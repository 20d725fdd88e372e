SPECIFICATION Spec
CONSTANTS
    NUM_RECORDS = 3
    MAX_AGENTS = 1
    MAX_ATTEMPTS = 1
INVARIANT
    FallbackIsCorePath
CHECK_DEADLOCK FALSE
