\* One exception, then the next step.
SPECIFICATION Spec
CONSTANTS
    SCALE = 320
    ALPHA_NUM = 1
    ALPHA_DEN = 2
    PARTIAL_THRESHOLD = 160
    CRITIC_SEVERITIES = {0, 320}
    CRITIC_KINDS = {"evidence_conflict"}
    WARMUP = 2
    Z_SQUARE = 1
    Z_UNIT = 4
    SEVERE_DRIFT_COUNT = 3
    MAX_DRIFT_STREAK = 3
    ENFORCED_DRIFT = 2
    GUIDED_DRIFT = 1
    LOW_CONF_PERCENT = 40
    CONFIGURED_MODES = {"NORMAL"}
    GATES = {"custom"}
    MAX_QUEUE_SIZE = 2
    MAX_ITERATIONS = 3
    GUARD_INTERVAL = 2
    GOAL_THRESHOLD = 288
    MAX_SUBTASKS = 2
    MAX_CYCLES = 2
    MAX_FAULTS = 1
PROPERTY NonceStrictlyIncreases
CHECK_DEADLOCK FALSE
