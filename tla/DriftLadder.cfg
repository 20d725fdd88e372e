\* Four samples and a z threshold of 0.5, so that one outlier is registered.
SPECIFICATION Spec
CONSTANTS
    WARMUP = 4
    Z_SQUARE = 1
    Z_UNIT = 4
    SEVERE_DRIFT_COUNT = 3
    MAX_DRIFT_STREAK = 3
    ENFORCED_DRIFT = 2
    GUIDED_DRIFT = 1
    LOW_CONF_PERCENT = 40
    ERRORS = {0, 1}
    MAX_NUMERIC = 0
INVARIANT RecommendsAsDocumented
CHECK_DEADLOCK FALSE
