\* The defaults of config.py: ten samples, z threshold 3.0, so t^2 = WARMUP - 1.
SPECIFICATION Spec
CONSTANTS
    WARMUP = 10
    Z_SQUARE = 9
    Z_UNIT = 1
    SEVERE_DRIFT_COUNT = 3
    MAX_DRIFT_STREAK = 3
    ENFORCED_DRIFT = 2
    GUIDED_DRIFT = 1
    LOW_CONF_PERCENT = 40
    ERRORS = {0, 1, 2}
    MAX_NUMERIC = 1
INVARIANTS
    TypeOK
    ModeIsConfiguredOrHalt
    AtMostOneDriftEvent
    OnlyLoneOutliers
PROPERTY NoCycleOnSevereEvidence
