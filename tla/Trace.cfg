SPECIFICATION Spec
CONSTANTS
    MAX_CYCLES = 3
    MAX_TRACES = 2
    MAX_RUNS = 3
    MAX_STEPS = 2
INVARIANTS
    TypeOK
    FiledInOrder
    StepIsOneCycle
    NoCycleIsTorn
    OnlyFirstStepIsForeign
    FilesBeginRuns
CHECK_DEADLOCK FALSE
