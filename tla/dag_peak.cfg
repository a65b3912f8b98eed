CONSTANTS
    N = 3
    MaxConcurrent = 1
    MaxCalls = 1
    MidRunCheckpoints = FALSE
    Plans <- OrderedPlans
SPECIFICATION Spec
CHECK_DEADLOCK FALSE
INVARIANTS
    PeakWithinLimit
