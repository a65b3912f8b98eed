CONSTANTS
    N = 4
    MaxConcurrent = 2
    MaxCalls = 1
    MidRunCheckpoints = FALSE
    Plans <- ReversedPlans
SPECIFICATION Spec
CHECK_DEADLOCK FALSE
INVARIANTS
    IgnoreFailuresRuns
