CONSTANTS
    N = 3
    MaxConcurrent = 2
    MaxCalls = 2
    MidRunCheckpoints = TRUE
    Plans <- OrderedPlans
SPECIFICATION Spec
CHECK_DEADLOCK FALSE
INVARIANTS
    ResolvedOnReturn
