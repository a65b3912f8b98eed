CONSTANTS
    Keys = {k1, k2}
    MaxTurns = 2
    MaxCalls = 2
    MaxRuns = 1
    PlanSizes = {1}
SPECIFICATION Spec
CHECK_DEADLOCK FALSE
INVARIANTS
    SuppressedWithinRun
