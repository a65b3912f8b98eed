CONSTANTS
    Keys = {k1, k2}
    MaxTurns = 2
    MaxCalls = 2
    MaxRuns = 2
    PlanSizes = {1}
SPECIFICATION Spec
CHECK_DEADLOCK FALSE
INVARIANTS
    HistoryOnlyAnswersCalls
