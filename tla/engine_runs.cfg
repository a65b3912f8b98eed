CONSTANTS
    Keys = {k1, k2}
    MaxTurns = 3
    MaxCalls = 2
    MaxRuns = 2
    PlanSizes = {0, 1, 2}
SPECIFICATION FairSpec
CHECK_DEADLOCK FALSE
INVARIANTS
    TypeOK
    CallsAnsweredInOrder
    AnsweredCallsExecuted
    SuppressedAcrossTurns
PROPERTIES
    RunReturns
