CONSTANTS
    N = 3
    MaxConcurrent = 2
    MaxCalls = 2
    MidRunCheckpoints = TRUE
    Plans <- AllPlans
SPECIFICATION FairSpec
CHECK_DEADLOCK FALSE
INVARIANTS
    PolicyRespected
    SlotsConserved
PROPERTIES
    TerminalStable
    CallReturns
    TasksEnd
