CONSTANTS
    N = 4
    MaxConcurrent = 2
    MaxCalls = 2
    MidRunCheckpoints = FALSE
    Plans <- RacePlans
SPECIFICATION Spec
CHECK_DEADLOCK FALSE
INVARIANTS
    TypeOK
    PolicyRespected
    SlotsConserved
    ResolvedOnReturn
    ResultsAgree
    NoFalseDeadlock
    OutcomesFollowPolicy
    NothingRunsAfterReturn
PROPERTIES
    TerminalStable
    ImplementsPlanRun
