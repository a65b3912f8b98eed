CONSTANTS
    Tasks = {t1, t2}
    Callers = {c1, c2}
    NoTask = NoTask
SPECIFICATION FairSpec
CHECK_DEADLOCK FALSE
INVARIANTS
    TypeOK
    RecordTellsOutcome
    EventsTellOutcome
    AnsweredHasEnded
PROPERTIES
    CancelTaskReturns
