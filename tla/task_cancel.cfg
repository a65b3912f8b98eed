CONSTANTS
    Tasks = {t1}
    Callers = {c1}
    NoTask = NoTask
SPECIFICATION Spec
CHECK_DEADLOCK FALSE
INVARIANTS
    AnsweredIsCancelled
