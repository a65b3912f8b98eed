CONSTANTS
    r1 = r1
    r2 = r2
    Runs = {r1, r2}
    Steps = {1, 2}
    Sessions <- MCSessions
    Recalling = {r2}
    Unbound = Unbound
    MaxStarts = 2
SPECIFICATION FairSpec
INVARIANTS
    TypeOK
    StoreFollowsPlan
    ReplayAgrees
    EventsConserved
    StepsInOrder
    BoundRecordIsTheRun
    RecordedPerStart
PROPERTY
    RunsClose
CHECK_DEADLOCK FALSE
