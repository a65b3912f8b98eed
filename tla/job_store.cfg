CONSTANTS
    p1 = p1
    p2 = p2
    Processes = {p1, p2}
    Conns = {1}
    CallIds = {11, 12}
    Sync = 11
    NoConn = NoConn
    NotOpen = NotOpen
    Keys = {1, 2}
    TableOf <- MCTableOf
    Registered <- MCRegistered
    RolledBack = {1, 2}
    Ids = {1, 2}
    Attempts = 2
    Jobs <- MCJobs
    MaxCrashes = 1
SPECIFICATION FairSpec
INVARIANTS
    TypeOK
    ConnectionsConserved
    SchemaSound
    ExactlyOnceUnlessInDoubt
    ReportsDurable
PROPERTIES
    ApplicationsFinal
    CallsEnd
CHECK_DEADLOCK FALSE
