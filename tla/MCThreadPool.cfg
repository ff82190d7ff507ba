CONSTANTS
    Workers = {w1, w2}
    Clients = {c1, c2}
    Jobs = {j1, j2, j3}
    NoJob = NoJob
SPECIFICATION FairSpec
INVARIANTS
    TypeOK
    WakeupsCoverBacklog
    NobodySleepsThroughShutdown
PROPERTIES
    ImplementsJobPool
    AcceptedJobRuns
    DestructorReturns
CHECK_DEADLOCK FALSE
