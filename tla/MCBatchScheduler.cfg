CONSTANTS
    NumRequests = 4
    BatchSize = 2
    BufferSize = 2
    MaxFailures = 1
SPECIFICATION FairSpec
INVARIANTS
    TypeOK
    EachGetsItsOwnAtFirst
    RowBufferOutlivesPreprocess
    CloseSettlesAll
PROPERTIES
    ImplementsScheduler
    SubmittedSettles
    DestructorReturns
CHECK_DEADLOCK FALSE
