CONSTANTS
    NumRequests = 3
    BatchSize = 2
    BufferSize = 2
    MaxFailures = 0
SPECIFICATION FairSpec
INVARIANT
    NothingToInferAtExit
CHECK_DEADLOCK FALSE
