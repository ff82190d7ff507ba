CONSTANTS
    NumRequests = 4
    BatchSize = 1
    BufferSize = 1
    MaxFailures = 0
SPECIFICATION FairSpec
INVARIANT
    EachGetsItsOwn
CHECK_DEADLOCK FALSE
