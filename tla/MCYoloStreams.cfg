CONSTANTS
    Frames = {f1, f2, f3}
    None = None
    BatchSize = 1
    BufferSize = 2
    MaxImagesLost = 0
    MaxFiltersLost = 0
SPECIFICATION FairSpec
INVARIANT
    StreamTableNotWrittenConcurrently
CHECK_DEADLOCK FALSE
