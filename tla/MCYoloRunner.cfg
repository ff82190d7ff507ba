CONSTANTS
    Frames = {f1, f2, f3}
    None = None
    BatchSize = 2
    BufferSize = 2
    MaxImagesLost = 1
    MaxFiltersLost = 1
    Predictions = 3
    ThreadsPerBlock = 2
    MaxDet = 2
    Classes = 2
    Scores = {0, 1, 2}
    Thresholds = {0, 1}
    Sides = {1, 20, 100, 333, 640, 1280}
    Widths = {640, 320}
    Heights = {640, 224}
    Marks = {0, 101, 320, 333, 640}
SPECIFICATION MCSpec
INVARIANTS
    TypeOK
    BuffersExclusive
    DecodesItsOwn
    FilterMatchesCpu
    PixelsComeBack
PROPERTIES
    EveryFrameOfRunnerEnds
CHECK_DEADLOCK FALSE
