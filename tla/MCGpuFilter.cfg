CONSTANTS
    Predictions = 2
    ThreadsPerBlock = 1
    MaxDet = 2
    Classes = 1
    Scores = {0, 1}
    Thresholds = {1}
SPECIFICATION Spec
INVARIANT
    CompactedExactly
