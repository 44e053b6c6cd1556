SPECIFICATION Spec
CONSTANTS
    Tasks = {t1, t2, t3}
    MaxDocs = 3
    ChunkCount <- MCChunkCount
    MaxCrashes = 1
    MaxSize = 6
    SegmentSizes = {0, 1, 2, 3, 4, 5, 6, 7}
    MaxSegments = 4
INVARIANTS TypeOK RemovedIsGone IndexMatchesRows
CHECK_DEADLOCK FALSE
SYMMETRY Symmetry
