SPECIFICATION Spec
CONSTANTS
    Size = 7
    ChunkSectors = 3
    SegChunks = 2
    BulkChunks = 2
    MaxSegs = 3
    MaxRanges = 2
    Intervals = {0, 3}
    WriteSizes = {}
    Faults = FALSE
INVARIANT ContinuesAfterPartialChunk
CHECK_DEADLOCK FALSE
