SPECIFICATION Spec
CONSTANTS
    Size = 7
    ChunkSectors = 2
    SegChunks = 3
    BulkChunks = 2
    MaxSegs = 3
    MaxRanges = 2
    Intervals = {0, 2}
    WriteSizes = {1, 2, 3, 4, 5, 6, 7}
    Faults = TRUE
INVARIANT AlwaysResumable
INVARIANT SealedPrefixExact
INVARIANT PublishedExact
PROPERTY SealedImmutable
CHECK_DEADLOCK FALSE
