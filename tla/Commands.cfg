SPECIFICATION FairSpec
CONSTANTS
    Size = 3
    BufferSize = 2
    Buffers = 2
    Hanging = {1, 3}
    Transfers <- MCTransfers
    Parent <- MCParent
    FilePieces = 2
    Collections <- MCCollections
    Extractions <- MCExtractions
    ChunkBytes = 2
    ChunksPerBevy = 1
    PageBytes = 4
    CacheBytes = 6
    Evidence <- MCEvidence
    Readings <- MCReadings
    Requests <- MCRequests
    Sessions <- MCSessions
    Chunks = 1
    MaxRecords = 16
    MaxCommands = 2
INVARIANT CopyInOrder
INVARIANT CleanExitMeansCopied
INVARIANT PublishedTold
INVARIANT EarlyStopCancels
INVARIANT CollectionAccounts
INVARIANT BudgetIsExact
INVARIANT ReadsExact
INVARIANT VerifiedIntact
INVARIANT DisksByIdentity
INVARIANT HistoryHonest
PROPERTY CommandEnds
CHECK_DEADLOCK FALSE
