SPECIFICATION DamageSpec
CONSTANTS
    Grain = 256
    SectorGrains = 2
    Zero = 0
    Noise = 9
    Values <- MCValues
    SectionSize <- MCSectionSize
    MaxTableEntries = 3
    MaxTablePayload = 2055
    EntryBit = 2056
    Configs <- MCConfigs
    Infos <- MCInfos
    Runs <- MCRuns
    Offsets <- MCOffsets
    Limit = 16
    MaxCalls = 2
    None = None
    Settings <- MCSettings
    Pieces <- MCPieces
    SizingXHash = 90
    MaxTrouble = 2
    Batch = 2
    Records = 1
INVARIANT RoundTrip
INVARIANT MissingSegmentRefused
INVARIANT SegmentsWithinLimit
INVARIANT RememberedFaithful
INVARIANT VerifiedHonest
INVARIANT RecoveredHonest
CHECK_DEADLOCK FALSE
