SPECIFICATION Spec
CONSTANTS
    Grain = 256
    SectorGrains = 2
    Zero = 0
    Noise = 9
    Values <- MCValues
    SectionSize <- MCSectionSize
    MaxTableEntries = 3
    MaxTablePayload = 2055
    EntryBit = 2056
    Configs <- MCConfigs
    Infos <- MCOtherInfos
    Runs <- MCRuns
    Offsets <- MCOffsets
    Limit = 16
    MaxCalls = 3
    None = None
    Settings <- MCSettings
    Pieces <- MCPieces
    SizingXHash = 90
INVARIANT RoundTrip
CHECK_DEADLOCK FALSE
