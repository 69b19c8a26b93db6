SPECIFICATION Spec
CONSTANTS
    Grain = 256
    SectorGrains = 2
    Zero = 0
    Noise = 9
    Values <- MCValues
    SectionSize <- MCSectionSize
    MaxTableEntries = 2
    MaxTablePayload = 8191
    EntryBit = 8192
    Configs <- MCConfigs
    Infos <- MCInfos
    Runs <- MCRuns
    Offsets <- MCOffsets
    Limit = 16
    MaxCalls = 2
    None = None
    Settings <- MCTightSettings
    Pieces <- MCPieces
    SizingXHash = 90
INVARIANT LeavesRoom
CHECK_DEADLOCK FALSE
