CONSTANTS
    Regions <- MCRegions
    Width = 2
    Chunk = 4
    Workers = 2
    PatternMax = 2
    FixedSizes = {2}
    ShortReads = {0, 5}
SPECIFICATION Spec
CHECK_DEADLOCK FALSE
INVARIANTS
    TypeOK
    OnlyMatches
    HonestResult
PROPERTIES
    ScanReturns
