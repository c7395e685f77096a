SPECIFICATION Spec
CONSTANTS
    main = main
    h1 = h1
    reader = reader
    Actors <- TwoActors
    Cells <- TwoCells
    Targets <- Widths
    Contents <- Bits
    MaxDepth = 2
    MaxMods = 3
    Regions <- ThreeRegions
    Lengths <- ReadLengths
    MaxBytes = 3
    None = None
    Segments <- Three
    Size <- Sizes
    Label <- Names
    Static <- Lib
    Placements <- TwoPlacements
    PtrSize = 2
    Pointees <- SomePointees
    Null = None
    Requests <- SomeRequests
    MaxResults = 3
    coins = coins
    lives = lives
    noLabel = noLabel
    usb = usb
    wifi = wifi
    nan = nan
    Users <- TwoActors
    Labels <- OneLabel
    Types <- TwoTypes
    Found <- OneResult
    Tables <- TwoTables
    NoLabel = noLabel
    Unreadable = None
    DefaultType = "int32"
    LongType = "int64"
    BytesType = "int64"
    MaxMarks = 2
    MaxChanges = 4
    Readers <- OneReader
    Switchers <- TwoActors
    Devices <- TwoDevices
    NoDevice = None
    Chunk = 2
    MaxSize = 5
    MaxEvents = 4
    Base = 16
    Half = 1
    BytesSeen <- EdgeBytes
    Typed <- EdgeNumbers
    NotTyped = None
    NaN = nan
    Maps <- Layouts
    Candidates <- CandidateSets
    ValueWidths <- ShortAndLong
INVARIANTS TypeOK UndoGoesBack SnapAccounting SnapKeepsNewest ScanIsComplete ChainsResolve
INVARIANTS RemovalHitsShown ReadIsOnePiece FiltersFollowShown TextsAgree FilterSeesMemory
PROPERTIES EvictsOnlyWhenFull RestartKeepsChains LoadRestores LoadIsAllOrNothing
SYMMETRY TwoUsers
CHECK_DEADLOCK FALSE
