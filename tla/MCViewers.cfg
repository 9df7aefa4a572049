SPECIFICATION ViewerSpec
CONSTANTS
    Foci = {"portal", "household", "subtitles", "track", "library"}
    Keys = {k1, k2}
    MaxClock = 1
    MaxKeyChanges = 1
    Sources = {"e1", "e2", "film"}
    TitleOfSource <- SomeTitles
    Handlers = {p1, p2}
    Positions <- SomePositions
    Threshold = 75
    Caps <- SomeCaps
    MaxReports = 3
    MaxSeconds = 1
    Players = {p1, p2}
    Tracks = {"embedded", "contained", "remote"}
    Embedded = {"embedded"}
    Contained = {"contained"}
    CacheLimit = 1
    MaxPrepares = 3
    MaxVersions = 2
    MaxAge = 2
    Rows = {"p0", "p1", "p2", "s0", "f0", "f1", "g0"}
    RowOf <- SomeRows
    FileCount <- SomeCounts
    FileWeight <- SomeWeights
    Titles <- SomePages
    Full = 2
    Statuses = {"active", "error"}
    MaxLibrarySteps = 3
INVARIANTS
    PortalSafe
    HouseholdSafe
    SubtitlesSafe
    LibraryStateSafe
PROPERTY PortalProgress
CHECK_DEADLOCK FALSE
