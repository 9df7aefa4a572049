SPECIFICATION StoresSpec
SYMMETRY Processes
CONSTANTS
    Foci = {"engine", "staging", "datadir", "qbittorrent", "qbsession",
            "streaming", "infos", "catalog", "catalogsync", "settings"}
    Threads = {p1, p2}
    Selections = {"a"}
    EngineOps = {"add", "prepare", "pause", "resume", "remove", "resolve"}
    MaxEngineOps = 4
    MaxSaveErrors = 1
    MaxRestarts = 1
    AssetSizes = {1, 2, 3}
    CompressedLimit = 2
    ExpandedLimit = 2
    EntryLimit = 2
    MaxResumes = 1
    MaxAttempts = 2
    MaxStagings = 2
    Locations = {"a", "b"}
    Home = "a"
    Dialogs = {p1, p2}
    MaxChanges = 2
    MaxLaunches = 2
    QBCallers = {p1, p2}
    QBOps = {"add", "resolve", "prepare", "remove"}
    MaxQBOps = 4
    MaxLost = 1
    MaxSettings = 3
    Streams = {p1, p2}
    FileSize = 3
    FileOffset = 1
    PieceSize = 3
    StreamStart = 1
    ReadAhead = 2
    Ranges <- SomeRanges
    MaxStreams = 2
    MaxUpsets = 1
    InfoCallers = {p1, p2}
    MaxUpstream = 1
    MaxExpires = 1
    MaxFailures = 1
    Kind = "movie"
    Releases = {p1, p2, p3}
    SortTitles = {"x", "y"}
    Years = {0, 1}
    IMDbIDs = {"a", "b"}
    Reports <- SomeReports
    OldCatalogs <- SomeOld
    MaxBatch = 1
    MaxFavourites = 1
    Trackers = {t1, t2}
    SyncRuns = {p1, p2}
    SearchRun = search
    SyncModes = {"latest"}
    JobSlots = 2
    MaxSyncs = 2
    MaxSaves = 1
    Managed = {"jobs"}
    SettingsClients = {p1, p2}
    MaxPuts = 2
    MaxStarts = 2
INVARIANTS
    EngineSafe
    StagingSafe
    DataDirSafe
    QBittorrentSafe
    RejectedForCause
    StreamingSafe
    SyncSafe
PROPERTIES
    InfosKept
    CatalogSafe
    SettingsKept
CHECK_DEADLOCK FALSE
