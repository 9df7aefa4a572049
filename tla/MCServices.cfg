SPECIFICATION ServicesSpec
CONSTANTS
    Foci = {"host", "events", "families", "leases"}
    HostKinds = {"serve", "gui"}
    MaxApps = 2
    MaxApplies = 1
    MaxChecks = 1
    MaxRequests = 1
    EventClients = {c1}
    QueueCap = 1
    ReplayLimit = 2
    KeepEvents = 1
    MaxEvents = 4
    MaxConnects = 2
    FamilyCallers = {c1, c2}
    MaxCatalog = 2
    MaxBuildErrors = 1
    Streams = {s1, s2, s3}
    NoStream = NoStream
    Faults = {"persist", "undo", "clear", "clearRetry", "boot"}
INVARIANTS
    HostSafe
    EventsSafe
    FamiliesSafe
    LeasesSafe
PROPERTIES
    ChangesReachTiles
    OperationsEnd
    StreamsDrain
    FlagEventuallyClears
    LeaseSpec
CHECK_DEADLOCK FALSE
