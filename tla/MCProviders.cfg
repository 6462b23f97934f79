SPECIFICATION ProvidersSpec
CONSTANTS
    Providers = {"filesystem", "cosmos", "cosmos library"}
    h1 = h1
    h2 = h2
    appender = appender
    FsHosts = {h1, h2}
    NoHost = NoHost
    MaxFsMessages = 3
    MaxFsEntries = 2
    MaxFsWrites = 3
    MaxFsFaults = 1
    FsClock = {1, 2}
    CsHosts = {h1, h2}
    CsAppender = appender
    NoClient = NoClient
    MaxCsEntries = 2
    LibClients = {h1, h2}
    NoKey = NoKey
    key = key
    Keys = {key}
    MaxLibMessages = 2
    MaxLibExpiries = 1
    MaxCsFaults = 2
    CsClock = {1, 2}
    WakeTries = 2
SYMMETRY HostSymmetry
CHECK_DEADLOCK FALSE
INVARIANTS FilesystemSafe CosmosSafe LibrarySafe
PROPERTIES LeasesHonoured
