SPECIFICATION ProvidersSpec
CONSTANTS
    Providers = {"filesystem"}
    h1 = h1
    h2 = h2
    appender = appender
    FsHosts = {h1, h2}
    NoHost = NoHost
    MaxFsMessages = 1
    MaxFsEntries = 1
    MaxFsWrites = 1
    MaxFsFaults = 0
    FsClock = {1}
    CsHosts = {h1, h2}
    CsAppender = appender
    NoClient = NoClient
    MaxCsEntries = 1
    LibClients = {h1, h2}
    NoKey = NoKey
    key = key
    Keys = {key}
    MaxLibMessages = 2
    MaxLibExpiries = 1
    MaxCsFaults = 0
    CsClock = {1}
    WakeTries = 1
CHECK_DEADLOCK FALSE
INVARIANTS CommitIsWhole
