SPECIFICATION PartsSpec
CONSTANTS
    Parts = {"host", "locks", "runtime", "calls", "drives", "proposals"}
    c1 = c1
    c2 = c2
    c3 = c3
    FdCalls = {c1, c2, c3}
    FdPatches = {"cell", "root", "note"}
    FdMetadata = {"note"}
    FdScenarios <- Drives
    PhCallers = {c1, c2}
    PhContents = {1, 2}
    MaxReceipts = 2
    PhScenarios <- Proposals
    SaClients = {c1, c2}
    SaRefs = {1, 2}
    SaServers = {"cosmos", "filesystem"}
    MaxSaTokens = 3
    MaxSaTroubles = 2
    RrClients = {c1, c2}
    RrClock = {1, 2}
    MaxRrEntries = 3
    MaxRrTroubles = 2
    r1 = r1
    r2 = r2
    SvRequests = {r1, r2}
    SvScenarios <- Scenarios
    SvMaxAttempts = 2
    SvCeiling = 2
INVARIANTS ServicesSafe AccessSafe CallsExact
PROPERTIES ServicesStep RequestsEnd
CHECK_DEADLOCK FALSE
