SPECIFICATION PartsSpec
CONSTANTS
    Parts = {"transport"}
    c1 = c1
    c2 = c2
    busy = busy
    sibling = sibling
    Backlog = 3
    TrClients = {c1, c2}
    MaxLog = 2
    TrScenarios <- Reconnects
    GrTokens = {"x", "s", "y", "z"}
    GrNodes = {1, 2, 3}
    GrScenarios <- Graphs
    MaxValue = 3
    AmpleBudget = 6
    KpScenarios <- Programs
    MaxSettleDepth = 2
    KpValues = 3
    Sources <- TwoSources
    MaxToken <- TheirTokens
    MaxQueued = 1
    MaxCancels = 1
    MaxFailures = 1
CHECK_DEADLOCK FALSE
INVARIANT RendererInSync
