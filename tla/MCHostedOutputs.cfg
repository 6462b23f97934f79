SPECIFICATION PartsSpec
CONSTANTS
    Parts = {"program"}
    MaxStarts = 2
    MaxNotifications = 2
    MaxLane = 2
    MaxAppends = 2
    MaxTroubles = 2
    MaxCommits = 4
    MaxFailures = 2
    SeHostings = {"memory", "durable", "remote"}
    MaxMounts = 2
    MaxEntries = 2
    MaxResyncs = 1
    MaxRejects = 1
    HbTrees <- SomeTrees
    MaxRequests = 3
    MaxTrips = 2
    MaxRenders = 3
    Declarations = {"r1", "r2", "inline", "empty", "invalid"}
CHECK_DEADLOCK FALSE
INVARIANT OutputsOfHostedArrive
