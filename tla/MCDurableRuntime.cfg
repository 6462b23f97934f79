SPECIFICATION Spec
CONSTANTS
    w1 = w1
    w2 = w2
    save = save
    log = log
    Workers = {w1, w2}
    NoWorker = NoWorker
    Events = {save, log}
    EffectOf <- MCEffectOf
    Provider = "memory"
    Clock <- OneMillisecond
    MaxAttempts = 2
    MaxEvents = 2
    MaxFaults = 1
SYMMETRY WorkerSymmetry
CHECK_DEADLOCK FALSE
INVARIANTS TypeOK AppliedMatchesPrefix OutboxMatchesPrefix NoWakeLost
PROPERTIES ImplementsInbox
