SPECIFICATION HostsSpec
CONSTANTS
    w1 = w1
    w2 = w2
    save = save
    log = log
    Workers = {w1, w2}
    Called = {w1}
    NoWorker = NoWorker
    Events = {save, log}
    EffectOf <- MCEffectOf
    Provider = "memory"
    Clock <- OneMillisecond
    MaxAttempts = 2
    MaxEvents = 1
    MaxFaults = 2
CHECK_DEADLOCK FALSE
INVARIANTS FinishedIsReported DeadIsExhausted
PROPERTIES EntriesAreApplied EffectsFinish TransitionLeaseHonoured ItemLeaseHonoured
