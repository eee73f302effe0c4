SPECIFICATION FairSpec
CONSTANTS
    c1 = c1
    c2 = c2
    c3 = c3
    t1 = t1
    t2 = t2
    Cpus <- TwoCpus
    Tasks = {t1}
    Internal = {}
    UsMask <- TwoCpus
    QueuedCap = 1
    DispatchedCap = 1
    MaxDefer = 1
    MaxAffinity = 0
INVARIANT
    NoSleepingScheduler
PROPERTIES
    HandoffCompletes
    HeartbeatWakes
