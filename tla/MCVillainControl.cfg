SPECIFICATION VillainSpec
CONSTANTS
    t1 = t1
    CsLinks = {1, 2}
    Managed = {t1}
    Slice = 2
    TickDeferMax = 1
    RefillDivisor = 1
    TickReevalEvery = 2
    SettleNs = 4
    ReleaseSamples = 2
    StaleNs = 2
    ActiveNs = 2
    DeferBound = 2
    MaxGap = 2
    MaxRefused = 1
    MaxTime = 5
INVARIANTS
    DeferBounded
    VillainShare
PROPERTY
    LatchSticky
CHECK_DEADLOCK FALSE
