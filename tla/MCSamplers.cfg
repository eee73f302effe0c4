SPECIFICATION FairSpec
CONSTANTS
    CcmDomains <- MCCcmDomains
    CsLinks <- MCCsLinks
    LlcDomains = {1}
    DfReadings = {4}
    LlcReadings = {0, 2, 4}
    Machines <- MCMachines
    AlphaPct = 50
    HotPct = 3
    CoolPct = 1
    HotPersist = 2
    CoolPersist = 2
    CountMax = 2
    MaxSweeps <- MCMaxSweeps
    MaxWindows = 5
    MaxFaults = 2
INVARIANTS
    CutsBounded
    EpochCovers
    CleanReturn
PROPERTIES
    FlipsPersist
    ShutdownCompletes
CHECK_DEADLOCK FALSE
