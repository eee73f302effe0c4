SPECIFICATION Spec
CONSTANTS
    Tids = {1, 2}
    Cpus = {0, 1, 2, 3}
    Domains = {0, 1, 2}
    DomainOf <- MCDomainOf
    EligibleDomains = {0, 1, 2}
    EligibleCpus = {0, 1, 2, 3}
    MinDomains = 1
    MaxDomains = 0
    Step = 1
    Messages <- MCMessages
    MaskViews <- MCMaskViews
    CpuViews <- MCCpuViews
    MaxPending = 2
    MaxRank = 3
INVARIANTS
    SharingForced
    EnoughCapacity
    PlacedWithinTargets
CHECK_DEADLOCK FALSE
