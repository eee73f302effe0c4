SPECIFICATION Spec
CONSTANTS
    Tids = {1, 2}
    Cpus = {0, 1, 2, 3}
    Domains = {0, 1, 2}
    DomainOf <- MCDomainOf
    EligibleCpus = {0, 1, 2}
    EligibleDomains = {0, 1}
    Messages <- MCMessages
    MaskViews <- MCMaskViews
    CpuViews <- MCCpuViews
    PlanEntries <- MCPlanEntries
    MaxPending = 1
INVARIANT DomainLedgerExact
