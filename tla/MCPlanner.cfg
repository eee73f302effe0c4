\* The computation ends: the plan is sent.
CHECK_DEADLOCK FALSE
SPECIFICATION PlanSpec
CONSTANTS
    Tids = {1, 2, 3}
    Cpus = {0, 1, 2, 3}
    Domains = {0, 1, 2}
    DomainOf <- MCDomainOf
    EligibleCpus = {0, 1, 2}
    EligibleDomains = {0, 1}
    Masks = {{0, 1, 2, 3}, {0, 3}}
    PreviousCpus <- MCPreviousCpus
    RecentCpus = {0, 2}
    ActiveSets = {{1, 2, 3}}
    Builds = {FALSE, TRUE}
    Tgid <- MCTgid
    DfCapacity <- MCCapacity
    LlcFull = 4
    Deadband = 2
    Margin = 2000
    MaxPasses = 2
    ItemLimit = 2
    DomainLimit = 1
    SwapItems = 2
    Snapshots <- MCSnapshots
INVARIANTS
    PredictedExact
    NoHarm
    SettledStay
    TargetLegal
    NoAvoidableSharing
    TargetsSticky
PROPERTY
    PlanCompletes
