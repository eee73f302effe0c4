SPECIFICATION Spec
CONSTANTS
    Apps = {0, 1}
    Tids = {1, 2, 3}
    Cpus = {0, 1}
    Domains = {0}
    DomainOf <- MCDomainOf
    RootOf <- MCRootOf
    Mask <- MCMask
    EligibleCpus = {0, 1}
    Policies = {"Static", "DelayRange"}
    DelayLow = 1
    DelayHigh = 1
    ControlInterval = 1
    Senders <- MCSenders
    Mortal = {2}
    HotCpus = {1}
    BusyCpus = {}
    MaxDelay = 2
    MaxPending = 2
INVARIANTS
    OwnedOnce
    NeedyServed
    NothingRunnableLeft
CHECK_DEADLOCK FALSE
