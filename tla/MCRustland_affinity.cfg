SPECIFICATION Spec
CONSTANTS
    c1 = c1
    c2 = c2
    c3 = c3
    t1 = t1
    t2 = t2
    Cpus <- ThreeCpus
    Tasks = {t1, t2}
    Internal = {t2}
    UsMask = {c1}
    QueuedCap = 1
    DispatchedCap = 1
    MaxDefer = 1
    MaxAffinity = 1
SYMMETRY OtherCpus
CONSTRAINT Limited
INVARIANTS
    Custody
    HandedOnce
PROPERTY
    LifecycleSpec
