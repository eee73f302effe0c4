SPECIFICATION FairSpec
CONSTANTS
    MaxPids = 3
    CommandLines <- MCCommandLines
    MaxIntruders = 1
    MaxFaults = 2
INVARIANTS
    GuardSound
PROPERTIES
    GuardCatches
    AllAdopted
    ChildrenReaped
CHECK_DEADLOCK FALSE
