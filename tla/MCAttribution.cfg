SPECIFICATION Spec
CONSTANTS
    MaxEpoch = 2
    MaxRev = 2
    l1 = l1
    l2 = l2
    Links = {l1, l2}
    Threads = {1, 2}
    Bandwidths = {2, 7}
    Traffic <- MCTraffic
    MaxSweeps = 1
    WeightScale = 8
    WeightFloor = 4
    WeightMin = 3
    DecayDivisor = 2
    MaxSamples = 3
    MaxChanges = 2
SYMMETRY LinkSymmetry
INVARIANT
    EvidenceCovered
PROPERTIES
    ArmedForward
    GainsCovered
