\* All hints, from two threads.
SPECIFICATION FairSpec
CONSTANTS
    input = input
    display = display
    NoOne = NoOne
    Callers <- MCCallers
    InteractiveCallers <- MCInteractiveCallers
    LowPowerClusters <- MCLowPowerClusters
    max_clusters = 1
    BoostTime = 2
    MaxTime = 3
INVARIANTS
    BoostInv
    BoostNotCutShort
    BoostIsBacked
PROPERTIES
    BoostEnds
