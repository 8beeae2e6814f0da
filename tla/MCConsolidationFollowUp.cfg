SPECIFICATION Spec
CONSTANTS
    b1 = b1
    b2 = b2
    k1 = k1
    k2 = k2
    s1 = s1
    s2 = s2
    None = None
    Batches <- TwoBatches
    Clusters <- TwoClusters
    Settles <- TwoSettles
    Runs = 3
    MaxTriggers = 0
    MaxFaults = 0
PROPERTIES EveryBatchClustered
CHECK_DEADLOCK FALSE
