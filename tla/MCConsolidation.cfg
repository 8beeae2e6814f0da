SPECIFICATION Spec
CONSTANTS
    b1 = b1
    b2 = b2
    k1 = k1
    k2 = k2
    s1 = s1
    s2 = s2
    None = None
    Batches <- TwoBatches
    Clusters <- TwoClusters
    Settles <- OneSettle
    Runs = 2
    MaxTriggers = 1
    MaxFaults = 1
INVARIANTS TypeOK PendingIsSeen DirtyIsOwed 
SYMMETRY Symmetry
CHECK_DEADLOCK FALSE
