\* A load that fails with every node, and without a cache.
SPECIFICATION Spec
CONSTANTS
    Loads = {l1}
    NodeCount = 2
    MaxVersion = 2
    Size <- Shrinking
    DiskFaults = FALSE
    MayCrash = FALSE
    MayAbandon = FALSE
INVARIANTS
    FailureIsLoadFailed
