\* Two overlapping loads: the older answer is applied last.
SPECIFICATION Spec
CONSTANTS
    Loads = {l1, l2}
    NodeCount = 1
    MaxVersion = 2
    Size <- Shrinking
    DiskFaults = FALSE
    MayCrash = FALSE
    MayAbandon = FALSE
INVARIANTS
    LoadIsFresh
