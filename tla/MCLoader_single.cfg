\* One load at a time; the disk may fail and the process be killed.
SPECIFICATION FairSpec
CONSTANTS
    Loads = {l1}
    NodeCount = 3
    MaxVersion = 4
    Size <- Shrinking
    DiskFaults = TRUE
    MayCrash = TRUE
    MayAbandon = TRUE
INVARIANTS
    LoadIsFresh
    CacheMatchesSnapshot
    PullSurvives
PROPERTIES
    SnapshotNeverRegresses
    LoadsReturn
