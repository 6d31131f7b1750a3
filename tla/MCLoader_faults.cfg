\* Two overlapping loads under every fault, any nodes reliable.
SPECIFICATION Spec
CONSTANTS
    Loads = {l1, l2}
    NodeCount = 2
    MaxVersion = 2
    Size <- Shrinking
    DiskFaults = TRUE
    MayCrash = TRUE
    MayAbandon = TRUE
SYMMETRY Symmetry
INVARIANTS
    TypeOK
    OkMeansSnapshot
    OneReliableNodeSuffices
PROPERTIES
    NewestStays
    ImplementsLoadService
