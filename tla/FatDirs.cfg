CONSTANTS
    TotalClusters = 4
    DirSlots = 2
    ClusterSize = 1
    FileNames = {a}
    DirNames = {d}
    MAX_FILES = 1
    Sizes = {}
    Offsets = {}
    MAX_PATH_DEPTH = 2
    MaxSize = 1
SPECIFICATION LSpec
INVARIANTS NoLostCluster NoHiddenEntry PathMatchesCwd ListingComplete
