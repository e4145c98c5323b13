CONSTANTS
    TotalClusters = 4
    DirSlots = 1
    ClusterSize = 2
    FileNames = {a, b}
    DirNames = {d}
    MAX_FILES = 2
    Sizes = {2}
    Offsets = {3}
    MAX_PATH_DEPTH = 1
    MaxSize = 5
SYMMETRY NameSymmetry
SPECIFICATION Spec
INVARIANTS NoCrossLink NoDanglingLink SizeCovered
PROPERTIES OthersUntouched
