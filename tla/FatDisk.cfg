CONSTANTS
    Cluster = {c1, c2, c3}
    Names = {a, b}
    DirSlots = 2
    MaxPos = 1
    MaxFaults = 1
SYMMETRY Symmetry
SPECIFICATION Spec
INVARIANTS HarmContained CopiesAgree
