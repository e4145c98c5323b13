------------------------------ MODULE MCFat32 -------------------------------
EXTENDS Fat32, TLC

\* Names used in the same way are interchangeable.
NameSymmetry ==
    Permutations(FileNames \ DirNames) \cup Permutations(DirNames \ FileNames)
=============================================================================
