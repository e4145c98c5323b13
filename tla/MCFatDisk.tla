------------------------------ MODULE MCFatDisk -----------------------------
(***************************************************************************)
(* FatDisk for TLC: clusters and names are interchangeable.                *)
(***************************************************************************)
EXTENDS FatDisk, TLC

Symmetry == Permutations(Cluster) \cup Permutations(Names)
=============================================================================
