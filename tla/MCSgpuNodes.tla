---------------------------- MODULE MCSgpuNodes ----------------------------
(* SgpuNodes for TLC: writers and container ids are interchangeable.       *)
EXTENDS SgpuNodes, TLC

MCSymmetry == Permutations(Writer) \cup Permutations(Name)
=============================================================================
