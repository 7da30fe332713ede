---------------------------- MODULE MCSgpuSched ----------------------------
(***************************************************************************)
(* SgpuSched for TLC: process P on instance 0 and process Q on instance 1. *)
(***************************************************************************)
EXTENDS SgpuSched, TLC

CONSTANTS P, Q

MCInstOf == P :> 0 @@ Q :> 1

MCSymmetry == Permutations(Cmd) \cup Permutations(Kthread)
=============================================================================
