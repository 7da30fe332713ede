---------------------------- MODULE MCSgpuParams ----------------------------
(***************************************************************************)
(* SgpuParams for TLC: callers, instances and tasks are interchangeable.   *)
(***************************************************************************)
EXTENDS SgpuParams, TLC

MCSymmetry == Permutations(Caller) \cup Permutations(Inst) \cup Permutations(Task)
=============================================================================
