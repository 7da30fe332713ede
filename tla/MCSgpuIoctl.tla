---------------------------- MODULE MCSgpuIoctl ----------------------------
(***************************************************************************)
(* SgpuIoctl for TLC.  Threads, descriptors and files are interchangeable. *)
(***************************************************************************)
EXTENDS SgpuIoctl, TLC

MCSymmetry == Permutations(Thread) \cup Permutations(Fd) \cup Permutations(File)
=============================================================================
