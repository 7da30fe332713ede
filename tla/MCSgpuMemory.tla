---------------------------- MODULE MCSgpuMemory ----------------------------
(***************************************************************************)
(* SgpuMemory for TLC: process P has two threads, process Q is its child   *)
(* and has one; Q can use and close the files P opened.                    *)
(***************************************************************************)
EXTENDS SgpuMemory, TLC

CONSTANTS P, Q, t1, t2, u1

MCTgidOf == t1 :> P @@ t2 :> P @@ u1 :> Q

MCInherits == {<<P, Q>>}

(* The two files, and the two addresses of each object, are interchangeable *)
MCSymmetry == Permutations(File) \cup Permutations(TaskObj)
                  \cup Permutations(HandlerObj) \cup Permutations({t1, t2})
=============================================================================
