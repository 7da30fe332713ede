--------------------------- MODULE MCSgpuDevices ---------------------------
(* Two GPUs that share two addresses, the second one added and removed;  *)
(* instance 15 is the one at the edge of the minor number's fields.        *)
EXTENDS SgpuDevices, TLC

CONSTANTS x, y, v, w

MCGpu == {0, 1}
MCInitGpus == {0}
MCObj == {x, y}
MCWriter == {v, w}
MCLists == {<<>>, <<0>>, <<1>>, <<1, 0>>}
MCSlots == {0, 15}

Symmetry == Permutations(MCObj) \cup Permutations(MCWriter)
=============================================================================
