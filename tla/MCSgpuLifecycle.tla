-------------------------- MODULE MCSgpuLifecycle --------------------------
(***************************************************************************)
(* SgpuLifecycle for TLC: process P opens instance 0 and process Q         *)
(* instance 1 of a GPU with two instances, whose driver devices are all    *)
(* there or lack the render node.                                          *)
(***************************************************************************)
EXTENDS SgpuLifecycle, TLC

CONSTANTS P, Q

MCInstOf == P :> 0 @@ Q :> 1
MCDeviceSets == {Device, Device \ {"render"}}
=============================================================================
