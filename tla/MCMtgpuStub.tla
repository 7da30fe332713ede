---------------------------- MODULE MCMtgpuStub ----------------------------
(***************************************************************************)
(* MtgpuStub for TLC: no other driver has a card, or one has card 0.       *)
(***************************************************************************)
EXTENDS MtgpuStub, TLC

MCOtherCards == {{}, {0}}
MCSymmetry == Permutations(Pdev)
=============================================================================
