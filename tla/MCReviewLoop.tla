----------------------------- MODULE MCReviewLoop -----------------------------
(* Instances of ReviewLoop for TLC; the bounds are in the cfg files.         *)
EXTENDS ReviewLoopProperties, TLC

(* Review processes are interchangeable.                                     *)
HookSymmetry == Permutations(HookIds)
===============================================================================
