--------------------------- MODULE MCDeferredFold ---------------------------
(* Instances of DeferredFold for TLC: the pages may be exchanged.           *)
EXTENDS DeferredFold, TLC

Exchanged == Permutations(Pages)
=============================================================================
