----------------------------- MODULE MCNetInput -----------------------------
(* Instances of NetInput for TLC: two machines, a pad that is neutral or   *)
(* pressed, and small queues.                                              *)
EXTENDS NetInput, TLC
Machines == Permutations(Peer)
=============================================================================
