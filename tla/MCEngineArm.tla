---------------------------- MODULE MCEngineArm ----------------------------
(* Instances of EngineArm for TLC: the two machines may be exchanged.       *)
EXTENDS EngineArm, TLC

Machines == Permutations(Peer)
=============================================================================
