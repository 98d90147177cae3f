----------------------------- MODULE MCSession -----------------------------
(* Instances of Session for TLC: the two machines may be exchanged.         *)
EXTENDS Session, TLC

Machines == Permutations(Peer)
=============================================================================
