-------------------------- MODULE MCArenaSnapshot --------------------------
(* Instances of ArenaSnapshot for TLC: the bytes other than zero may be     *)
(* exchanged.                                                              *)
EXTENDS ArenaSnapshot, TLC

Exchanged == Permutations(Values \ {Zero})
=============================================================================
