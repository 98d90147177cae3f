------------------------------ MODULE MCWorld ------------------------------
(* Instances of World for TLC: addresses of one kind are alike.             *)
EXTENDS World, TLC
Addresses == Permutations(Wrappers) \cup Permutations(Handles)

(* All objects hash to one slot, from which a walk wraps round.             *)
HomeOf == [u \in Objects |-> HuskCap - 1]
=============================================================================
