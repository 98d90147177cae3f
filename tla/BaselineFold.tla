---------------------------- MODULE BaselineFold ----------------------------
(***************************************************************************)
(* What folding promises, whoever does the copying: slots age into the      *)
(* baseline one after the other, each with all its pages, so a page of the  *)
(* baseline is the copy of the newest slot that had one.                    *)
(***************************************************************************)
EXTENDS Naturals

CONSTANTS Pages, MaxSlots

VARIABLES
  base,     \* page -> the slot its copy came from
  slot,     \* number of the newest slot, 0 before the first
  aging,    \* its pages, until they are folded
  folding   \* whether it is still to be folded

vars == <<base, slot, aging, folding>>

Init == base = [p \in Pages |-> 0] /\ slot = 0 /\ aging = {} /\ folding = FALSE

(* A slot is about to be reused.                                            *)
Reuse ==
  /\ ~folding /\ slot < MaxSlots
  /\ slot' = slot + 1 /\ aging' \in SUBSET Pages /\ folding' = TRUE
  /\ base' = base

Fold ==
  /\ folding
  /\ base' = [p \in Pages |-> IF p \in aging THEN slot ELSE base[p]]
  /\ aging' = {} /\ folding' = FALSE /\ slot' = slot

(* The engine is armed again: every page is copied anew.                    *)
Capture ==
  /\ ~folding
  /\ base' = [p \in Pages |-> slot]
  /\ UNCHANGED <<slot, aging, folding>>

Next == Reuse \/ Fold \/ Capture

Spec == Init /\ [][Next]_vars
=============================================================================
