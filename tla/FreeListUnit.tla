---------------------------- MODULE FreeListUnit ----------------------------
(***************************************************************************)
(* The free-list unit of resim.cpp: at every save the chain of free blocks  *)
(* of an allocator is walked under its critical sections, put right where   *)
(* it is not, and captured with the allocator's descriptor; a rollback      *)
(* replays the capture over pages that may come from several frames.        *)
(*                                                                         *)
(* One size class of the "Unit" allocator, whose alloc list is captured     *)
(* too.  Addresses are numbers, so a rebuilt chain ascends.  The engine's   *)
(* splices are external; +0x20 of a block in use belongs to the alloc list  *)
(* and holds whatever that list needs.                                     *)
(***************************************************************************)
EXTENDS FrameClock, FiniteSets, FiniteSetsExt

CONSTANTS
  Nodes,       \* the blocks of the class, by address
  Loose,       \* blocks on pages a load does not always take from the target's frame
  AllocSlots,  \* ALLOC_RING_SLOTS
  LockMisses,  \* whether all 64 tries for the critical sections may fail
  MaxSplices,  \* bound of the model: what the engine does to the chain
  MaxSaves     \* bound of the model: live frames

ASSUME FreeListAssumption ==
  /\ Nodes \subseteq Nat \ {0} /\ IsFiniteSet(Nodes) /\ Nodes # {} /\ Loose \subseteq Nodes
  /\ {AllocSlots, MaxSplices, MaxSaves} \subseteq Nat /\ AllocSlots > MaxDepth /\ LockMisses \in BOOLEAN

VARIABLES
  heap,     \* the descriptor's head and count; per block +0x20 and bit 0 of +0x38;
            \* and the blocks the game believes are its own
  units,    \* per saved frame: the descriptor, the pages and, when valid, the unit
  drifted,  \* ghost: since the last good save the engine lost a count, or a
            \* rollback had no unit to replay
  unpaired, \* ghost: a rollback replayed no unit, or one without the alloc list
  splices   \* what the engine did to the chain so far

listVars == <<heap, units, drifted, unpaired, splices>>

Nil == 0

(* The k-th block of a walk along +0x20, from 0; Nil once it has ended.     *)
Walk(h, k) ==
  LET at_[i \in 0..k] ==
        IF i = 0 THEN h.head ELSE IF at_[i - 1] = Nil THEN Nil ELSE h.next[at_[i - 1]]
  IN at_[k]

Within(h, n) == {Walk(h, k) : k \in 0..n} \ {Nil}

(* A walk of at most n blocks reaches the end and meets none in use.        *)
EndsWithin(h, n) == Walk(h, n) = Nil /\ \A b \in Within(h, n) : ~h.used[b]

(* A chain that ends has no block twice.                                    *)
Chain(h)  == Within(h, Cardinality(Nodes))
Length(h) == Cardinality(Chain(h))

AllFree ==
  LET following(b) == {c \in Nodes : c > b}
  IN [head |-> Min(Nodes), count |-> Cardinality(Nodes),
      next |-> [b \in Nodes |-> IF following(b) = {} THEN Nil ELSE Min(following(b))],
      used |-> [b \in Nodes |-> FALSE], owned |-> {}]

----------------------------------------------------------------------------
(* The engine's allocator.                                                  *)

Before(h, b) == {a \in Chain(h) : h.next[a] = b}

(* The unlink of a carve is skipped while the count says there is nothing.  *)
Unlinked(h, b) ==
  IF h.count = 0 THEN h
  ELSE [h EXCEPT !.head = IF @ = b THEN h.next[b] ELSE @,
                 !.next = [a \in Nodes |-> IF h.head # b /\ a \in Before(h, b) THEN h.next[b] ELSE @[a]],
                 !.count = @ - 1]

Carved(h, b, link) ==
  [Unlinked(h, b) EXCEPT !.used[b] = TRUE, !.next[b] = link, !.owned = @ \cup {b}]

(* A block whose header says it is free is not freed again (idspine).       *)
Returned(h, b) ==
  IF h.used[b]
  THEN [h EXCEPT !.next[b] = h.head, !.head = b, !.count = @ + 1,
                 !.used[b] = FALSE, !.owned = @ \ {b}]
  ELSE [h EXCEPT !.owned = @ \ {b}]

Spliced(h) ==
  {Carved(h, b, link) : b \in Chain(h), link \in {Nil} \cup {b \in Nodes : h.used[b]}}
    \cup {Returned(h, b) : b \in h.owned}

(* The match is under way when the engine is first armed.                  *)
ListInit ==
  /\ heap \in {AllFree} \cup {Carved(AllFree, b, Nil) : b \in Nodes} /\ units = <<>>
  /\ drifted = FALSE /\ unpaired = FALSE /\ splices = 0

(* A splice; or the count alone goes down, as it does in the unmodified game. *)
ListGame ==
  /\ splices < MaxSplices /\ splices' = splices + 1
  /\ \/ heap' \in Spliced(heap) /\ UNCHANGED drifted
     \/ heap.count > 0 /\ heap' = [heap EXCEPT !.count = @ - 1] /\ drifted' = TRUE
  /\ UNCHANGED <<units, unpaired>>

----------------------------------------------------------------------------
(* save_allocators with save_freelists, for a live frame.                   *)

(* rebuild_free_list_from_pool: the blocks whose own bit says free.         *)
Rebuilt(h) ==
  LET free == {b \in Nodes : ~h.used[b]}
      following(b) == {c \in free : c > b}
  IN [h EXCEPT !.head = IF free = {} THEN Nil ELSE Min(free),
               !.count = Cardinality(free),
               !.next = [b \in Nodes |-> IF b \notin free THEN @[b]
                                         ELSE IF following(b) = {} THEN Nil ELSE Min(following(b))]]

Declines(h) == h.count > 0 /\ \A b \in Nodes : h.used[b]

MutantNotHealed(h) == h

(* COUNT-DRIFT HEAL: the chain is right, the count is derived from it.      *)
Healed(h) == [h EXCEPT !.count = Length(h)]

Walkable(h) == EndsWithin(h, h.count + 3)

(* Under the sections: the list is put right, then captured.  A rebuilt     *)
(* class has no alloc list in the slot; an alloc list may be unwalkable.    *)
LockedSave(h, alist) ==
  LET good == IF Walkable(h) THEN Healed(h) ELSE IF Declines(h) THEN h ELSE Rebuilt(h)
  IN [head |-> good.head, count |-> good.count, heap |-> good,
      valid |-> Walkable(h) \/ ~Declines(h), alist |-> alist /\ Walkable(h)]

(* The unlocked fallback: a worker may splice between the descriptor's copy *)
(* and the pages'; no unit is captured.                                     *)
TornSave(h, later) ==
  [head |-> h.head, count |-> h.count, heap |-> later, valid |-> FALSE, alist |-> FALSE]

Save(unit) ==
  /\ frame < MaxSaves
  /\ heap' = unit.heap
  /\ units' = [f \in {g \in DOMAIN units : g > frame - AllocSlots} \cup {frame} |->
                 IF f = frame THEN unit ELSE units[f]]
  /\ drifted' = (drifted /\ ~unit.valid)
  /\ UNCHANGED unpaired

ListFrame ==
  \/ \E alist \in BOOLEAN : Save(LockedSave(heap, alist)) /\ UNCHANGED splices
  \/ LockMisses /\ Save(TornSave(heap, heap)) /\ UNCHANGED splices
  \/ /\ LockMisses /\ splices < MaxSplices /\ splices' = splices + 1
     /\ \E later \in Spliced(heap) : Save(TornSave(heap, later))

----------------------------------------------------------------------------
(* A rollback.                                                              *)

MutantFreeListOnly(unit) == IF unit.valid THEN Chain(unit.heap) ELSE {}

(* restore_freelists: the blocks whose header fields are replayed.          *)
Replayed(unit) ==
  IF ~unit.valid THEN {}
  ELSE Chain(unit.heap) \cup IF unit.alist THEN {b \in Nodes : unit.heap.used[b]} ELSE {}

(* arena::load, with some loose pages left as they were; restore_allocators *)
(* puts the descriptor over it, restore_freelists the unit.                 *)
Reverted(unit, left) ==
  LET live == left \ Replayed(unit)
  IN [unit.heap EXCEPT
        !.head = unit.head, !.count = unit.count,
        !.next = [b \in Nodes |-> IF b \in live THEN heap.next[b] ELSE @[b]],
        !.used = [b \in Nodes |-> IF b \in live THEN heap.used[b] ELSE @[b]]]

(* repair_freelists: the count of a chain that can be trusted.              *)
Repaired(h) ==
  LET cap == IF h.count < 2 THEN 4 ELSE h.count + 2
  IN IF h.head # Nil /\ EndsWithin(h, cap + 1) THEN [h EXCEPT !.count = Length(h)] ELSE h

ListRollback(target) ==
  /\ target \in DOMAIN units
  /\ \E left \in SUBSET Loose : heap' = Repaired(Reverted(units[target], left))
  /\ drifted' = ~units[target].valid
  /\ unpaired' = (unpaired \/ ~units[target].alist)
  /\ UNCHANGED <<units, splices>>

(* The repair after the last replayed frame.                                *)
ListResume == heap' = Repaired(heap) /\ UNCHANGED <<units, drifted, unpaired, splices>>

(* The saves of an earlier arm are out of reach.                            *)
ListSwitch == units' = <<>> /\ UNCHANGED <<heap, drifted, unpaired, splices>>
=============================================================================
