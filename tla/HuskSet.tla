------------------------------ MODULE HuskSet ------------------------------
(***************************************************************************)
(* quarantine.cpp: the hash set of the dead objects the quarantine holds,   *)
(* which tells the sweeps that a pointer is dangling.  Open addressing with *)
(* a bounded number of probes; a deletion leaves a tombstone, which no      *)
(* insertion takes; only a rollback rebuilds the set, from the table.       *)
(*                                                                         *)
(* The table is SlabReuse's: here it is the sequence of its entries, of     *)
(* blocks that are not used again while they are in it.  A death there is   *)
(* no room for in the table (CAP) makes no entry and no husk, and is no     *)
(* step here.  The second set, of Default frees, is left out.               *)
(***************************************************************************)
EXTENDS FrameClock, Sequences

CONSTANTS
  Objects,      \* addresses of objects
  HuskCap,    \* HUSK_CAP
  Probes,     \* how many slots are tried
  Home,       \* husk_h
  HuskGrace,  \* GRACE
  HuskSlots   \* QU_RING

ASSUME HuskAssumption ==
  /\ {HuskCap, Probes, HuskGrace, HuskSlots} \subseteq Nat /\ HuskGrace >= MaxDepth
  /\ HuskCap > 0 /\ Probes <= HuskCap /\ HuskSlots > MaxDepth
  /\ Home \in [Objects -> 0..(HuskCap - 1)]
  /\ {"empty", "tombstone"} \cap Objects = {}

VARIABLES
  dead,      \* the entries of g_ent, in their order
  husks,     \* g_husk
  deadSlots, \* per saved frame: the entries
  crowded    \* ghost: an insertion has found no slot since the last rebuild

huskVars == <<dead, husks, deadSlots, crowded>>

Cleared == [k \in 0..(HuskCap - 1) |-> "empty"]

HuskInit == dead = <<>> /\ husks = Cleared /\ deadSlots = <<>> /\ crowded = FALSE

Mourned == {dead[i].user : i \in DOMAIN dead}

(* The slots at which a walk for a user stops: its own, or an empty one.    *)
Stops(a, u) == {i \in 0..(Probes - 1) : a[(Home[u] + i) % HuskCap] \in {u, "empty"}}

(* Where it stops first.                                                    *)
Slot(a, u) == (Home[u] + CHOOSE i \in Stops(a, u) : \A j \in Stops(a, u) : i <= j) % HuskCap

(* husk_add, which gives up in silence; husk_del; the walk of is_held_husk. *)
Added(a, u) == IF Stops(a, u) = {} THEN a ELSE [a EXCEPT ![Slot(a, u)] = u]

IsHusk(a, u) == Stops(a, u) # {} /\ a[Slot(a, u)] = u

MutantDeleted(a, u) == IF IsHusk(a, u) THEN [a EXCEPT ![Slot(a, u)] = "empty"] ELSE a

Deleted(a, u) == IF IsHusk(a, u) THEN [a EXCEPT ![Slot(a, u)] = "tombstone"] ELSE a

(* husk_rebuild_locked                                                      *)
HusksOf(s) ==
  LET added[i \in 0..Len(s)] == IF i = 0 THEN Cleared ELSE Added(added[i - 1], s[i].user)
  IN added[Len(s)]

AllDeleted(s) ==
  LET deleted[i \in 0..Len(s)] == IF i = 0 THEN husks ELSE Deleted(deleted[i - 1], s[i].user)
  IN deleted[Len(s)]

(* The entries of s at the places I, in their order.                        *)
Picked(s, I) ==
  LET picked[i \in 0..Len(s)] ==
        IF i = 0 THEN <<>>
        ELSE IF i \in I THEN Append(picked[i - 1], s[i]) ELSE picked[i - 1]
  IN picked[Len(s)]

(* on_free                                                                  *)
HuskGame ==
  \E u \in Objects \ Mourned :
    /\ on
    /\ dead' = Append(dead, [user |-> u, frame |-> Effective])
    /\ husks' = Added(husks, u)
    /\ crowded' = (crowded \/ Stops(husks, u) = {})
    /\ UNCHANGED deadSlots

(* flush, then save_table.                                                  *)
HuskFrame ==
  LET due == {i \in DOMAIN dead : frame - dead[i].frame > HuskGrace}
  IN /\ dead' = Picked(dead, DOMAIN dead \ due)
     /\ husks' = AllDeleted(Picked(dead, due))
     /\ deadSlots' = [f \in {g \in DOMAIN deadSlots : g > frame - HuskSlots} \cup {frame} |->
                        IF f = frame THEN dead' ELSE deadSlots[f]]
     /\ UNCHANGED crowded

(* reconcile: the deaths stamped after the target did not happen.           *)
Reconciled(target) == Picked(dead, {i \in DOMAIN dead : dead[i].frame <= target})

(* restore_table, or reconcile where the save has no valid table.           *)
HuskRollback(target) ==
  /\ target \in DOMAIN deadSlots
  /\ dead' \in {deadSlots[target], Reconciled(target)}
  /\ husks' = HusksOf(dead')
  /\ crowded' = \E i \in DOMAIN dead' : ~IsHusk(husks', dead'[i].user)
  /\ UNCHANGED deadSlots

HuskArm == deadSlots' = <<>> /\ UNCHANGED <<dead, husks, crowded>>

(* flush_all                                                                *)
HuskDisarm ==
  /\ husks' = AllDeleted(dead)
  /\ dead' = <<>> /\ deadSlots' = <<>>
  /\ UNCHANGED crowded
=============================================================================
