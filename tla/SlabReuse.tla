----------------------------- MODULE SlabReuse -----------------------------
(***************************************************************************)
(* quarantine.cpp with the hooks of idspine.cpp: a block the game frees     *)
(* while the engine is on stays in use until no rollback can reach the      *)
(* frame it died in.  Both key on effective_frame(), the clock of           *)
(* FrameClock, and both are part of a larger step: the save of a frame, a   *)
(* rollback, a disarm.                                                     *)
(*                                                                         *)
(* The game's memory is what each block holds (an object's identity, or     *)
(* none) and the in-use bit of its header; a rollback puts it back to the   *)
(* save of its target.  The serials of idspine are not put back.            *)
(***************************************************************************)
EXTENDS FrameClock, FiniteSets

CONSTANTS
  Blocks,      \* slabs of the allocator
  Grace,       \* GRACE
  TableMax,    \* CAP of the quarantine's table
  RingSlots,   \* QU_RING
  SaveFails,   \* whether a save may be taken without the critical sections
  MaxSerial    \* bound of the model: births

ASSUME SlabAssumption ==
  /\ IsFiniteSet(Blocks) /\ {Grace, TableMax, RingSlots, MaxSerial} \subseteq Nat
  /\ Grace >= MaxDepth /\ RingSlots > MaxDepth /\ SaveFails \in BOOLEAN

VARIABLES
  inUse,    \* per block: bit 0 of block+0x38
  object,   \* per block: the serial of the live object in it, or 0
  serial,   \* per block: idspine's serial, of the last birth in it
  births,   \* idspine's g_ctr
  table,    \* g_ent: the held entries
  slots,    \* per saved frame: the game's memory and, when valid, the table;
            \* left: ghost, a rollback has gone back beyond the frame
  past      \* ghost: no rollback yet, some, or one that fell back after another

memory   == <<inUse, object>>
slabVars == <<inUse, object, serial, births, table, slots, past>>

Dead == 0

Turned(p) == IF p = "straight" THEN "turned" ELSE p

SlabInit ==
  /\ inUse = [b \in Blocks |-> FALSE] /\ object = [b \in Blocks |-> Dead]
  /\ serial = [b \in Blocks |-> 0] /\ births = 0
  /\ table = {} /\ slots = <<>> /\ past = "straight"

----------------------------------------------------------------------------
(* The game, in a live frame or a replayed one.                             *)

(* hk_carve with put(): a free block is handed out under a new serial.      *)
Carve(b) ==
  /\ ~inUse[b] /\ births < MaxSerial
  /\ births' = births + 1
  /\ serial' = [serial EXCEPT ![b] = births + 1]
  /\ object' = [object EXCEPT ![b] = births + 1]
  /\ inUse' = [inUse EXCEPT ![b] = TRUE]
  /\ UNCHANGED <<table, slots, past>>

Entry(b) == [block |-> b, frame |-> Effective, serial |-> serial[b]]

MutantUncapped(b) == table' = table \cup {Entry(b)} /\ UNCHANGED inUse

(* on_free: the block stays in use.  A full table holds it without an       *)
(* entry, which nothing ever releases.                                      *)
Held(b) ==
  /\ table' = IF Cardinality(table) < TableMax THEN table \cup {Entry(b)} ELSE table
  /\ UNCHANGED inUse

(* hk_free: with the engine off the block goes back to the allocator; a     *)
(* block whose header says it is free is not freed again.                   *)
Free(b) ==
  /\ object[b] # Dead
  /\ object' = [object EXCEPT ![b] = Dead]
  /\ IF on /\ inUse[b] THEN Held(b)
     ELSE inUse' = [inUse EXCEPT ![b] = FALSE] /\ UNCHANGED table
  /\ UNCHANGED <<serial, births, slots, past>>

SlabGame == \E b \in Blocks : Carve(b) \/ Free(b)

----------------------------------------------------------------------------
(* The frame driver.                                                        *)

MutantNoHorizon(e) == frame - e.frame >= Grace - MaxDepth

(* The adaptive horizon is at most MaxDepth + 8, below GRACE.               *)
PastHorizon(e) == frame - e.frame > Grace

(* The real free of a flush: not of a block carved again, nor of a free one. *)
Released(E) == {e.block : e \in {d \in E : serial[d.block] = d.serial /\ inUse[d.block]}}

Without(B) == [b \in Blocks |-> inUse[b] /\ b \notin B]

Saved(valid) ==
  [inUse |-> inUse', object |-> object, table |-> IF valid THEN table' ELSE {}, valid |-> valid,
   left |-> FALSE]

(* on_frame's flush, then the save of the frame with save_table.            *)
SlabFrame ==
  LET due == {e \in table : PastHorizon(e)}
  IN /\ inUse' = Without(Released(due))
     /\ table' = table \ due
     /\ \E valid \in IF SaveFails THEN BOOLEAN ELSE {TRUE} :
          slots' = [f \in {g \in DOMAIN slots : g > frame - RingSlots} \cup {frame} |->
                      IF f = frame THEN Saved(valid) ELSE slots[f]]
     /\ UNCHANGED <<object, serial, births, past>>

MutantTableKept(target) == table' = table

(* restore_table; or, when the slot has no table of its frame, reconcile:   *)
(* the frees stamped after the target did not happen.                       *)
TableRestored(target) ==
  table' = IF slots[target].valid THEN slots[target].table
           ELSE {e \in table : e.frame <= target}

(* A rollback: the memory of the save, and the table with it.  The slots of *)
(* the frames it leaves behind stay as they are.                            *)
SlabRollback(target) ==
  /\ target \in DOMAIN slots
  /\ inUse' = slots[target].inUse /\ object' = slots[target].object
  /\ TableRestored(target)
  /\ slots' = [f \in DOMAIN slots |-> [slots[f] EXCEPT !.left = @ \/ f > target]]
  /\ past' = IF slots[target].valid \/ past = "straight" THEN Turned(past) ELSE "blind"
  /\ UNCHANGED <<serial, births>>

(* capture_baseline: the saves of an earlier arm are gone.                  *)
SlabArm ==
  /\ slots' = <<>> /\ past' = IF past = "blind" THEN past ELSE "straight"
  /\ UNCHANGED <<inUse, object, serial, births, table>>

(* flush_all: nothing can be rolled back any more.                          *)
SlabDisarm ==
  /\ inUse' = Without(Released(table))
  /\ table' = {} /\ slots' = <<>>
  /\ UNCHANGED <<object, serial, births, past>>
=============================================================================
