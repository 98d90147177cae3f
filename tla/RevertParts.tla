---------------------------- MODULE RevertParts ----------------------------
(***************************************************************************)
(* resim.cpp: what a rollback puts back besides the pages.  The game's      *)
(* state is in five places that are saved in rings of their own and put     *)
(* back one after the other: the pages of the arena, the .data section, the *)
(* heap zone's offset and the heads of the allocators.  What lies inside    *)
(* them and belongs to the system must stay, and is taken before the load   *)
(* and written back after it: the PRESERVE fields of .data, and in the      *)
(* pages the sound resources, the streaming engine's objects, the device's  *)
(* handles, the COM pointers of render sub-objects and the allocators'      *)
(* critical sections.  The room to take sounds and sub-objects is limited.  *)
(*                                                                         *)
(* A part's content is the instant it was written at.  ArenaSnapshot says   *)
(* which bytes the pages of a saved frame are; here they are that frame's.  *)
(***************************************************************************)
EXTENDS FrameClock, Sequences

CONSTANTS
  PageSlots,   \* RING_SLOTS of the arena
  PartSlots,   \* DATA_RING_SLOTS, ALLOC_RING_SLOTS
  Short,       \* the parts of the system there may be more of than there is room for
  MaxInstant   \* bound of the model: instants

ASSUME PartsAssumption ==
  /\ {PageSlots, PartSlots, MaxInstant} \subseteq Nat /\ PageSlots >= MaxDepth /\ PartSlots >= MaxDepth
  /\ Short \subseteq {"sounds", "audio", "subobjects"}

VARIABLES
  parts,      \* per part: the instant its content is of
  now,        \* the latest instant
  pages,      \* g_ring: per saved frame, the instant
  baseline,   \* g_baseline: the instant of the last arm
  ring,       \* g_data_ring, g_hz_ring, g_alloc_ring: the last saves, in order
  reverted,   \* ghost: the target of a rollback whose replay has not begun, or Live
  missed      \* ghost: parts of the system a rollback had no room to take, until the game writes them

partVars == <<parts, now, pages, baseline, ring, reverted, missed>>

Restored == {"pages", "data", "zone", "heads"}
InPages  == {"sounds", "audio", "handles", "subobjects", "sections"}
Present  == {"preserve"} \cup InPages
Blank    == -1

PartsInit ==
  /\ parts = [p \in Restored \cup Present |-> 0] /\ now = 0
  /\ pages = <<>> /\ baseline = 0 /\ ring = <<>> /\ reverted = Live /\ missed = {}

(* A frame runs: the game writes all its state, the system all of its own.  *)
PartsGame ==
  /\ now < MaxInstant
  /\ now' = now + 1 /\ parts' = [p \in DOMAIN parts |-> now + 1]
  /\ reverted' = Live /\ missed' = {}
  /\ UNCHANGED <<pages, baseline, ring>>

(* save_data, save_heap_zone, save_allocators, arena::save; the last, alone, *)
(* may find no memory for its slot.                                         *)
PartsFrame ==
  /\ ring' = LET longer == Append(ring, [frame |-> frame, parts |-> parts])
             IN IF Len(ring) < PartSlots THEN longer ELSE Tail(longer)
  /\ \E new \in {{}, {frame}} :
       pages' = [f \in {g \in DOMAIN pages : g > frame - PageSlots} \cup new |->
                   IF f = frame THEN parts["pages"] ELSE pages[f]]
  /\ UNCHANGED <<parts, now, baseline, reverted, missed>>

----------------------------------------------------------------------------
(* The rings are searched for the newest save that is not after the target. *)

AtOrBefore(target) == {i \in DOMAIN ring : ring[i].frame <= target}

MutantNearest(target) ==
  CHOOSE i \in AtOrBefore(target) : \A j \in AtOrBefore(target) : ring[i].frame <= ring[j].frame

Nearest(target) ==
  CHOOSE i \in AtOrBefore(target) : \A j \in AtOrBefore(target) : ring[j].frame <= ring[i].frame

(* arena::load: a frame it has no slot of is taken to be the baseline.  The *)
(* pages bring all that lies in them with them.                             *)
PagesBack(m, target) ==
  LET instant == IF target \in DOMAIN pages THEN pages[target] ELSE baseline
  IN [p \in DOMAIN m |-> IF p \in {"pages"} \cup InPages THEN instant ELSE m[p]]

(* restore_data copies the whole section, and then the PRESERVE fields back. *)
DataBack(m, target) ==
  IF AtOrBefore(target) = {} THEN m
  ELSE LET saved == ring[Nearest(target)].parts
           whole == [m EXCEPT !["data"] = saved["data"], !["preserve"] = saved["preserve"]]
       IN [whole EXCEPT !["preserve"] = m["preserve"]]

(* restore_heap_zone                                                        *)
ZoneBack(m, target) ==
  IF AtOrBefore(target) = {} THEN m
  ELSE [m EXCEPT !["zone"] = ring[Nearest(target)].parts["zone"]]

(* restore_allocators steps over the critical sections.  A slot never saved *)
(* passes its search, as of frame -1.                                       *)
HeadsBack(m, target) ==
  IF AtOrBefore(target) # {} THEN [m EXCEPT !["heads"] = ring[Nearest(target)].parts["heads"]]
  ELSE IF Len(ring) < PartSlots THEN [m EXCEPT !["heads"] = Blank]
  ELSE m

(* What of part p was taken before the load is written back, if taken.      *)
PutBack(m, p, untaken) == IF p \in untaken THEN m ELSE [m EXCEPT ![p] = parts[p]]

(* sound_resource_preserve: the registered objects that still are sounds.   *)
SoundsBack(m, untaken) == PutBack(m, "sounds", untaken)

(* audio_preserve: the containers and what the walk from sSound reaches.    *)
AudioBack(m, untaken) == PutBack(m, "audio", untaken)

(* handle_preserve: the registered words of sRender and sUnit.              *)
HandlesBack(m) == PutBack(m, "handles", {})

(* RSUB-PRESERVE: the pointers found by a walk over the scheduler's lines.  *)
SubobjectsBack(m, untaken) == PutBack(m, "subobjects", untaken)

(* cs_keeplive_restore, the last writer over the allocators' pages.         *)
SectionsBack(m) == PutBack(m, "sections", {})

AllBack(target, untaken) ==
  LET loaded == AudioBack(SoundsBack(PagesBack(parts, target), untaken), untaken)
      placed == ZoneBack(DataBack(loaded, target), target)
  IN SectionsBack(HeadsBack(SubobjectsBack(HandlesBack(placed), untaken), target))

PartsRollback(target) ==
  /\ target >= 0
  /\ \E untaken \in SUBSET Short :
       /\ parts' = AllBack(target, untaken)
       /\ missed' = missed \cup untaken
  /\ reverted' = target
  /\ UNCHANGED <<now, pages, baseline, ring>>

(* capture_baseline empties the arena's ring, and no other.                 *)
PartsArm ==
  /\ pages' = <<>> /\ baseline' = parts["pages"]
  /\ UNCHANGED <<parts, now, ring, reverted, missed>>
=============================================================================
