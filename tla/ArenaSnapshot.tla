--------------------------- MODULE ArenaSnapshot ---------------------------
(***************************************************************************)
(* The snapshot ring of arena.cpp, and how do_rollback of resim.cpp uses    *)
(* it.  While the engine is armed, every frame begins with a save of the    *)
(* pages written since the previous save (the operating system's write      *)
(* watch); a rollback loads the memory of an earlier frame from the ring    *)
(* and the baseline, and the frames in between are run again WITHOUT being  *)
(* saved.                                                                  *)
(*                                                                         *)
(* A page is a member of Pages and its bytes are a member of Values.  The   *)
(* ring's RING_SLOTS slots are used in turn, one save each, so it is the    *)
(* function from the frames of the last RingSlots saves to what each one    *)
(* stored; a save that fails leaves its slot invalid, that is, its frame    *)
(* out of the function's domain.                                           *)
(***************************************************************************)
EXTENDS Integers, FiniteSets, FiniteSetsExt

CONSTANTS
  Pages,          \* the pages of the arena
  ZonePages,      \* those of the heap zone, which lies above the carve watermark
  Excluded,       \* those registered as re-derived: a load leaves them live
  CoherentFull,   \* those of a list's own pool: a load never leaves them behind
  Values, Zero,   \* what a page may hold, and what a fresh page holds
  RingSlots,      \* RING_SLOTS
  MaxDepth,       \* MAX_ROLLBACK_DEPTH
  Windowed,       \* g_windowed_restore
  SaveMayFail,    \* whether a slot's buffer can fail to grow
  MaxFrame        \* bound of the model: frames a run of it may reach

ASSUME PagesAssumption ==
  /\ IsFiniteSet(Pages)
  /\ ZonePages \subseteq Pages /\ Excluded \subseteq Pages /\ CoherentFull \subseteq Pages
ASSUME ValuesAssumption == Zero \in Values
ASSUME BoundsAssumption ==
  /\ RingSlots \in Nat /\ MaxDepth \in Nat /\ MaxFrame \in Nat
  /\ 0 < MaxDepth /\ MaxDepth < RingSlots
ASSUME SwitchesAssumption == Windowed \in BOOLEAN /\ SaveMayFail \in BOOLEAN

VARIABLES
  mem,        \* the arena as the game sees it
  committed,  \* g_committed
  watch,      \* pages the operating system has seen written since its last reset
  ring,       \* g_ring: saved frame -> the pages stored for it
  dirtyBits,  \* g_dirty_bits: pages of the slots, accumulated
  rebuildIn,  \* s_rebuild_countdown
  baseline,   \* g_baseline and g_supplemental: page -> its copy
  armed,      \* g_engine_on, with a baseline captured
  frame,      \* g_frame_counter
  saved,      \* whether this frame's save has been done
  replay,     \* the frame being run again, or NotReplaying
  history,    \* ghost: the memory each frame of the current timeline began with
  rewound,    \* ghost: the lowest frame loaded since the baseline, or NoRewind
  lost        \* ghost: pages some failed save had harvested

vars == <<mem, committed, watch, ring, dirtyBits, rebuildIn, baseline,
          armed, frame, saved, replay, history, rewound, lost>>

NotReplaying == -1
NoRewind     == MaxFrame + 1
NoSlots      == [f \in {} |-> {}]

(* What save scans: [base, watermark).                                      *)
Scanned == Pages \ ZonePages

----------------------------------------------------------------------------
(* Restoring a page.                                                        *)

Holders(f, p) == {g \in DOMAIN ring : g <= f /\ p \in DOMAIN ring[g]}

(* The newest copy not later than frame f: a slot's, the baseline's, or the *)
(* zeroes of a page nobody had touched.                                     *)
Source(f, p) ==
  IF Holders(f, p) # {} THEN ring[Max(Holders(f, p))][p]
  ELSE IF p \in DOMAIN baseline THEN baseline[p] ELSE Zero

MutantSavedOnly(f) == UNION {DOMAIN ring[g] : g \in {h \in DOMAIN ring : h > f}}

WrittenAfter(f) ==
  watch \cup UNION {DOMAIN ring[g] : g \in {h \in DOMAIN ring : h > f}}

RevertSet(windowed, f) ==
  IF windowed THEN WrittenAfter(f) \cup (CoherentFull \cap dirtyBits)
              ELSE dirtyBits

MutantPoolLeftLive == Excluded

LeftLive == Excluded \ CoherentFull

Restored(windowed, f) ==
  [p \in Pages |-> IF p \in RevertSet(windowed, f) \ LeftLive THEN Source(f, p) ELSE mem[p]]

----------------------------------------------------------------------------
Init ==
  /\ mem = [p \in Pages |-> Zero]
  /\ committed = {} /\ watch = {}
  /\ ring = NoSlots /\ dirtyBits = {} /\ rebuildIn = RingSlots
  /\ baseline = NoSlots
  /\ armed = FALSE /\ frame = 0 /\ saved = FALSE /\ replay = NotReplaying
  /\ history = NoSlots /\ rewound = NoRewind /\ lost = {}

(* The game stores to pages; a page is committed before its first store.    *)
Writes(W) ==
  \E bytes \in [W -> Values] :
    /\ mem' = [p \in Pages |-> IF p \in W THEN bytes[p] ELSE mem[p]]
    /\ committed' = committed \cup W
    /\ watch' = watch \cup W

(* The engine is off: the game runs, nothing is saved and no frame counted. *)
RunUnarmed ==
  /\ ~armed
  /\ \E W \in SUBSET Pages : Writes(W)
  /\ UNCHANGED <<ring, dirtyBits, rebuildIn, baseline, armed, frame, saved, replay,
                 history, rewound, lost>>

(* capture_baseline, on the arm edge: every committed page is copied and    *)
(* the ring is emptied.                                                     *)
CaptureBaseline ==
  /\ ~armed
  /\ baseline' = [p \in committed |-> mem[p]]
  /\ watch' = {} /\ dirtyBits' = {} /\ ring' = NoSlots
  /\ armed' = TRUE
  /\ history' = [f \in {frame} |-> mem] /\ rewound' = NoRewind /\ lost' = {}
  /\ UNCHANGED <<mem, committed, rebuildIn, frame, saved, replay>>

Disarm ==
  /\ armed /\ ~saved /\ replay = NotReplaying
  /\ armed' = FALSE
  /\ UNCHANGED <<mem, committed, watch, ring, dirtyBits, rebuildIn, baseline,
                 frame, saved, replay, history, rewound, lost>>

----------------------------------------------------------------------------
(* save(frame), at the start of a frame the engine runs.                    *)

Evicted == {g \in DOMAIN ring : g <= frame - RingSlots}

(* fold_into_baseline: the pages of the slot about to be reused age into    *)
(* the baseline.                                                            *)
Folded ==
  LET aged == UNION {DOMAIN ring[g] : g \in Evicted} IN
  [p \in DOMAIN baseline \cup aged |->
     IF p \in aged THEN ring[CHOOSE g \in Evicted : TRUE][p] ELSE baseline[p]]

Kept == [g \in DOMAIN ring \ Evicted |-> ring[g]]

Harvest == watch \cap Scanned

(* The slot of this frame joins the ring; every RING_SLOTS saves the        *)
(* accumulated dirty bits are built anew from the slots in it.              *)
Stored ==
  LET slots == [g \in DOMAIN Kept \cup {frame} |->
                  IF g = frame THEN [p \in Harvest |-> mem[p]] ELSE Kept[g]]
  IN /\ ring' = slots
     /\ dirtyBits' = IF rebuildIn = 1 THEN UNION {DOMAIN slots[g] : g \in DOMAIN slots}
                                      ELSE dirtyBits \cup Harvest
     /\ rebuildIn' = IF rebuildIn = 1 THEN RingSlots ELSE rebuildIn - 1
  /\ lost' = lost

(* The scan has reset the write watch and the old slot is folded when the   *)
(* buffer of the new one cannot be had.                                     *)
StoreFailed ==
  /\ SaveMayFail
  /\ ring' = Kept
  /\ lost' = lost \cup Harvest
  /\ UNCHANGED <<dirtyBits, rebuildIn>>

MutantReturnBeforeFold ==
  /\ armed /\ ~saved /\ replay = NotReplaying
  /\ watch' = watch \ Scanned
  /\ (Stored /\ baseline' = Folded) \/ (StoreFailed /\ baseline' = baseline)
  /\ saved' = TRUE
  /\ UNCHANGED <<mem, committed, armed, frame, replay, history, rewound>>

Save ==
  /\ armed /\ ~saved /\ replay = NotReplaying
  /\ watch' = watch \ Scanned
  /\ baseline' = Folded
  /\ Stored \/ StoreFailed
  /\ saved' = TRUE
  /\ UNCHANGED <<mem, committed, armed, frame, replay, history, rewound>>

(* The frame itself; the memory it leaves is what the next one begins with. *)
Remembered(f, m) ==
  [g \in {h \in DOMAIN history \cup {f} : h >= frame - MaxDepth} |->
     IF g = f THEN m ELSE history[g]]

RunFrame ==
  /\ armed /\ saved /\ replay = NotReplaying
  /\ frame < MaxFrame
  /\ \E W \in SUBSET Pages : Writes(W)
  /\ frame' = frame + 1 /\ saved' = FALSE
  /\ history' = Remembered(frame + 1, mem')
  /\ UNCHANGED <<ring, dirtyBits, rebuildIn, baseline, armed, replay, rewound, lost>>

----------------------------------------------------------------------------
(* do_rollback, on a network request: served before the frame's save.       *)

Targets == {f \in DOMAIN history : f < frame /\ frame - f <= MaxDepth}

Load ==
  /\ armed /\ ~saved /\ replay = NotReplaying
  /\ \E f \in Targets :
       /\ mem' = Restored(Windowed, f)
       /\ dirtyBits' = UNION {DOMAIN ring[g] : g \in {h \in DOMAIN ring : h <= f}}
       /\ replay' = f
       /\ rewound' = IF f < rewound THEN f ELSE rewound
  /\ watch' = {}
  /\ UNCHANGED <<committed, ring, rebuildIn, baseline, armed, frame, saved, history, lost>>

(* The replay runs the game only: save belongs to the frames of RunFrame.   *)
ReplayFrame ==
  /\ replay # NotReplaying
  /\ \E W \in SUBSET Pages : Writes(W)
  /\ replay' = IF replay + 1 = frame THEN NotReplaying ELSE replay + 1
  /\ history' = Remembered(replay + 1, mem')
  /\ UNCHANGED <<ring, dirtyBits, rebuildIn, baseline, armed, frame, saved, rewound, lost>>

Next ==
  \/ RunUnarmed \/ CaptureBaseline \/ Disarm
  \/ Save \/ RunFrame
  \/ Load \/ ReplayFrame

Spec == Init /\ [][Next]_vars

----------------------------------------------------------------------------
(* Type correctness of the snapshot state.                                  *)
TypeOK ==
  /\ mem \in [Pages -> Values]
  /\ committed \subseteq Pages /\ watch \subseteq Pages /\ dirtyBits \subseteq Pages
  /\ DOMAIN ring \subseteq 0..MaxFrame
  /\ \A f \in DOMAIN ring :
       DOMAIN ring[f] \subseteq Pages /\ \A p \in DOMAIN ring[f] : ring[f][p] \in Values
  /\ rebuildIn \in 1..RingSlots
  /\ DOMAIN baseline \subseteq Pages /\ \A p \in DOMAIN baseline : baseline[p] \in Values
  /\ armed \in BOOLEAN /\ saved \in BOOLEAN
  /\ frame \in 0..MaxFrame /\ replay \in {NotReplaying} \cup 0..MaxFrame
  /\ DOMAIN history \subseteq 0..MaxFrame
  /\ \A f \in DOMAIN history : history[f] \in [Pages -> Values]
  /\ rewound \in 0..NoRewind /\ lost \subseteq Pages

(* What a load of frame f is for: every page is back at the bytes the frame *)
(* began with, except those it means to leave live, those above the carve   *)
(* watermark, which no save scans, and those a failed save had harvested.   *)
Rewinds(f) ==
  \A p \in (Scanned \ lost) \ (Excluded \ CoherentFull) : Restored(Windowed, f)[p] = history[f][p]

(* Loading a frame gives the memory it began with, whatever the game wrote, *)
(* whatever aged into the baseline, and whether or not the last writes have *)
(* been saved - as long as no earlier rollback went below that frame        *)
(* (arena::load).  A save that found no buffer after the watch was reset    *)
(* and the old slot folded harms no page but the ones it was about to       *)
(* store (the early return of arena::save).                                 *)
LoadIsExact ==
  armed /\ replay = NotReplaying => \A f \in {g \in Targets : g <= rewound} : Rewinds(f)

(* The same of every frame a rollback may ask for, the ones an earlier      *)
(* rollback has run again included: what do_rollback relies on.             *)
EveryLoadIsExact ==
  armed /\ replay = NotReplaying => \A f \in Targets : Rewinds(f)
=============================================================================
