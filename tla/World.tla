------------------------------- MODULE World -------------------------------
(***************************************************************************)
(* What follows the engine's clock across rollbacks: the quarantine of the  *)
(* slabs, the pool of the voices, the free lists, the handles of surfaces,  *)
(* the parts a rollback restores one by one, the counters of the render     *)
(* kick, the regions of the carver and the set of the husks.  hk_main_proc  *)
(* calls them for every frame and every disarm, do_rollback for every       *)
(* rollback.                                                                *)
(*                                                                         *)
(* They share nothing but the clock, and no property speaks of two of them: *)
(* a behaviour follows one, chosen at the start.                            *)
(***************************************************************************)
EXTENDS SlabReuse, VoicePool, FreeListUnit, Surfaces, RevertParts, KickScalars,
        ArenaRegions, HuskSet

CONSTANT MaxFrame   \* bound of the model: frames of the engine

ASSUME WorldAssumption == MaxFrame \in Nat

VARIABLES
  running,   \* whether orig_main_proc runs a frame, live or replayed
  watched    \* what this behaviour follows

worldVars == <<clockVars, slabVars, voiceVars, listVars, surfaceVars, partVars, kickVars,
               regionVars, huskVars, running, watched>>

Followed == {"slabs", "voices", "lists", "handles", "parts", "kicks", "regions", "husks"}

WorldInit ==
  /\ ClockInit /\ SlabInit /\ VoiceInit /\ ListInit /\ SurfaceInit /\ PartsInit /\ KickInit
  /\ RegionInit /\ HuskInit
  /\ running = TRUE /\ watched \in Followed
  /\ watched # "lists" => heap = AllFree

Slabs(A)  == IF watched = "slabs" THEN A ELSE UNCHANGED slabVars
Voices(A) == IF watched = "voices" THEN A ELSE UNCHANGED voiceVars
Lists(A)  == IF watched = "lists" THEN A ELSE UNCHANGED listVars
Handled(A) == IF watched = "handles" THEN A ELSE UNCHANGED surfaceVars
Parted(A)  == IF watched = "parts" THEN A ELSE UNCHANGED partVars
Kicked(A)  == IF watched = "kicks" THEN A ELSE UNCHANGED kickVars
Carving(A) == IF watched = "regions" THEN A ELSE UNCHANGED regionVars
Mourning(A) == IF watched = "husks" THEN A ELSE UNCHANGED huskVars

(* The frame runs: the game allocates and frees, destroys voices, draws.    *)
Game ==
  /\ running
  /\ Slabs(SlabGame) /\ Voices(VoiceGame) /\ Lists(ListGame)
  /\ Handled(SurfaceGame) /\ Parted(PartsGame) /\ Kicked(KickGame)
  /\ Carving(RegionGame) /\ Mourning(HuskGame)
  /\ UNCHANGED <<clockVars, running, watched>>

(* The keys come before the frame of the same pass.                         *)
ArmWorld ==
  /\ Arm /\ Slabs(SlabArm) /\ Voices(VoiceArm) /\ Lists(ListSwitch)
  /\ Handled(SurfaceSwitch) /\ Parted(PartsArm) /\ Carving(RegionSwitch) /\ Mourning(HuskArm)
  /\ UNCHANGED kickVars
  /\ running' = FALSE /\ UNCHANGED watched

DisarmWorld ==
  /\ Disarm /\ Slabs(SlabDisarm) /\ Voices(VoiceDisarm) /\ Lists(ListSwitch)
  /\ Handled(SurfaceSwitch) /\ Carving(RegionSwitch) /\ Mourning(HuskDisarm)
  /\ UNCHANGED <<partVars, kickVars>>
  /\ running' = TRUE /\ UNCHANGED watched

NextFrame ==
  /\ frame < MaxFrame
  /\ Forward /\ Slabs(SlabFrame) /\ Voices(VoiceFrame) /\ Lists(ListFrame)
  /\ Handled(SurfaceFrame) /\ Parted(PartsFrame) /\ Kicked(KickFrame)
  /\ Carving(RegionFrame) /\ Mourning(HuskFrame)
  /\ running' = TRUE /\ UNCHANGED watched

GoBack(target) ==
  /\ Rollback(target)
  /\ Slabs(SlabRollback(target)) /\ Voices(VoiceRollback(target)) /\ Lists(ListRollback(target))
  /\ Handled(SurfaceRollback(target)) /\ Parted(PartsRollback(target)) /\ Kicked(KickRollback(target))
  /\ Carving(RegionRollback(target)) /\ Mourning(HuskRollback(target))
  /\ running' = TRUE /\ UNCHANGED watched

(* The end of a replayed frame; do_rollback ends with the last one.         *)
ReplayedFrame ==
  /\ Replay
  /\ IF at' = Live THEN Voices(VoiceResume) /\ Lists(ListResume) ELSE UNCHANGED <<voiceVars, listVars>>
  /\ Kicked(KickReplay)
  /\ running' = (at' # Live)
  /\ UNCHANGED <<slabVars, surfaceVars, partVars, regionVars, huskVars, watched>>

WorldNext ==
  \/ Game \/ ArmWorld \/ DisarmWorld \/ NextFrame \/ ReplayedFrame
  \/ \E target \in (frame - MaxDepth)..(frame - 1) : GoBack(target)

Spec == WorldInit /\ [][WorldNext]_worldVars

----------------------------------------------------------------------------
(* Types of the variables.                                                  *)
TypeOK ==
  /\ {on, running} \subseteq BOOLEAN /\ frame \in 0..MaxFrame /\ at \in {Live} \cup 0..MaxFrame
  /\ inUse \in [Blocks -> BOOLEAN] /\ births \in 0..MaxSerial
  /\ object \in [Blocks -> 0..MaxSerial] /\ serial \in [Blocks -> 0..MaxSerial]
  /\ table \subseteq [block : Blocks, frame : 0..MaxFrame, serial : 0..MaxSerial]
  /\ Cardinality(table) <= TableMax
  /\ DOMAIN slots \cup DOMAIN images \cup DOMAIN units \subseteq 0..MaxFrame
  /\ past \in {"straight", "turned", "blind"}
  /\ field \in [Fields -> 0..MaxVoices] /\ created \in 0..MaxVoices
  /\ Len(pool) <= PoolMax /\ clock \in 0..MaxFrame
  /\ \A i, j \in DOMAIN pool : i < j => pool[i].stamp <= pool[j].stamp
  /\ gone \subseteq 1..MaxVoices /\ excused \subseteq 1..MaxVoices
  /\ heap.head \in Nodes \cup {Nil} /\ heap.count \in Nat /\ heap.owned \subseteq Nodes
  /\ heap.next \in [Nodes -> Nodes \cup {Nil}] /\ heap.used \in [Nodes -> BOOLEAN]
  /\ {drifted, unpaired} \subseteq BOOLEAN /\ splices \in 0..MaxSplices
  /\ made \in 0..MaxViews /\ surface \in [Wrappers -> Handles \cup {Null, Absent}] /\ references \in [Handles -> Nat]
  /\ known \cup destroyed \cup ctorset \subseteq Wrappers /\ forgotten \in BOOLEAN
  /\ parts \in [Restored \cup Present -> {Blank} \cup 0..now] /\ baseline \in {Blank} \cup 0..now
  /\ Len(ring) <= PartSlots /\ reverted \in {Live} \cup 0..MaxFrame /\ missed \subseteq Short
  /\ scalar \in 0..(MaxKicks + 1) /\ kicked \in BOOLEAN
  /\ DOMAIN kicks \subseteq DOMAIN lived /\ DOMAIN lived \subseteq 0..MaxFrame
  /\ back.target \in {Live} \cup 0..MaxFrame
  /\ watermark \in 0..Usable /\ donations \in 0..MaxDonations
  /\ served \in 0..MaxReserves /\ crossed \in BOOLEAN
  /\ \A r \in freeList \cup reservations \cup held \cup pooled : r.offset + r.size <= watermark
  /\ Cardinality(freeList) <= RegionsMax /\ Cardinality(reservations) <= RegionsMax
  /\ stale \subseteq held \cup pooled
  /\ dead \in Seq([user : Objects, frame : 0..MaxFrame]) /\ crowded \in BOOLEAN
  /\ husks \in [0..(HuskCap - 1) -> Objects \cup {"empty", "tombstone"}]
  /\ watched \in Followed

(* A block the quarantine holds is in use and dead, however often the       *)
(* memory under the table went back and forth: what a flush frees is never  *)
(* an object the game has (quarantine.cpp: a timeline-crossing entry is     *)
(* unrepresentable).  The fallback reconcile after another rollback is out. *)
HeldIsDead ==
  past # "blind" => \A e \in table : inUse[e.block] /\ object[e.block] = Dead

(* A pointer of a frame that can still be rolled back to does not land on a *)
(* stranger: the block holds the object it held, or that object's remains   *)
(* (README P3).  Saves of a timeline a rollback has left are out.           *)
NoStranger ==
  (on /\ at = Live /\ past # "blind") =>
    \A f \in DOMAIN slots, b \in Blocks :
      (~slots[f].left /\ frame - f <= MaxDepth /\ slots[f].object[b] # Dead)
        => inUse[b] /\ object[b] \in {Dead, slots[f].object[b]}

(* A rollback never brings back a pointer to a voice that is gone: whatever *)
(* the game destroyed within the window is still there ("keeps arena        *)
(* pointers to voice objects valid across arena::load", voice_pool.cpp).    *)
(* Two kinds of voices are excused, since the code does destroy them: one   *)
(* that an earlier rollback brought back while it waited in the pool, which *)
(* stays there for the next flush, and one pushed out of a full pool.       *)
VoicesOutliveWindow ==
  on => \A f \in DOMAIN images, p \in Fields :
          frame - f <= MaxDepth => images[f][p] \notin gone \ excused

(* A save under the critical sections, or a rollback to one, ends whatever  *)
(* disorder there was, and the engine's own splices keep it out: the chain  *)
(* ends, holds no block in use, and the count is its length.  Without that  *)
(* a carve skips its unlink and the chain turns into a loop (resim.cpp).    *)
ChainIsFree ==
  ~drifted =>
    /\ EndsWithin(heap, Cardinality(Nodes))
    /\ heap.count = Length(heap)

(* With both lists replayed as one unit no block the game owns is on the    *)
(* free chain, so none is handed out twice, not even by a rebuild from the  *)
(* blocks' bits ("double-membership becomes unrepresentable", resim.cpp).   *)
NoDoubleMember == ~drifted /\ ~unpaired => Chain(heap) \cap heap.owned = {}

(* The driver's count of a surface covers every wrapper that would release  *)
(* it, though the wrappers go back and the counts do not: no release hits a *)
(* surface nobody holds ("d3d9 -1", rtv_probe.cpp), replayed or not.  Out   *)
(* is a rollback that brings back a wrapper whose death g_destroyed has     *)
(* lost: it was full, cleared by another rollback, or the address was used. *)
HandlesBacked ==
  ~forgotten => \A h \in Handles : Cardinality(Users(h)) <= references[h]

(* When a rollback hands over to the game, everything it restores is as it  *)
(* was when the target was saved, though four rings of two lengths, one of  *)
(* them emptied by every arm, are searched each in its own way, and what    *)
(* belongs to the system is of the present ("whole group coherent",         *)
(* resim.cpp), whichever step wrote over it on the way.  Out is a target    *)
(* the arena has no pages of, older than the arm or never saved, and what   *)
(* there was no room to take.                                               *)
OneInstant ==
  (reverted # Live /\ reverted = at) =>
    /\ reverted \in DOMAIN pages =>
         \E i \in DOMAIN ring : /\ ring[i].frame = reverted
                               /\ \A p \in Restored : parts[p] = ring[i].parts[p]
    /\ \A p \in Present \ missed : parts[p] = now

(* While a rollback replays, each frame but the first begins with the       *)
(* scalars it began with when it was run live, whatever the engine's own    *)
(* kicks skipped then; and at the end they are what they were when the      *)
(* rollback began ("the recurrent accumulators follow the original          *)
(* trajectory", resim.cpp), if it goes back two frames or more and the last *)
(* live frame had its one kick.                                             *)
OnTrajectory ==
  back.target # Live =>
    /\ (at # Live /\ at > back.target) => scalar = lived[at]
    /\ (at = Live /\ frame - back.target > 1 /\ back.scalar = lived[frame - 1] + 1)
         => scalar = back.scalar

(* No two regions in use overlap, whoever uses them, and none is on the     *)
(* free list, though rollbacks put the users back and not the carver, and   *)
(* a replay asks again for what it was given before (arena.cpp).  Out is a  *)
(* region that was given back after the frame a rollback returns to: the    *)
(* game holds it again, and the carver may give it to somebody else.        *)
RegionsApart ==
  ~crossed =>
    /\ held \cap pooled = {}
    /\ \A r, s \in held \cup pooled : r # s => Apart(r, s)
    /\ \A r \in (held \cup pooled) \ stale, b \in freeList : Apart(r, b)

(* The set answers for exactly the objects the quarantine holds, whatever   *)
(* order they came, went and were rolled back in: no live object is taken   *)
(* for a dead one, and no pointer to a dead one passes ("maintained in      *)
(* lockstep with every table mutation", quarantine.cpp).  Out are deaths    *)
(* for which tombstones and neighbours have left no slot.                   *)
HusksAreHeld ==
  \A u \in Objects : /\ IsHusk(husks, u) => u \in Mourned
                   /\ u \in Mourned => IsHusk(husks, u) \/ crowded
=============================================================================
