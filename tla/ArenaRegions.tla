---------------------------- MODULE ArenaRegions ----------------------------
(***************************************************************************)
(* arena.cpp: the carver, which serves the game's reservations of address   *)
(* space and the regions a save donates to an allocator that runs low.      *)
(* What the game holds lies in its memory and what an allocator was given   *)
(* in its descriptor, both of which a rollback puts back; the carver's      *)
(* lists and its watermark are not put back.                                *)
(*                                                                         *)
(* Offsets and sizes are in units of the granularity.  hk_VirtualFree is    *)
(* atomic here, as if it took g_carve_cs; the array's order is left out.    *)
(***************************************************************************)
EXTENDS FrameClock, FiniteSets

CONSTANTS
  Usable,        \* ARENA_SIZE - HEAP_ZONE_SIZE
  Sizes,         \* sizes the game asks for
  DonationSize,  \* of a donated region
  RegionsMax,    \* entries of g_free_list, and of g_reservations
  RegionSlots,   \* frames the rings hold
  MaxDonations,  \* donations within the caps
  MaxReserves    \* bound of the model: reservations of the game

ASSUME RegionAssumption ==
  /\ {Usable, RegionsMax, RegionSlots, MaxDonations, MaxReserves} \subseteq Nat /\ RegionSlots > MaxDepth
  /\ Sizes \subseteq Nat \ {0} /\ DonationSize \in Nat \ {0}

VARIABLES
  watermark,     \* g_watermark
  freeList,      \* g_free_list
  reservations,  \* g_reservations
  held,          \* regions the game holds
  pooled,        \* regions an allocator was given
  donations,     \* how many were ever given
  served,        \* how many reservations the game was ever given
  regionSlots,   \* per saved frame: held and pooled
  stale,         \* ghost: in use again by a rollback, although they were given back
  crossed        \* ghost: the carver gave such a region to somebody else

regionVars == <<watermark, freeList, reservations, held, pooled, donations, served, regionSlots, stale, crossed>>

Region(o, n) == [offset |-> o, size |-> n]
Apart(r, s)  == r.offset + r.size <= s.offset \/ s.offset + s.size <= r.offset

RegionInit ==
  /\ watermark = 0 /\ freeList = {} /\ reservations = {}
  /\ held = {} /\ pooled = {} /\ donations = 0 /\ served = 0
  /\ regionSlots = <<>> /\ stale = {} /\ crossed = FALSE

Fitting(n) == {b \in freeList : b.size >= n}

MutantRest(b, n) == IF b.size = n THEN {} ELSE {Region(b.offset + n, b.size)}

(* What a block of the free list has left.                                  *)
Rest(b, n) == IF b.size = n THEN {} ELSE {Region(b.offset + n, b.size - n)}

(* A block that fits, or the watermark.                                     *)
Found(o, n) ==
  \/ \E b \in Fitting(n) : /\ o = b.offset
                           /\ freeList' = (freeList \ {b}) \cup Rest(b, n)
                           /\ UNCHANGED watermark
  \/ /\ Fitting(n) = {} /\ o = watermark /\ o + n <= Usable
     /\ watermark' = o + n /\ UNCHANGED freeList

(* The carve under g_carve_cs; an entry there is no room for is not kept.   *)
Placed(o, n) ==
  /\ Found(o, n)
  /\ reservations' = IF Cardinality(reservations) < RegionsMax
                     THEN reservations \cup {Region(o, n)} ELSE reservations
  /\ crossed' = (crossed \/ \E r \in stale : ~Apart(r, Region(o, n)))

(* hk_VirtualAlloc; one that does not fit gets memory outside the arena.    *)
Reserve(n) ==
  \E o \in 0..(Usable - 1) :
    /\ served < MaxReserves /\ served' = served + 1
    /\ Placed(o, n) /\ held' = held \cup {Region(o, n)}
    /\ UNCHANGED <<pooled, donations, regionSlots, stale>>

(* hk_VirtualFree with MEM_RELEASE; a region without an entry stays taken.  *)
Release(r) ==
  /\ \/ \E s \in reservations :
          /\ s.offset = r.offset
          /\ reservations' = reservations \ {s}
          /\ freeList' = IF Cardinality(freeList) < RegionsMax THEN freeList \cup {s} ELSE freeList
     \/ /\ ~\E s \in reservations : s.offset = r.offset
        /\ UNCHANGED <<reservations, freeList>>
  /\ held' = held \ {r} /\ stale' = stale \ {r}
  /\ UNCHANGED <<watermark, pooled, donations, served, regionSlots, crossed>>

RegionGame == (\E n \in Sizes : Reserve(n)) \/ (\E r \in held : Release(r))

RecordRegions ==
  regionSlots' = [f \in {g \in DOMAIN regionSlots : g > frame - RegionSlots} \cup {frame} |->
                    IF f = frame THEN [held |-> held, pooled |-> pooled'] ELSE regionSlots[f]]

(* save_allocators under the locks: an allocator that runs low is given a   *)
(* region before descriptor and pages are copied (one of up to four).       *)
Donate ==
  \E o \in 0..(Usable - 1) :
    /\ donations < MaxDonations /\ donations' = donations + 1
    /\ Placed(o, DonationSize) /\ pooled' = pooled \cup {Region(o, DonationSize)}

RegionFrame ==
  /\ \/ Donate
     \/ UNCHANGED <<watermark, freeList, reservations, pooled, donations, crossed>>
  /\ RecordRegions
  /\ UNCHANGED <<held, served, stale>>

RegionRollback(target) ==
  /\ target \in DOMAIN regionSlots
  /\ held' = regionSlots[target].held /\ pooled' = regionSlots[target].pooled
  /\ stale' = {r \in held' \cup pooled' : \E b \in freeList : ~Apart(r, b)}
  /\ UNCHANGED <<watermark, freeList, reservations, donations, served, regionSlots, crossed>>

RegionSwitch ==
  /\ regionSlots' = <<>>
  /\ UNCHANGED <<watermark, freeList, reservations, held, pooled, donations, served, stale, crossed>>
=============================================================================
