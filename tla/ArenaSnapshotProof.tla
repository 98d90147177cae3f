-------------------------- MODULE ArenaSnapshotProof --------------------------
(***************************************************************************)
(* Proofs about ArenaSnapshot: the types, and that a windowed load puts     *)
(* every page it answers for back to what the frame began with, whatever    *)
(* the pages, the length of the ring and the depth of a rollback.           *)
(***************************************************************************)
EXTENDS ArenaSnapshot, FiniteSetTheorems, TLAPS

----------------------------------------------------------------------------
(* The greatest of a bounded set of naturals.                               *)

LEMMA LeastNatural ==
  ASSUME NEW S \in SUBSET Nat, S # {}
  PROVE  \E n \in S : \A m \in S : n <= m
<1> DEFINE T == {1..n : n \in S}
<1>1. IsWellFoundedOn(StrictSubsetOrdering(Nat), FiniteSubsetsOf(Nat))
  BY FS_StrictSubsetOrderingWellFounded
<1>2. T \subseteq FiniteSubsetsOf(Nat) /\ T # {}
  <2>1. \A n \in S : n \in Int /\ 1..n \in SUBSET Nat
    OBVIOUS
  <2>2. \A n \in S : IsFiniteSet(1..n)
    BY <2>1, FS_Interval
  <2> QED BY <2>1, <2>2 DEF FiniteSubsetsOf
<1>3. PICK t \in T : \A u \in T : ~(<<u, t>> \in StrictSubsetOrdering(Nat))
  <2> HIDE DEF T
  <2> QED BY <1>1, <1>2, WFMin
<1>4. PICK n \in S : t = 1..n
  BY <1>3
<1>5. ASSUME NEW m \in S, m < n PROVE FALSE
  <2>1. 1..m \in T /\ 1..m \in SUBSET Nat /\ 1..n \in SUBSET Nat
    OBVIOUS
  <2>2. 1..m \subseteq 1..n /\ n \in 1..n /\ n \notin 1..m
    BY <1>5
  <2>3. <<1..m, 1..n>> \in StrictSubsetOrdering(Nat)
    BY <2>1, <2>2 DEF StrictSubsetOrdering
  <2> QED BY <1>3, <1>4, <2>1, <2>3
<1> QED BY <1>5

LEMMA GreatestExists ==
  ASSUME NEW n \in Nat, NEW S \in SUBSET (0..n), S # {}
  PROVE  \E m \in S : \A x \in S : x <= m
<1> DEFINE T == {n - x : x \in S}
<1>1. \A x \in S : x \in Int /\ n - x \in Nat /\ n - x \in T
  OBVIOUS
<1>2. PICK t \in T : \A m \in T : t <= m
  BY <1>1, LeastNatural
<1>3. PICK y \in S : t = n - y
  BY <1>2
<1>4. \A x \in S : n - y <= n - x
  <2> HIDE DEF T
  <2> QED BY <1>1, <1>2, <1>3
<1> QED BY <1>1, <1>4

LEMMA MaxIs ==
  ASSUME NEW S \in SUBSET Int, NEW m \in S, \A x \in S : x <= m
  PROVE  Max(S) = m
<1>1. \A x \in S : (\A y \in S : x >= y) <=> x = m
  OBVIOUS
<1> QED BY <1>1, Zenon DEF Max

----------------------------------------------------------------------------
(* The newest copy of a page in a ring r over a baseline b, and what may    *)
(* become of both without changing it.                                      *)

HoldersIn(r, f, p) == {g \in DOMAIN r : g <= f /\ p \in DOMAIN r[g]}

SourceIn(r, b, f, p) ==
  IF HoldersIn(r, f, p) # {} THEN r[Max(HoldersIn(r, f, p))][p]
  ELSE IF p \in DOMAIN b THEN b[p] ELSE Zero

LEMMA SourceIsSourceIn == \A f, p : Source(f, p) = SourceIn(ring, baseline, f, p)
BY DEF Source, SourceIn, Holders, HoldersIn

LEMMA NewestHolder ==
  ASSUME NEW r, NEW b, NEW f \in Nat, NEW p, DOMAIN r \subseteq Nat
  PROVE  \/ /\ HoldersIn(r, f, p) = {}
            /\ SourceIn(r, b, f, p) = IF p \in DOMAIN b THEN b[p] ELSE Zero
         \/ \E m \in HoldersIn(r, f, p) : /\ \A g \in HoldersIn(r, f, p) : g <= m
                                          /\ SourceIn(r, b, f, p) = r[m][p]
<1>1. CASE HoldersIn(r, f, p) = {}
  BY <1>1 DEF SourceIn
<1>2. CASE HoldersIn(r, f, p) # {}
  <2>1. HoldersIn(r, f, p) \in SUBSET (0..f)
    BY DEF HoldersIn
  <2>2. PICK m \in HoldersIn(r, f, p) : \A g \in HoldersIn(r, f, p) : g <= m
    BY <1>2, <2>1, GreatestExists
  <2>3. Max(HoldersIn(r, f, p)) = m
    BY <2>1, <2>2, MaxIs
  <2> QED BY <1>2, <2>2, <2>3 DEF SourceIn
<1> QED BY <1>1, <1>2

(* Two rings that hold a page alike up to a frame.                          *)
LEMMA SameSource ==
  ASSUME NEW r, NEW b, NEW s, NEW c, NEW f, NEW h, NEW p,
         HoldersIn(r, f, p) = HoldersIn(s, h, p),
         \A g \in HoldersIn(r, f, p) : r[g][p] = s[g][p],
         HoldersIn(r, f, p) # {} => Max(HoldersIn(r, f, p)) \in HoldersIn(r, f, p),
         HoldersIn(r, f, p) = {} => (p \in DOMAIN b <=> p \in DOMAIN c) /\ (p \in DOMAIN b => b[p] = c[p])
  PROVE  SourceIn(r, b, f, p) = SourceIn(s, c, h, p)
BY DEF SourceIn

----------------------------------------------------------------------------
(* Types.                                                                   *)

LEMMA InitTyped == Init => TypeOK
<1> SUFFICES ASSUME Init PROVE TypeOK
  OBVIOUS
<1>1. /\ mem \in [Pages -> Values] /\ DOMAIN ring = {} /\ DOMAIN baseline = {} /\ DOMAIN history = {}
  BY ValuesAssumption DEF Init, NoSlots
<1>2. /\ committed = {} /\ watch = {} /\ dirtyBits = {} /\ lost = {} /\ rebuildIn \in 1..RingSlots
      /\ frame \in 0..MaxFrame /\ replay = NotReplaying /\ rewound \in 0..NoRewind
  BY BoundsAssumption DEF Init, NoRewind
<1>3. armed \in BOOLEAN /\ saved \in BOOLEAN
  BY DEF Init
<1> QED BY <1>1, <1>2, <1>3 DEF TypeOK

LEMMA WritesKeep ==
  ASSUME TypeOK, \E W \in SUBSET Pages : Writes(W)
  PROVE  /\ mem' \in [Pages -> Values]
         /\ committed \subseteq committed' /\ committed' \subseteq Pages
         /\ watch \subseteq watch' /\ watch' \subseteq Pages
         /\ watch' \ watch \subseteq committed'
         /\ \A p \in Pages : p \notin watch' => mem'[p] = mem[p]
         /\ \A p \in Pages : p \notin committed' => mem'[p] = mem[p]
<1>0. PICK W \in SUBSET Pages : Writes(W)
  OBVIOUS
<1>1. PICK bytes \in [W -> Values] :
        /\ mem' = [p \in Pages |-> IF p \in W THEN bytes[p] ELSE mem[p]]
        /\ committed' = committed \cup W /\ watch' = watch \cup W
  BY <1>0 DEF Writes
<1> QED BY <1>1 DEF TypeOK

(* A page's newest copy has one of the values.                              *)
LEMMA SourceTyped ==
  ASSUME TypeOK, NEW f \in Nat, NEW p \in Pages
  PROVE  Source(f, p) \in Values
<1>1. DOMAIN ring \subseteq Nat
  BY DEF TypeOK
<1>2. \A m \in HoldersIn(ring, f, p) : ring[m][p] \in Values
  BY DEF HoldersIn, TypeOK
<1>3. p \in DOMAIN baseline => baseline[p] \in Values
  BY DEF TypeOK
<1>4. SourceIn(ring, baseline, f, p) \in Values
  BY <1>1, <1>2, <1>3, NewestHolder, ValuesAssumption
<1> QED BY <1>4, SourceIsSourceIn

(* How the frames of the ring, of the history and of a rollback lie.        *)
InOrder ==
  /\ ~armed => ~saved /\ replay = NotReplaying
  /\ replay # NotReplaying => rewound <= replay /\ replay < frame /\ ~saved
  /\ armed =>
       /\ \A g \in DOMAIN ring : /\ frame - RingSlots <= g /\ g <= frame
                                 /\ g = frame => saved
                                 /\ saved => frame - RingSlots < g
       /\ rewound = NoRewind \/ rewound < frame
       /\ \A f \in DOMAIN history : frame - MaxDepth - 1 <= f /\ f <= frame

TypeInv == TypeOK /\ InOrder

LEMMA FramesAreNat ==
  ASSUME TypeOK
  PROVE  /\ frame \in Nat /\ frame <= MaxFrame /\ MaxFrame \in Nat
         /\ RingSlots \in Nat /\ MaxDepth \in Nat /\ 0 < MaxDepth /\ MaxDepth < RingSlots
         /\ rewound \in Nat /\ NoRewind = MaxFrame + 1
         /\ DOMAIN ring \subseteq Nat /\ DOMAIN history \subseteq Nat
         /\ NotReplaying = -1 /\ (replay # NotReplaying => replay \in Nat)
BY BoundsAssumption DEF TypeOK, NoRewind, NotReplaying

(* Before a save at most one slot is old enough to be reused.               *)
LEMMA EvictedIsOne ==
  ASSUME TypeInv, armed, ~saved, NEW g \in Evicted
  PROVE  g = frame - RingSlots /\ g \in DOMAIN ring /\ (CHOOSE h \in Evicted : TRUE) = g
<1>1. \A h \in Evicted : h \in DOMAIN ring /\ h = frame - RingSlots
  BY FramesAreNat DEF TypeInv, InOrder, Evicted
<1>2. (CHOOSE h \in Evicted : TRUE) \in Evicted
  OBVIOUS
<1> QED BY <1>1, <1>2

LEMMA FoldTyped ==
  ASSUME TypeInv, armed, ~saved
  PROVE  /\ DOMAIN Folded \subseteq Pages /\ DOMAIN baseline \subseteq DOMAIN Folded
         /\ \A p \in DOMAIN Folded :
              \/ /\ \E g \in Evicted : p \in DOMAIN ring[g]
                 /\ frame - RingSlots \in DOMAIN ring /\ p \in DOMAIN ring[frame - RingSlots]
                 /\ Folded[p] = ring[frame - RingSlots][p]
              \/ /\ ~\E g \in Evicted : p \in DOMAIN ring[g]
                 /\ p \in DOMAIN baseline /\ Folded[p] = baseline[p]
         /\ \A p \in DOMAIN Folded : Folded[p] \in Values
         /\ \A g \in Evicted : DOMAIN ring[g] \subseteq DOMAIN Folded
<1> DEFINE aged == UNION {DOMAIN ring[g] : g \in Evicted}
           one == CHOOSE g \in Evicted : TRUE
<1>1. Folded = [p \in DOMAIN baseline \cup aged |-> IF p \in aged THEN ring[one][p] ELSE baseline[p]]
  BY DEF Folded
<1>2. \A p \in aged : \E g \in Evicted : p \in DOMAIN ring[g]
  OBVIOUS
<1>3. \A p : (\E g \in Evicted : p \in DOMAIN ring[g]) => p \in aged
  OBVIOUS
<1>4. \A g \in Evicted : g = frame - RingSlots /\ g \in DOMAIN ring /\ one = g
  BY EvictedIsOne
<1> HIDE DEF aged, one
<1>5. \A p \in aged : /\ frame - RingSlots \in DOMAIN ring /\ p \in DOMAIN ring[frame - RingSlots]
                      /\ one = frame - RingSlots
  BY <1>2, <1>4
<1>6. \A p \in aged : p \in Pages /\ ring[frame - RingSlots][p] \in Values
  BY <1>5 DEF TypeInv, TypeOK
<1>7. \A p \in DOMAIN baseline : p \in Pages /\ baseline[p] \in Values
  BY DEF TypeInv, TypeOK
<1>8. DOMAIN Folded = DOMAIN baseline \cup aged
  BY <1>1
<1>9. \A p \in DOMAIN Folded : Folded[p] = IF p \in aged THEN ring[one][p] ELSE baseline[p]
  BY <1>1
<1> QED BY <1>2, <1>3, <1>5, <1>6, <1>7, <1>8, <1>9

(* Either way the ring after a save holds what it held, but for the slot    *)
(* reused, and perhaps the frame's own.                                     *)
LEMMA SavedRing ==
  ASSUME TypeInv, Save
  PROVE  \/ /\ DOMAIN ring' = (DOMAIN ring \ Evicted) \cup {frame}
            /\ ring'[frame] = [p \in Harvest |-> mem[p]]
            /\ \A g \in DOMAIN ring \ Evicted : g # frame /\ ring'[g] = ring[g]
            /\ lost' = lost
         \/ /\ DOMAIN ring' = DOMAIN ring \ Evicted
            /\ \A g \in DOMAIN ring \ Evicted : g # frame /\ ring'[g] = ring[g]
            /\ lost' = lost \cup Harvest
<1>1. \A g \in DOMAIN ring : g # frame
  BY FramesAreNat DEF TypeInv, InOrder, Save
<1>2. CASE Stored
  <2>1. ring' = [g \in DOMAIN Kept \cup {frame} |->
                  IF g = frame THEN [p \in Harvest |-> mem[p]] ELSE Kept[g]]
    BY <1>2 DEF Stored
  <2> QED BY <1>1, <1>2, <2>1 DEF Stored, Kept
<1>3. CASE StoreFailed
  BY <1>1, <1>3 DEF StoreFailed, Kept
<1> QED BY <1>2, <1>3 DEF Save

LEMMA SaveTyped == TypeInv /\ Save => TypeInv'
<1> SUFFICES ASSUME TypeInv, Save PROVE TypeInv'
  OBVIOUS
<1> USE FramesAreNat DEF TypeInv
<1>1. /\ armed /\ ~saved /\ replay = NotReplaying /\ watch' = watch \ Scanned /\ baseline' = Folded
      /\ saved' = TRUE /\ UNCHANGED <<mem, committed, armed, frame, replay, history, rewound>>
  BY DEF Save
<1>2. DOMAIN ring' \subseteq 0..MaxFrame
  BY SavedRing DEF TypeOK
<1>3. \A f \in DOMAIN ring' :
        DOMAIN ring'[f] \subseteq Pages /\ \A p \in DOMAIN ring'[f] : ring'[f][p] \in Values
  <2>1. \A p \in Harvest : p \in Pages /\ mem[p] \in Values
    BY DEF Harvest, TypeOK
  <2> QED BY <2>1, SavedRing DEF TypeOK
<1>4. lost' \subseteq Pages
  BY SavedRing DEF TypeOK, Harvest
<1>5. dirtyBits' \subseteq Pages /\ rebuildIn' \in 1..RingSlots
  <2>1. CASE Stored
    <3>1. ring' = [g \in DOMAIN Kept \cup {frame} |->
                    IF g = frame THEN [p \in Harvest |-> mem[p]] ELSE Kept[g]]
      BY <2>1 DEF Stored
    <3>2. UNION {DOMAIN ring'[g] : g \in DOMAIN ring'} \subseteq Pages
      BY <1>3
    <3> DEFINE slots == [g \in DOMAIN Kept \cup {frame} |->
                          IF g = frame THEN [p \in Harvest |-> mem[p]] ELSE Kept[g]]
    <3>6. dirtyBits' = IF rebuildIn = 1 THEN UNION {DOMAIN slots[g] : g \in DOMAIN slots}
                                        ELSE dirtyBits \cup Harvest
      BY <2>1, Zenon DEF Stored
    <3> HIDE DEF slots
    <3>7. ring' = slots
      BY <3>1 DEF slots
    <3>3. \/ dirtyBits' = UNION {DOMAIN ring'[g] : g \in DOMAIN ring'}
          \/ dirtyBits' = dirtyBits \cup Harvest
      BY <3>6, <3>7
    <3>4. rebuildIn' = IF rebuildIn = 1 THEN RingSlots ELSE rebuildIn - 1
      BY <2>1 DEF Stored
    <3>5. rebuildIn' \in 1..RingSlots
      BY <3>4 DEF TypeOK
    <3> QED BY <3>2, <3>3, <3>5 DEF TypeOK, Harvest
  <2>2. CASE StoreFailed
    BY <2>2 DEF StoreFailed, TypeOK
  <2> QED BY <2>1, <2>2 DEF Save
<1>6. DOMAIN baseline' \subseteq Pages /\ \A p \in DOMAIN baseline' : baseline'[p] \in Values
  BY <1>1, FoldTyped
<1>7. TypeOK'
  BY <1>1, <1>2, <1>3, <1>4, <1>5, <1>6 DEF TypeOK
<1>8. \A g \in DOMAIN ring' : frame - RingSlots < g /\ g <= frame
  BY <1>1, SavedRing DEF InOrder, Evicted
<1>9. /\ \A g \in DOMAIN ring' : frame' - RingSlots <= g /\ frame' - RingSlots < g /\ g <= frame'
      /\ rewound' = NoRewind \/ rewound' < frame'
      /\ \A f \in DOMAIN history' : frame' - MaxDepth - 1 <= f /\ f <= frame'
  BY <1>1, <1>2, <1>8 DEF InOrder
<1>10. saved' = TRUE /\ armed' /\ replay' = NotReplaying
  BY <1>1
<1>11. InOrder'
  BY <1>9, <1>10, Zenon DEF InOrder
<1> QED BY <1>7, <1>11

(* What a frame leaves in the history.                                      *)
LEMMA RememberedIs ==
  ASSUME TypeOK, NEW f \in 0..MaxFrame, NEW m \in [Pages -> Values]
  PROVE  /\ DOMAIN Remembered(f, m) = {h \in DOMAIN history \cup {f} : h >= frame - MaxDepth}
         /\ DOMAIN Remembered(f, m) \subseteq 0..MaxFrame
         /\ \A g \in DOMAIN Remembered(f, m) :
              /\ Remembered(f, m)[g] \in [Pages -> Values]
              /\ g = f => Remembered(f, m)[g] = m
              /\ g # f => g \in DOMAIN history /\ Remembered(f, m)[g] = history[g]
BY DEF Remembered, TypeOK

LEMMA RunFrameTyped == TypeInv /\ RunFrame => TypeInv'
<1> SUFFICES ASSUME TypeInv, RunFrame PROVE TypeInv'
  OBVIOUS
<1> USE FramesAreNat DEF TypeInv
<1>1. /\ armed /\ saved /\ replay = NotReplaying /\ frame < MaxFrame
      /\ frame' = frame + 1 /\ history' = Remembered(frame + 1, mem')
      /\ UNCHANGED <<ring, dirtyBits, rebuildIn, baseline, replay, rewound, lost>>
  BY DEF RunFrame
<1>2. saved' = FALSE /\ armed' /\ armed' \in BOOLEAN /\ \E W \in SUBSET Pages : Writes(W)
  BY DEF RunFrame, TypeOK
<1>3. /\ mem' \in [Pages -> Values] /\ committed' \subseteq Pages /\ watch' \subseteq Pages
  BY <1>2, WritesKeep
<1>4. frame + 1 \in 0..MaxFrame
  BY <1>1
<1>5. /\ DOMAIN history' \subseteq 0..MaxFrame
      /\ \A f \in DOMAIN history' : history'[f] \in [Pages -> Values]
  BY <1>1, <1>3, <1>4, RememberedIs
<1>6. TypeOK'
  BY <1>1, <1>2, <1>3, <1>4, <1>5 DEF TypeOK
<1>7. \A g \in DOMAIN ring' : frame - RingSlots < g /\ g <= frame
  BY <1>1 DEF InOrder
<1>8. \A f \in DOMAIN history' : frame - MaxDepth <= f /\ f <= frame + 1
  <2>1. DOMAIN history' = {h \in DOMAIN history \cup {frame + 1} : h >= frame - MaxDepth}
    BY <1>1, <1>3, <1>4, RememberedIs, Zenon
  <2>2. \A h \in DOMAIN history : h \in Nat /\ h <= frame
    BY <1>1, FramesAreNat DEF InOrder
  <2> QED BY <2>1, <2>2
<1>9. rewound' = NoRewind \/ rewound' < frame'
  BY <1>1 DEF InOrder
<1>10. /\ \A g \in DOMAIN ring' : frame' - RingSlots <= g /\ g <= frame' /\ g # frame'
       /\ \A f \in DOMAIN history' : frame' - MaxDepth - 1 <= f /\ f <= frame'
  <2>1. DOMAIN ring' \subseteq Nat /\ DOMAIN history' \subseteq Nat
    BY <1>1, <1>5
  <2> QED BY <1>1, <1>7, <1>8, <2>1
<1>11. InOrder'
  <2>1. saved' = FALSE /\ armed' /\ replay' = NotReplaying
    BY <1>1, <1>2
  <2> QED BY <1>9, <1>10, <2>1, Zenon DEF InOrder
<1> QED BY <1>6, <1>11

LEMMA LoadTyped == TypeInv /\ Load => TypeInv'
<1> SUFFICES ASSUME TypeInv, Load PROVE TypeInv'
  OBVIOUS
<1> USE FramesAreNat DEF TypeInv
<1>1. PICK f \in Targets :
        /\ mem' = Restored(Windowed, f)
        /\ dirtyBits' = UNION {DOMAIN ring[g] : g \in {h \in DOMAIN ring : h <= f}}
        /\ replay' = f
        /\ rewound' = IF f < rewound THEN f ELSE rewound
  BY DEF Load
<1>2. /\ armed /\ replay = NotReplaying /\ watch' = {}
      /\ UNCHANGED <<committed, ring, rebuildIn, baseline, frame, history, lost>>
  BY DEF Load
<1>3. ~saved /\ saved' = saved /\ armed' = armed /\ saved' \in BOOLEAN /\ armed' \in BOOLEAN
  BY DEF Load, TypeOK
<1>4. f \in DOMAIN history /\ f \in Nat /\ f < frame /\ f <= MaxFrame
  BY DEF Targets
<1>5. mem' \in [Pages -> Values]
  <2>1. \A p \in Pages : Source(f, p) \in Values /\ mem[p] \in Values
    BY <1>4, SourceTyped DEF TypeOK
  <2> QED BY <1>1, <2>1 DEF Restored
<1>6. dirtyBits' \subseteq Pages
  BY <1>1 DEF TypeOK
<1>7. rewound' \in 0..NoRewind /\ rewound' <= f /\ rewound' < frame
  BY <1>1, <1>4 DEF TypeOK
<1>8. TypeOK'
  BY <1>1, <1>2, <1>3, <1>4, <1>5, <1>6, <1>7 DEF TypeOK
<1>9. /\ \A g \in DOMAIN ring' : frame' - RingSlots <= g /\ g <= frame'
      /\ \A g \in DOMAIN ring' : g = frame' => saved'
      /\ \A g \in DOMAIN history' : frame' - MaxDepth - 1 <= g /\ g <= frame'
  <2>1. /\ \A g \in DOMAIN ring : frame - RingSlots <= g /\ g <= frame
        /\ \A g \in DOMAIN ring : g = frame => saved
        /\ \A g \in DOMAIN history : frame - MaxDepth - 1 <= g /\ g <= frame
    BY <1>2, Zenon DEF InOrder
  <2> QED BY <1>2, <1>3, <2>1, Zenon
<1>10. InOrder'
  <2>1. replay' = f /\ rewound' <= replay' /\ replay' < frame' /\ rewound' < frame'
    BY <1>1, <1>2, <1>4, <1>7
  <2>2. armed' /\ ~saved'
    BY <1>2, <1>3
  <2> QED BY <1>9, <2>1, <2>2, Zenon DEF InOrder
<1> QED BY <1>8, <1>10

LEMMA ReplayFrameTyped == TypeInv /\ ReplayFrame => TypeInv'
<1> SUFFICES ASSUME TypeInv, ReplayFrame PROVE TypeInv'
  OBVIOUS
<1> USE FramesAreNat DEF TypeInv
<1>1. /\ replay # NotReplaying /\ history' = Remembered(replay + 1, mem')
      /\ replay' = (IF replay + 1 = frame THEN NotReplaying ELSE replay + 1)
      /\ UNCHANGED <<ring, dirtyBits, rebuildIn, baseline, frame, rewound, lost>>
  BY DEF ReplayFrame
<1>2. /\ armed' = armed /\ saved' = saved /\ armed' \in BOOLEAN /\ saved' \in BOOLEAN
      /\ \E W \in SUBSET Pages : Writes(W)
  BY DEF ReplayFrame, TypeOK
<1>3. /\ mem' \in [Pages -> Values] /\ committed' \subseteq Pages /\ watch' \subseteq Pages
  BY <1>2, WritesKeep
<1>4. armed /\ ~saved
  BY <1>1, Zenon DEF InOrder
<1>5. rewound <= replay /\ replay < frame /\ replay \in Nat
  BY <1>1 DEF InOrder
<1>6. replay + 1 \in 0..MaxFrame /\ replay + 1 <= frame
  BY <1>5
<1>7. /\ DOMAIN history' \subseteq 0..MaxFrame
      /\ \A f \in DOMAIN history' : history'[f] \in [Pages -> Values]
      /\ \A f \in DOMAIN history' : f \in DOMAIN history \/ (f = replay + 1 /\ f >= frame - MaxDepth)
  <2> DEFINE r == Remembered(replay + 1, mem')
  <2>1. /\ DOMAIN r = {h \in DOMAIN history \cup {replay + 1} : h >= frame - MaxDepth}
        /\ DOMAIN r \subseteq 0..MaxFrame
        /\ \A g \in DOMAIN r : r[g] \in [Pages -> Values]
    BY <1>3, <1>6, RememberedIs, Zenon
  <2> HIDE DEF r
  <2>2. history' = r
    BY <1>1 DEF r
  <2> QED BY <2>1, <2>2
<1>8. replay' \in {NotReplaying} \cup 0..MaxFrame
  BY <1>1, <1>6
<1>9. TypeOK'
  BY <1>1, <1>2, <1>3, <1>7, <1>8 DEF TypeOK
<1>10. /\ \A g \in DOMAIN ring : frame - RingSlots <= g /\ g <= frame
       /\ \A g \in DOMAIN ring : g = frame => saved
       /\ rewound = NoRewind \/ rewound < frame
       /\ \A f \in DOMAIN history : frame - MaxDepth - 1 <= f /\ f <= frame
  BY <1>4, Zenon DEF InOrder
<1>11. \A f \in DOMAIN history' : frame' - MaxDepth - 1 <= f /\ f <= frame'
  BY <1>1, <1>6, <1>7, <1>10
<1>12. replay' # NotReplaying => rewound' <= replay' /\ replay' < frame'
  BY <1>1, <1>5, <1>6
<1>13. InOrder'
  <2>1. armed' /\ ~saved'
    BY <1>2, <1>4
  <2>2. ring' = ring /\ frame' = frame /\ rewound' = rewound
    BY <1>1
  <2> QED BY <1>2, <1>10, <1>11, <1>12, <2>1, <2>2, Zenon DEF InOrder
<1> QED BY <1>9, <1>13

LEMMA UnarmedTyped ==
  ASSUME TypeInv, CaptureBaseline \/ Disarm \/ RunUnarmed \/ UNCHANGED vars
  PROVE  TypeInv'
<1> USE DEF TypeInv
<1>1. CASE CaptureBaseline
  <2> USE <1>1
  <2>1. /\ ~armed /\ watch' = {} /\ dirtyBits' = {} /\ ring' = NoSlots
        /\ baseline' = [p \in committed |-> mem[p]]
        /\ history' = [f \in {frame} |-> mem] /\ rewound' = NoRewind /\ lost' = {}
        /\ UNCHANGED <<mem, committed, rebuildIn, frame, replay>>
    BY DEF CaptureBaseline
  <2>2. armed' = TRUE /\ saved' = saved /\ saved' \in BOOLEAN
    BY DEF CaptureBaseline, TypeOK
  <2>3. /\ DOMAIN ring' = {} /\ DOMAIN history' = {frame} /\ history'[frame] = mem
        /\ DOMAIN baseline' = committed /\ \A p \in committed : baseline'[p] = mem[p]
    BY <2>1 DEF NoSlots
  <2>4. rewound' \in 0..NoRewind /\ frame \in Nat
    BY <2>1, FramesAreNat
  <2>5. TypeOK'
    BY <2>1, <2>2, <2>3, <2>4 DEF TypeOK
  <2>6. saved' = saved /\ ~saved /\ replay' = NotReplaying
    BY <2>1, <2>2, Zenon DEF InOrder
  <2>7. \A f \in DOMAIN history' : frame' - MaxDepth - 1 <= f /\ f <= frame'
    BY <2>1, <2>3, <2>4, FramesAreNat
  <2> QED BY <2>1, <2>2, <2>3, <2>5, <2>6, <2>7, Zenon DEF InOrder
<1>2. CASE Disarm
  <2> USE <1>2
  <2>1. UNCHANGED <<mem, committed, watch, ring, dirtyBits, rebuildIn, baseline,
                 frame, saved, replay, history, rewound, lost>>
    BY DEF Disarm
  <2>2. armed' = FALSE /\ ~saved /\ replay = NotReplaying
    BY DEF Disarm
  <2>3. TypeOK'
    BY <2>1, <2>2 DEF TypeOK
  <2> QED BY <2>1, <2>2, <2>3, Zenon DEF InOrder
<1>3. CASE RunUnarmed
  <2> USE <1>3
  <2>1. UNCHANGED <<ring, dirtyBits, rebuildIn, baseline, armed, frame, saved, replay,
                 history, rewound, lost>>
    BY DEF RunUnarmed
  <2>2. \E W \in SUBSET Pages : Writes(W)
    BY DEF RunUnarmed
  <2>3. mem' \in [Pages -> Values] /\ committed' \subseteq Pages /\ watch' \subseteq Pages
    BY <2>2, WritesKeep
  <2>4. TypeOK'
    BY <2>1, <2>3 DEF TypeOK
  <2>5. InOrder'
    BY <2>1 DEF InOrder
  <2> QED BY <2>4, <2>5
<1>4. CASE UNCHANGED vars
  BY <1>4 DEF vars, TypeOK, InOrder
<1> QED BY <1>1, <1>2, <1>3, <1>4

LEMMA InitTypeInv == Init => TypeInv
BY InitTyped DEF Init, TypeInv, InOrder

LEMMA NextTyped == TypeInv /\ [Next]_vars => TypeInv'
BY SaveTyped, RunFrameTyped, LoadTyped, ReplayFrameTyped, UnarmedTyped DEF Next

(* Every variable of the snapshot ring keeps its type: whatever the game    *)
(* writes, whichever saves fail, and whichever frames are rolled back to.   *)
THEOREM TypeCorrect == Spec => []TypeOK
<1>1. Spec => []TypeInv
  BY InitTypeInv, NextTyped, PTL DEF Spec
<1>2. TypeInv => TypeOK
  BY DEF TypeInv
<1> QED BY <1>1, <1>2, PTL

----------------------------------------------------------------------------
(* What the ring and the baseline hold between them.                        *)

(* A save changes no page's newest copy as of an earlier frame that may     *)
(* still be asked for: a copy whose slot is reused is in the baseline.      *)
LEMMA SourceKept ==
  ASSUME TypeInv, Save, NEW f \in Nat, frame - RingSlots <= f, f <= frame,
         NEW p \in Pages, f = frame => p \notin Harvest
  PROVE  SourceIn(ring', baseline', f, p) = SourceIn(ring, baseline, f, p)
<1> DEFINE H == HoldersIn(ring, f, p)
           K == HoldersIn(ring', f, p)
           e == frame - RingSlots
<1>1. armed /\ ~saved /\ baseline' = Folded
  BY DEF Save
<1>2. DOMAIN ring \subseteq Nat /\ DOMAIN ring' \subseteq Nat
  <2>1. TypeOK /\ TypeOK'
    BY SaveTyped DEF TypeInv
  <2> QED BY <2>1 DEF TypeOK
<1>3. K = H \ Evicted
  BY SavedRing, FramesAreNat DEF HoldersIn, TypeInv
<1>4. \A g \in K : ring'[g] = ring[g]
  BY SavedRing, <1>3 DEF HoldersIn
<1>5. \A g \in Evicted : g = e /\ g \in DOMAIN ring
  BY <1>1, EvictedIsOne
<1>6. \A g \in DOMAIN ring \ Evicted : e < g
  BY <1>2, FramesAreNat DEF Evicted, TypeInv
<1>7. \/ /\ H = {}
         /\ SourceIn(ring, baseline, f, p) = IF p \in DOMAIN baseline THEN baseline[p] ELSE Zero
      \/ \E m \in H : /\ \A g \in H : g <= m
                      /\ SourceIn(ring, baseline, f, p) = ring[m][p]
  BY <1>2, NewestHolder
<1>8. \/ /\ K = {}
         /\ SourceIn(ring', baseline', f, p) = IF p \in DOMAIN baseline' THEN baseline'[p] ELSE Zero
      \/ \E m \in K : /\ \A g \in K : g <= m
                      /\ SourceIn(ring', baseline', f, p) = ring'[m][p]
  BY <1>2, NewestHolder
<1>9. H \subseteq DOMAIN ring /\ \A g \in H : p \in DOMAIN ring[g] /\ g <= f
  BY DEF HoldersIn
<1>10. \A g \in Evicted : p \in DOMAIN ring[g] => g \in H
  BY <1>5 DEF HoldersIn
<1> HIDE DEF H, K
<1>11. CASE K = {}
  <2>1. SourceIn(ring', baseline', f, p) = IF p \in DOMAIN baseline' THEN baseline'[p] ELSE Zero
    BY <1>8, <1>11
  <2>2. CASE H = {}
    <3>1. ~\E g \in Evicted : p \in DOMAIN ring[g]
      BY <1>10, <2>2
    <3>2. /\ p \in DOMAIN baseline' <=> p \in DOMAIN baseline
          /\ p \in DOMAIN baseline => baseline'[p] = baseline[p]
      BY <1>1, <3>1, FoldTyped
    <3> QED BY <1>7, <2>1, <2>2, <3>2
  <2>3. CASE H # {}
    <3>1. PICK m \in H : SourceIn(ring, baseline, f, p) = ring[m][p]
      BY <1>7, <2>3
    <3>2. m \in Evicted /\ m = e /\ p \in DOMAIN ring[m]
      BY <1>3, <1>5, <1>9, <1>11, <3>1
    <3>3. p \in DOMAIN Folded /\ Folded[p] = ring[e][p]
      BY <1>1, <3>2, FoldTyped
    <3> QED BY <1>1, <2>1, <3>1, <3>2, <3>3
  <2> QED BY <2>2, <2>3
<1>12. CASE K # {}
  <2>1. PICK k \in K : /\ \A g \in K : g <= k
                       /\ SourceIn(ring', baseline', f, p) = ring'[k][p]
    BY <1>8, <1>12
  <2>2. PICK m \in H : /\ \A g \in H : g <= m
                       /\ SourceIn(ring, baseline, f, p) = ring[m][p]
    BY <1>3, <1>7, <1>12
  <2>3. k \in H /\ k \in DOMAIN ring \ Evicted /\ k <= m /\ e < k
    BY <1>3, <1>6, <1>9, <2>1, <2>2
  <2>4. m \notin Evicted
    <3>1. m \in Nat /\ k \in Nat /\ e \in Int
      BY <1>2, <1>9, <2>3, FramesAreNat DEF TypeInv
    <3> QED BY <1>5, <2>3, <3>1
  <2>5. m = k
    <3>1. m \in K /\ m <= k /\ m \in Nat /\ k \in Nat
      BY <1>2, <1>3, <1>9, <2>1, <2>2, <2>3, <2>4
    <3> QED BY <2>3, <3>1
  <2> QED BY <1>4, <2>1, <2>2, <2>5
<1> QED BY <1>11, <1>12

(* A page not stored after frame f has the same newest copy at any later    *)
(* frame.                                                                   *)
LEMMA SourceLater ==
  ASSUME TypeOK, NEW f \in Nat, NEW h \in Nat, f <= h, NEW p,
         \A g \in DOMAIN ring : f < g /\ g <= h => p \notin DOMAIN ring[g]
  PROVE  SourceIn(ring, baseline, h, p) = SourceIn(ring, baseline, f, p)
<1>1. DOMAIN ring \subseteq Nat
  BY DEF TypeOK
<1>2. HoldersIn(ring, h, p) = HoldersIn(ring, f, p)
  BY <1>1 DEF HoldersIn
<1> QED BY <1>2 DEF SourceIn

----------------------------------------------------------------------------
(* What the memory, the ring and the baseline say of the history.           *)

(* Only a committed page is written, watched, stored or copied.             *)
Touched ==
  /\ watch \cup DOMAIN baseline \subseteq committed
  /\ \A g \in DOMAIN ring : DOMAIN ring[g] \subseteq committed
  /\ \A p \in Pages \ committed : mem[p] = Zero

(* The newest copy of a page is what a frame began with, for every frame    *)
(* that has had its save and that no rollback has gone below.               *)
SourceIsRight ==
  armed => \A f \in DOMAIN history : f <= rewound /\ (f < frame \/ saved) =>
             \A p \in Scanned \ lost : Source(f, p) = history[f][p]

(* Until a rollback, the memory the frame began with is the memory there    *)
(* is, and a page nobody has written since has its newest copy right.       *)
CleanIsSource ==
  armed /\ rewound = NoRewind =>
    /\ frame \in DOMAIN history /\ history[frame] = mem
    /\ \A p \in Scanned \ lost : p \notin watch => Source(frame, p) = mem[p]

(* A page not written since a frame is what the frame began with.           *)
UnwrittenIsSame ==
  armed => \A f \in DOMAIN history : f <= rewound =>
             \A p \in (Scanned \ lost) \ LeftLive : p \notin WrittenAfter(f) => mem[p] = history[f][p]

RewindInv == TypeInv /\ Touched /\ SourceIsRight /\ CleanIsSource /\ UnwrittenIsSame

LEMMA SaveTouched ==
  ASSUME TypeInv, Touched, Save
  PROVE  Touched'
<1>1. watch' = watch \ Scanned /\ baseline' = Folded /\ mem' = mem /\ committed' = committed
  BY DEF Save
<1>5. armed /\ ~saved
  BY DEF Save
<1>2. Harvest \subseteq committed
  BY DEF Harvest, Touched
<1>3. \A g \in DOMAIN ring' : DOMAIN ring'[g] \subseteq committed
  BY <1>2, SavedRing DEF Touched
<1>4. \A p \in DOMAIN Folded : p \in committed
  BY <1>5, FoldTyped DEF Touched
<1> QED BY <1>1, <1>3, <1>4 DEF Touched

LEMMA NextTouched == TypeInv /\ Touched /\ [Next]_vars => Touched'
<1> SUFFICES ASSUME TypeInv, Touched, [Next]_vars PROVE Touched'
  OBVIOUS
<1>1. ASSUME RunUnarmed \/ RunFrame \/ ReplayFrame PROVE Touched'
  <2>1. (\E W \in SUBSET Pages : Writes(W)) /\ UNCHANGED <<ring, baseline>>
    BY <1>1 DEF RunUnarmed, RunFrame, ReplayFrame
  <2> QED BY <2>1, WritesKeep DEF Touched, TypeInv
<1>2. ASSUME CaptureBaseline PROVE Touched'
  BY <1>2 DEF CaptureBaseline, Touched, NoSlots
<1>3. ASSUME Load PROVE Touched'
  <2>1. PICK f \in Targets : mem' = Restored(Windowed, f)
    BY <1>3 DEF Load
  <2>2. f \in Nat
    BY FramesAreNat DEF Targets, TypeInv
  <2>3. watch' = {} /\ UNCHANGED <<committed, ring, baseline>>
    BY <1>3 DEF Load
  <2>4. ASSUME NEW p \in Pages \ committed PROVE mem'[p] = Zero
    <3>1. HoldersIn(ring, f, p) = {} /\ p \notin DOMAIN baseline
      BY DEF Touched, HoldersIn
    <3>2. Source(f, p) = Zero
      BY <3>1, SourceIsSourceIn DEF SourceIn
    <3> QED BY <2>1, <3>2 DEF Restored, Touched
  <2> QED BY <2>3, <2>4 DEF Touched
<1>4. ASSUME Disarm \/ UNCHANGED vars PROVE Touched'
  BY <1>4 DEF Disarm, vars, Touched
<1> QED BY <1>1, <1>2, <1>3, <1>4, SaveTouched DEF Next

(* A save: pages of the frame's own save, pages unwritten, pages lost.      *)
LEMMA SaveRewinds ==
  ASSUME RewindInv, Save
  PROVE  SourceIsRight' /\ CleanIsSource' /\ UnwrittenIsSame'
<1> USE DEF RewindInv
<1>1. /\ armed /\ ~saved /\ saved' /\ armed' /\ watch' = watch \ Scanned
      /\ UNCHANGED <<mem, frame, replay, history, rewound>>
  BY DEF Save
<1>2. TypeInv' /\ TypeOK /\ TypeOK'
  BY SaveTyped DEF TypeInv
<1>3. /\ frame \in Nat /\ DOMAIN ring \subseteq Nat /\ DOMAIN ring' \subseteq Nat
      /\ RingSlots \in Nat /\ MaxDepth \in Nat /\ MaxDepth < RingSlots
      /\ rewound \in Nat /\ NoRewind = MaxFrame + 1 /\ frame <= MaxFrame /\ MaxFrame \in Nat
  BY <1>2, FramesAreNat DEF TypeOK
<1>4. \A f \in DOMAIN history : f \in Nat /\ frame - RingSlots <= f /\ f <= frame
  <2>1. \A f \in DOMAIN history : f \in Nat /\ frame - MaxDepth - 1 <= f /\ f <= frame
    BY <1>1, <1>2, FramesAreNat DEF TypeInv, InOrder
  <2> QED BY <1>3, <2>1
<1>5. rewound = NoRewind \/ rewound < frame
  BY <1>1 DEF TypeInv, InOrder
<1>6. lost \subseteq lost' /\ Scanned \subseteq Pages
  BY SavedRing DEF Scanned
<1>7. ASSUME rewound = NoRewind, NEW p \in Scanned \ lost'
      PROVE  SourceIn(ring', baseline', frame, p) = mem[p]
  <2>1. CASE p \in Harvest
    <3>1. /\ DOMAIN ring' = (DOMAIN ring \ Evicted) \cup {frame}
          /\ ring'[frame] = [q \in Harvest |-> mem[q]]
      BY <2>1, <1>7, SavedRing
    <3>2. frame \in HoldersIn(ring', frame, p)
      BY <1>3, <2>1, <3>1 DEF HoldersIn
    <3>3. \A g \in HoldersIn(ring', frame, p) : g <= frame /\ g \in Int
      BY <1>3 DEF HoldersIn
    <3>4. Max(HoldersIn(ring', frame, p)) = frame
      BY <3>2, <3>3, MaxIs
    <3> QED BY <2>1, <3>1, <3>2, <3>4 DEF SourceIn
  <2>2. CASE p \notin Harvest
    <3>1. p \notin watch /\ p \in Pages
      BY <1>6, <2>2 DEF Harvest
    <3>2. SourceIn(ring', baseline', frame, p) = SourceIn(ring, baseline, frame, p)
      BY <1>3, <2>2, <3>1, SourceKept
    <3>3. Source(frame, p) = mem[p]
      BY <1>1, <1>6, <1>7, <3>1 DEF CleanIsSource
    <3> QED BY <3>2, <3>3, SourceIsSourceIn
  <2> QED BY <2>1, <2>2
<1>8. SourceIsRight'
  <2> SUFFICES ASSUME NEW f \in DOMAIN history, f <= rewound, NEW p \in Scanned \ lost'
               PROVE  SourceIn(ring', baseline', f, p) = history[f][p]
    BY <1>1 DEF SourceIsRight, Scanned, Source, SourceIn, Holders, HoldersIn
  <2>1. CASE f = frame
    <3>1. rewound = NoRewind
      BY <1>3, <1>5, <2>1
    <3>2. history[f] = mem
      BY <1>1, <2>1, <3>1 DEF CleanIsSource
    <3> QED BY <1>7, <2>1, <3>1, <3>2
  <2>2. CASE f # frame
    <3>1. f < frame /\ f \in Nat /\ frame - RingSlots <= f /\ p \in Pages /\ p \notin lost
      BY <1>3, <1>4, <1>6, <2>2
    <3>2. Source(f, p) = history[f][p]
      BY <1>1, <3>1 DEF SourceIsRight
    <3>3. SourceIn(ring', baseline', f, p) = SourceIn(ring, baseline, f, p)
      <4>1. f <= frame /\ f # frame
        BY <1>3, <2>2, <3>1
      <4> QED BY <3>1, <4>1, SourceKept
    <3> QED BY <3>2, <3>3, SourceIsSourceIn
  <2> QED BY <2>1, <2>2
<1>9. CleanIsSource'
  <2>1. rewound = NoRewind => frame \in DOMAIN history /\ history[frame] = mem
    BY <1>1 DEF CleanIsSource
  <2>2. rewound = NoRewind => \A p \in Scanned \ lost' : Source(frame, p)' = mem[p]
    BY <1>1, <1>7 DEF Source, SourceIn, Holders, HoldersIn
  <2> QED BY <1>1, <2>1, <2>2 DEF CleanIsSource, Scanned, NoRewind
<1>10. UnwrittenIsSame'
  <2> SUFFICES ASSUME NEW f \in DOMAIN history, f <= rewound,
                      NEW p \in (Scanned \ lost') \ LeftLive, p \notin WrittenAfter(f)'
               PROVE  mem[p] = history[f][p]
    BY <1>1 DEF UnwrittenIsSame, Scanned, LeftLive
  <2>1. \A g \in DOMAIN ring' : g > f => p \notin DOMAIN ring'[g]
    BY DEF WrittenAfter
  <2>2. CASE f = frame
    <3>1. rewound = NoRewind
      BY <1>3, <1>5, <2>2
    <3> QED BY <1>1, <2>2, <3>1 DEF CleanIsSource
  <2>3. CASE f # frame
    <3>1. f < frame /\ f \in Nat /\ frame - RingSlots <= f /\ p \notin lost /\ p \in Pages
      BY <1>3, <1>4, <1>6, <2>3
    <3>2. p \notin Harvest
      BY <1>3, <2>1, <3>1, SavedRing
    <3>3. p \notin watch
      BY <3>2 DEF Harvest
    <3>4. ASSUME NEW g \in DOMAIN ring, g > f PROVE p \notin DOMAIN ring[g]
      <4>1. g \in Nat /\ g > frame - RingSlots
        BY <1>3, <3>1, <3>4
      <4>2. g \notin Evicted
        BY <1>3, <4>1 DEF Evicted
      <4> QED BY <2>1, <3>4, <4>2, SavedRing
    <3>5. p \notin WrittenAfter(f)
      BY <3>3, <3>4 DEF WrittenAfter
    <3> QED BY <1>1, <3>1, <3>5 DEF UnwrittenIsSame
  <2> QED BY <2>2, <2>3
<1> QED BY <1>8, <1>9, <1>10

(* The game runs: what it writes is watched.                                *)
LEMMA RunFrameRewinds ==
  ASSUME RewindInv, RunFrame
  PROVE  SourceIsRight' /\ CleanIsSource' /\ UnwrittenIsSame'
<1> USE DEF RewindInv
<1>1. /\ armed /\ saved /\ replay = NotReplaying /\ frame < MaxFrame /\ frame' = frame + 1
      /\ history' = Remembered(frame + 1, mem') /\ armed' = armed
      /\ UNCHANGED <<ring, baseline, rewound, lost>>
  BY DEF RunFrame
<1>2. TypeInv' /\ TypeOK /\ TypeOK'
  BY RunFrameTyped DEF TypeInv
<1>3. /\ frame \in Nat /\ DOMAIN ring \subseteq Nat /\ DOMAIN history \subseteq Nat
      /\ rewound \in Nat /\ NoRewind = MaxFrame + 1 /\ MaxFrame \in Nat
  BY <1>2, FramesAreNat
<1>4. rewound = NoRewind \/ rewound < frame
  BY <1>1, Zenon DEF TypeInv, InOrder
<1>5. /\ watch \subseteq watch' /\ \A p \in Pages : p \notin watch' => mem'[p] = mem[p]
      /\ mem' \in [Pages -> Values]
  <2>1. \E W \in SUBSET Pages : Writes(W)
    BY DEF RunFrame
  <2> QED BY <1>2, <2>1, WritesKeep
<1>6. /\ \A f \in DOMAIN history' : f # frame + 1 => f \in DOMAIN history /\ history'[f] = history[f]
      /\ frame + 1 \in DOMAIN history' => history'[frame + 1] = mem'
      /\ frame + 1 \in DOMAIN history'
  <2> DEFINE r == Remembered(frame + 1, mem')
  <2>1. frame + 1 \in 0..MaxFrame
    BY <1>1, <1>3
  <2>2. /\ DOMAIN r = {h \in DOMAIN history \cup {frame + 1} : h >= frame - MaxDepth}
        /\ \A g \in DOMAIN r : /\ g = frame + 1 => r[g] = mem'
                               /\ g # frame + 1 => g \in DOMAIN history /\ r[g] = history[g]
    BY <1>2, <1>5, <2>1, RememberedIs, Zenon
  <2>3. frame + 1 \in DOMAIN r
    BY <1>2, <1>3, <2>2, FramesAreNat
  <2> HIDE DEF r
  <2>4. history' = r
    BY <1>1 DEF r
  <2> QED BY <2>2, <2>3, <2>4
<1>7. \A g \in DOMAIN ring : g <= frame
  BY <1>1, Zenon DEF TypeInv, InOrder
<1>8. \A f \in DOMAIN history : f <= frame /\ f \in Nat
  BY <1>1, <1>3, Zenon DEF TypeInv, InOrder
<1>9. saved' = FALSE /\ Scanned \subseteq Pages
  BY DEF RunFrame, Scanned
<1>10. SourceIsRight'
  <2> SUFFICES ASSUME NEW f \in DOMAIN history', f <= rewound, f < frame + 1, NEW p \in Scanned \ lost
               PROVE  Source(f, p)' = history'[f][p]
    BY <1>1, <1>9 DEF SourceIsRight, Scanned
  <2>1. f # frame + 1
    BY <1>3
  <2>2. f \in DOMAIN history /\ history'[f] = history[f] /\ f <= frame
    BY <1>6, <1>8, <2>1
  <2>3. f < frame \/ saved
    BY <1>1
  <2>4. Source(f, p) = history[f][p]
    BY <1>1, <2>2, <2>3 DEF SourceIsRight
  <2> QED BY <1>1, <2>2, <2>4 DEF Source, Holders
<1>11. CleanIsSource'
  <2> SUFFICES ASSUME rewound = NoRewind, NEW p \in Scanned \ lost, p \notin watch'
               PROVE  Source(frame, p)' = mem'[p]
    BY <1>1, <1>6 DEF CleanIsSource, Scanned, NoRewind
  <2>1. Source(frame, p) = mem[p]
    BY <1>1, <1>5 DEF CleanIsSource
  <2>2. SourceIn(ring, baseline, frame + 1, p) = SourceIn(ring, baseline, frame, p)
    <3>1. \A g \in DOMAIN ring : ~(frame < g)
      BY <1>3, <1>7
    <3>2. frame + 1 \in Nat /\ frame <= frame + 1
      BY <1>3
    <3> QED BY <1>2, <1>3, <3>1, <3>2, SourceLater
  <2>3. Source(frame, p)' = SourceIn(ring, baseline, frame + 1, p)
    BY <1>1 DEF Source, SourceIn, Holders, HoldersIn
  <2> QED BY <1>5, <1>9, <2>1, <2>2, <2>3, SourceIsSourceIn
<1>12. UnwrittenIsSame'
  <2> SUFFICES ASSUME NEW f \in DOMAIN history', f <= rewound,
                      NEW p \in (Scanned \ lost) \ LeftLive, p \notin WrittenAfter(f)'
               PROVE  mem'[p] = history'[f][p]
    BY <1>1 DEF UnwrittenIsSame, Scanned, LeftLive
  <2>1. CASE f = frame + 1
    BY <1>6, <2>1
  <2>2. CASE f # frame + 1
    <3>1. f \in DOMAIN history /\ history'[f] = history[f]
      BY <1>6, <2>2
    <3>2. p \notin watch' /\ p \notin WrittenAfter(f)
      BY <1>1, <1>5 DEF WrittenAfter
    <3>3. mem[p] = history[f][p]
      BY <1>1, <3>1, <3>2 DEF UnwrittenIsSame
    <3> QED BY <1>5, <1>9, <3>1, <3>2, <3>3
  <2> QED BY <2>1, <2>2
<1> QED BY <1>10, <1>11, <1>12

(* A frame run again changes the history only above every frame the         *)
(* invariant still answers for.                                             *)
LEMMA ReplayFrameRewinds ==
  ASSUME RewindInv, ReplayFrame
  PROVE  SourceIsRight' /\ CleanIsSource' /\ UnwrittenIsSame'
<1> USE DEF RewindInv
<1>1. /\ replay # NotReplaying /\ history' = Remembered(replay + 1, mem')
      /\ armed' = armed /\ saved' = saved
      /\ UNCHANGED <<ring, baseline, frame, rewound, lost>>
  BY DEF ReplayFrame
<1>2. TypeOK
  BY DEF TypeInv
<1>3. armed /\ ~saved
  BY <1>1, Zenon DEF TypeInv, InOrder
<1>4. rewound <= replay /\ replay < frame /\ replay \in Nat /\ rewound # NoRewind
  <2>1. rewound <= replay /\ replay < frame
    BY <1>1, Zenon DEF TypeInv, InOrder
  <2> QED BY <1>1, <1>2, <2>1, FramesAreNat
<1>5. replay + 1 \in 0..MaxFrame
  BY <1>2, <1>4, FramesAreNat
<1>6. /\ watch \subseteq watch' /\ \A p \in Pages : p \notin watch' => mem'[p] = mem[p]
      /\ mem' \in [Pages -> Values]
  <2>1. \E W \in SUBSET Pages : Writes(W)
    BY DEF ReplayFrame
  <2> QED BY <1>2, <2>1, WritesKeep
<1>7. \A f \in DOMAIN history' : f <= rewound => f \in DOMAIN history /\ history'[f] = history[f]
  <2> DEFINE r == Remembered(replay + 1, mem')
  <2>1. \A g \in DOMAIN r : g # replay + 1 => g \in DOMAIN history /\ r[g] = history[g]
    BY <1>2, <1>5, <1>6, RememberedIs, Zenon
  <2>2. \A f : f <= rewound => f # replay + 1
    BY <1>2, <1>4, FramesAreNat
  <2> HIDE DEF r
  <2>3. history' = r
    BY <1>1 DEF r
  <2> QED BY <2>1, <2>2, <2>3
<1>8. SourceIsRight'
  <2> SUFFICES ASSUME NEW f \in DOMAIN history', f <= rewound, f < frame, NEW p \in Scanned \ lost
               PROVE  Source(f, p)' = history'[f][p]
    BY <1>1, <1>3 DEF SourceIsRight, Scanned
  <2>1. Source(f, p) = history'[f][p]
    BY <1>3, <1>7 DEF SourceIsRight
  <2> QED BY <1>1, <2>1 DEF Source, Holders
<1>9. CleanIsSource'
  BY <1>1, <1>4 DEF CleanIsSource, NoRewind
<1>10. UnwrittenIsSame'
  <2> SUFFICES ASSUME NEW f \in DOMAIN history', f <= rewound,
                      NEW p \in (Scanned \ lost) \ LeftLive, p \notin WrittenAfter(f)'
               PROVE  mem'[p] = history'[f][p]
    BY <1>1 DEF UnwrittenIsSame, Scanned, LeftLive
  <2>1. p \notin watch' /\ p \notin WrittenAfter(f) /\ p \in Pages
    BY <1>1, <1>6 DEF WrittenAfter, Scanned
  <2>2. mem[p] = history'[f][p]
    BY <1>3, <1>7, <2>1 DEF UnwrittenIsSame
  <2> QED BY <1>6, <2>1, <2>2
<1> QED BY <1>8, <1>9, <1>10

(* A load: a page it reverts takes the copy that was right for the frame    *)
(* loaded, and a page it leaves was not written since.                      *)
LEMMA LoadRewinds ==
  ASSUME RewindInv, Load, Windowed
  PROVE  SourceIsRight' /\ CleanIsSource' /\ UnwrittenIsSame'
<1> USE DEF RewindInv
<1>1. PICK t \in Targets :
        mem' = Restored(Windowed, t) /\ rewound' = IF t < rewound THEN t ELSE rewound
  BY DEF Load
<1>2. /\ armed /\ ~saved /\ saved' = saved /\ watch' = {}
      /\ UNCHANGED <<ring, baseline, frame, history, lost, armed>>
  BY DEF Load
<1>3. TypeOK
  BY DEF TypeInv
<1>4. t \in DOMAIN history /\ t < frame /\ t \in Nat
  BY <1>3, FramesAreNat DEF Targets
<1>5. rewound' <= t /\ rewound' <= rewound /\ rewound' # NoRewind /\ rewound' \in Nat
  BY <1>1, <1>3, <1>4, FramesAreNat
<1>6. \A f \in DOMAIN history : f \in Nat
  BY <1>3 DEF TypeOK
<1>7. SourceIsRight'
  <2> SUFFICES ASSUME NEW f \in DOMAIN history, f <= rewound', f < frame, NEW p \in Scanned \ lost
               PROVE  Source(f, p)' = history[f][p]
    BY <1>2 DEF SourceIsRight, Scanned
  <2>1. f <= rewound
    BY <1>3, <1>5, <1>6, FramesAreNat
  <2>2. Source(f, p) = history[f][p]
    BY <1>2, <2>1 DEF SourceIsRight
  <2> QED BY <1>2, <2>2 DEF Source, Holders
<1>8. CleanIsSource'
  BY <1>5 DEF CleanIsSource, NoRewind
<1>9. UnwrittenIsSame'
  <2> SUFFICES ASSUME NEW f \in DOMAIN history, f <= rewound',
                      NEW p \in (Scanned \ lost) \ LeftLive, p \notin WrittenAfter(f)'
               PROVE  mem'[p] = history[f][p]
    BY <1>2 DEF UnwrittenIsSame, Scanned, LeftLive
  <2>1. f <= rewound /\ f <= t /\ f < frame /\ f \in Nat
    BY <1>3, <1>4, <1>5, <1>6, FramesAreNat
  <2>2. \A g \in DOMAIN ring : g > f => p \notin DOMAIN ring[g]
    BY <1>2 DEF WrittenAfter
  <2>3. p \in Pages /\ p \notin LeftLive
    BY DEF Scanned
  <2>4. CASE p \in RevertSet(Windowed, t)
    <3>1. mem'[p] = Source(t, p)
      BY <1>1, <2>3, <2>4 DEF Restored
    <3>2. SourceIn(ring, baseline, t, p) = SourceIn(ring, baseline, f, p)
      <4>1. \A g \in DOMAIN ring : f < g /\ g <= t => p \notin DOMAIN ring[g]
        BY <1>3, <2>1, <2>2, FramesAreNat
      <4> QED BY <1>3, <1>4, <2>1, <4>1, SourceLater
    <3>3. Source(f, p) = history[f][p]
      BY <1>2, <2>1 DEF SourceIsRight
    <3> QED BY <3>1, <3>2, <3>3, SourceIsSourceIn
  <2>5. CASE p \notin RevertSet(Windowed, t)
    <3>1. mem'[p] = mem[p]
      BY <1>1, <2>3, <2>5 DEF Restored
    <3>2. p \notin watch
      BY <2>5 DEF RevertSet, WrittenAfter
    <3>3. p \notin WrittenAfter(f)
      BY <2>2, <3>2 DEF WrittenAfter
    <3>4. mem[p] = history[f][p]
      BY <1>2, <2>1, <3>3 DEF UnwrittenIsSame
    <3> QED BY <3>1, <3>4
  <2> QED BY <2>4, <2>5
<1> QED BY <1>7, <1>8, <1>9

(* The baseline's copy of what is committed, and zeroes elsewhere, are the  *)
(* memory the first frame begins with.                                      *)
LEMMA CaptureRewinds ==
  ASSUME RewindInv, CaptureBaseline
  PROVE  SourceIsRight' /\ CleanIsSource' /\ UnwrittenIsSame'
<1> USE DEF RewindInv
<1>1. /\ baseline' = [p \in committed |-> mem[p]] /\ watch' = {} /\ ring' = NoSlots
      /\ history' = [f \in {frame} |-> mem] /\ UNCHANGED <<mem, frame>>
  BY DEF CaptureBaseline
<1>2. saved' = FALSE
  BY DEF CaptureBaseline, TypeInv, InOrder, TypeOK
<1>3. DOMAIN history' = {frame} /\ history'[frame] = mem
  BY <1>1
<1>4. \A f : \A p \in Pages : Source(f, p)' = mem[p]
  <2>1. \A f, p : Holders(f, p)' = {}
    BY <1>1 DEF Holders, NoSlots
  <2> QED BY <1>1, <2>1 DEF Source, Touched
<1>5. frame \in Nat
  BY FramesAreNat DEF TypeInv
<1>6. SourceIsRight'
  BY <1>1, <1>2, <1>3, <1>5 DEF SourceIsRight
<1>7. CleanIsSource'
  BY <1>1, <1>3, <1>4 DEF CleanIsSource, Scanned
<1>8. UnwrittenIsSame'
  BY <1>1, <1>3 DEF UnwrittenIsSame
<1> QED BY <1>6, <1>7, <1>8

LEMMA OthersRewind ==
  ASSUME RewindInv, RunUnarmed \/ Disarm \/ UNCHANGED vars
  PROVE  SourceIsRight' /\ CleanIsSource' /\ UnwrittenIsSame'
<1> USE DEF RewindInv
<1>1. CASE RunUnarmed \/ Disarm
  <2>1. ~armed'
    BY <1>1 DEF RunUnarmed, Disarm
  <2> QED BY <2>1 DEF SourceIsRight, CleanIsSource, UnwrittenIsSame
<1>2. CASE UNCHANGED vars
  <2>1. UNCHANGED <<mem, watch, ring, baseline, armed, frame, saved, history, rewound, lost>>
    BY <1>2 DEF vars
  <2>2. SourceIsRight'
    BY <2>1 DEF SourceIsRight, Source, Holders, Scanned
  <2>3. CleanIsSource'
    BY <2>1 DEF CleanIsSource, Source, Holders, Scanned, NoRewind
  <2>4. UnwrittenIsSame'
    BY <2>1 DEF UnwrittenIsSame, WrittenAfter, Scanned, LeftLive
  <2> QED BY <2>2, <2>3, <2>4
<1> QED BY <1>1, <1>2

LEMMA InitRewinds == Init => RewindInv
<1> SUFFICES ASSUME Init PROVE RewindInv
  OBVIOUS
<1>1. ~armed
  BY DEF Init
<1>2. Touched
  BY DEF Init, Touched, NoSlots
<1> QED BY <1>1, <1>2, InitTypeInv DEF RewindInv, SourceIsRight, CleanIsSource, UnwrittenIsSame

LEMMA NextRewinds == Windowed /\ RewindInv /\ [Next]_vars => RewindInv'
<1> SUFFICES ASSUME Windowed, RewindInv, [Next]_vars PROVE RewindInv'
  OBVIOUS
<1>1. TypeInv' /\ Touched'
  BY NextTyped, NextTouched DEF RewindInv
<1>2. SourceIsRight' /\ CleanIsSource' /\ UnwrittenIsSame'
  BY SaveRewinds, RunFrameRewinds, ReplayFrameRewinds, LoadRewinds, CaptureRewinds, OthersRewind
     DEF Next
<1> QED BY <1>1, <1>2 DEF RewindInv

LEMMA RewindInvIsExact == Windowed /\ RewindInv => LoadIsExact
<1> SUFFICES ASSUME Windowed, RewindInv, armed, NEW f \in Targets, f <= rewound,
                    NEW p \in (Scanned \ lost) \ LeftLive
             PROVE  Restored(Windowed, f)[p] = history[f][p]
  BY DEF LoadIsExact, Rewinds, LeftLive
<1>1. f \in DOMAIN history /\ f < frame /\ p \in Pages
  BY DEF Targets, Scanned
<1>2. CASE p \in RevertSet(Windowed, f)
  BY <1>1, <1>2 DEF Restored, RewindInv, SourceIsRight
<1>3. CASE p \notin RevertSet(Windowed, f)
  BY <1>1, <1>3 DEF Restored, RevertSet, RewindInv, UnwrittenIsSame
<1> QED BY <1>2, <1>3

(* With the windowed revert (g_windowed_restore, on unless switched off),   *)
(* a rollback's load puts every page it answers for back to the bytes the   *)
(* frame began with: whichever of the ring, the baseline or the untouched   *)
(* memory the bytes come from, after any number of saves, failed saves,     *)
(* evictions, rollbacks and replays, as long as no rollback since the       *)
(* baseline has gone below the frame (arena::load over arena::save and      *)
(* fold_into_baseline).                                                     *)
THEOREM WindowedLoadIsExact ==
  ASSUME Windowed
  PROVE  Spec => []LoadIsExact
<1>1. RewindInv /\ [Next]_vars => RewindInv'
  BY NextRewinds
<1>2. Spec => []RewindInv
  BY <1>1, InitRewinds, PTL DEF Spec
<1>3. RewindInv => LoadIsExact
  BY RewindInvIsExact
<1> QED BY <1>2, <1>3, PTL

=============================================================================
