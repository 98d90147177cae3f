------------------------------ MODULE WorldProof ------------------------------
(***************************************************************************)
(* Proofs about World, for any sizes that satisfy the assumptions of its    *)
(* parts: every safety property of every part, in the order of the modules  *)
(* - what a rollback restores in parts, the quarantine of the slabs, the    *)
(* voices, the kicks, the surfaces, the free lists, the husks, the regions  *)
(* - and the types of all of them at the end.                               *)
(*                                                                         *)
(* A behaviour follows one part, so an invariant about a part speaks of the *)
(* behaviours that follow it; in the others the part keeps its first state. *)
(***************************************************************************)
EXTENDS World, SequenceTheorems, FiniteSetTheorems, TLAPS

USE DepthAssumption

ClockTyped == frame \in Nat /\ at \in {Live} \cup Nat

LEMMA ClockStep ==
  ASSUME ClockTyped, [WorldNext]_worldVars
  PROVE  ClockTyped'
<1>1. CASE UNCHANGED worldVars
  BY <1>1 DEF worldVars, clockVars, ClockTyped
<1>2. CASE Game
  BY <1>2 DEF Game, clockVars, ClockTyped
<1>3. CASE ArmWorld
  BY <1>3 DEF ArmWorld, Arm, ClockTyped
<1>4. CASE DisarmWorld
  BY <1>4 DEF DisarmWorld, Disarm, ClockTyped
<1>5. CASE NextFrame
  BY <1>5 DEF NextFrame, Forward, ClockTyped
<1>6. CASE ReplayedFrame
  BY <1>6 DEF ReplayedFrame, Replay, ClockTyped, Live
<1>7. CASE \E target \in (frame - MaxDepth)..(frame - 1) : GoBack(target)
  BY <1>7 DEF GoBack, Rollback, ClockTyped, Live
<1> QED BY <1>1, <1>2, <1>3, <1>4, <1>5, <1>6, <1>7 DEF WorldNext

LEMMA ClockInitially == WorldInit => ClockTyped
  BY DEF WorldInit, ClockInit, ClockTyped, Live

----------------------------------------------------------------------------
(* RevertParts.                                                             *)

(* What a step does to the parts where they are followed, and elsewhere.    *)
PartsStep ==
  \/ PartsGame /\ UNCHANGED clockVars
  \/ PartsArm /\ Arm
  \/ PartsFrame /\ Forward
  \/ \E target \in Nat : PartsRollback(target) /\ Rollback(target)
  \/ UNCHANGED partVars /\ (Disarm \/ Replay \/ UNCHANGED clockVars)

LEMMA PartsFollowed ==
  ASSUME [WorldNext]_worldVars
  PROVE  /\ watched' = watched
         /\ watched = "parts" => PartsStep
         /\ watched # "parts" => UNCHANGED partVars
<1>1. CASE UNCHANGED worldVars
  BY <1>1 DEF worldVars, PartsStep
<1>2. CASE Game
  BY <1>2 DEF Game, Parted, PartsStep
<1>3. CASE ArmWorld
  BY <1>3 DEF ArmWorld, Parted, PartsStep
<1>4. CASE DisarmWorld
  BY <1>4 DEF DisarmWorld, Parted, PartsStep
<1>5. CASE NextFrame
  BY <1>5 DEF NextFrame, Parted, PartsStep
<1>6. CASE ReplayedFrame
  BY <1>6 DEF ReplayedFrame, Parted, PartsStep
<1>7. CASE \E target \in (frame - MaxDepth)..(frame - 1) : GoBack(target)
  BY <1>7 DEF GoBack, Rollback, Parted, PartsStep
<1> QED BY <1>1, <1>2, <1>3, <1>4, <1>5, <1>6, <1>7 DEF WorldNext

Content == [Restored \cup Present -> Int]

(* The ring holds the last saves, one for every frame; the arena's pages of *)
(* a frame it still has are those the entry of that frame was saved with.   *)
RingInv ==
  /\ ring \in Seq([frame : Nat, parts : Content])
  /\ Len(ring) <= PartSlots /\ Len(ring) <= frame
  /\ Len(ring) = frame \/ Len(ring) = PartSlots
  /\ \A i \in DOMAIN ring : ring[i].frame = frame - Len(ring) + i - 1

PagesInv ==
  /\ \A f \in DOMAIN pages : f \in Nat /\ f < frame /\ pages[f] \in Int
  /\ \A f \in DOMAIN pages, i \in DOMAIN ring :
       ring[i].frame = f => pages[f] = ring[i].parts["pages"]

PartsInv ==
  /\ parts \in Content /\ now \in Nat /\ baseline \in Int
  /\ \A p \in Present \ missed : parts[p] = now
  /\ RingInv /\ PagesInv
  /\ reverted \in {Live} \cup Nat
  /\ at # Live /\ reverted # Live => reverted <= at

(* What one save adds to the ring.                                          *)
LEMMA SaveExtendsRing ==
  ASSUME ClockTyped, PartsInv, PartsFrame, Forward
  PROVE  /\ RingInv'
         /\ \A i \in DOMAIN ring' :
              \/ ring'[i].frame = frame /\ ring'[i].parts = parts
              \/ ring'[i].frame # frame /\ \E j \in DOMAIN ring : ring'[i] = ring[j]
<1> DEFINE new == [frame |-> frame, parts |-> parts]
           longer == Append(ring, new)
<1>1. new \in [frame : Nat, parts : Content]
  BY DEF ClockTyped, PartsInv
<1>2. /\ longer \in Seq([frame : Nat, parts : Content])
      /\ Len(longer) = Len(ring) + 1
      /\ \A i \in 1..Len(ring) : longer[i] = ring[i]
      /\ longer[Len(ring) + 1] = new
  BY <1>1 DEF PartsInv, RingInv
<1>3. frame' = frame + 1
  BY DEF Forward
<1>7. RingInv
  BY DEF PartsInv
<1>9. PartSlots \in Nat /\ frame \in Nat
  BY PartsAssumption DEF ClockTyped
<1>4. Len(ring) \in Nat /\ DOMAIN ring = 1..Len(ring) /\ PartSlots \in Nat /\ frame \in Nat
  BY <1>7, <1>9 DEF RingInv
<1>8. Len(ring) <= PartSlots /\ Len(ring) <= frame /\ (Len(ring) = frame \/ Len(ring) = PartSlots)
  BY <1>7 DEF RingInv
<1>0. \A i \in 1..Len(ring) : ring[i].frame = frame - Len(ring) + i - 1
  BY <1>4, <1>7 DEF RingInv
<1>5. CASE Len(ring) < PartSlots
  <2>1. ring' = longer
    BY <1>5 DEF PartsFrame
  <2>2. \A i \in 1..(Len(ring) + 1) :
          \/ i = Len(ring) + 1 /\ longer[i] = new
          \/ i <= Len(ring) /\ longer[i] = ring[i] /\ ring[i].frame = frame - Len(ring) + i - 1
    <3> HIDE DEF longer, new
    <3>0. Len(ring) \in Nat
      BY <1>4
    <3> TAKE i \in 1..(Len(ring) + 1)
    <3>1. i = Len(ring) + 1 \/ i \in 1..Len(ring)
      BY <3>0
    <3>2. CASE i = Len(ring) + 1
      BY <1>2, <3>2
    <3>3. CASE i \in 1..Len(ring)
      <4>1. longer[i] = ring[i]
        BY <1>2, <3>3
      <4>2. ring[i].frame = frame - Len(ring) + i - 1
        BY <1>0, <3>3
      <4>3. i <= Len(ring)
        BY <3>0, <3>3
      <4> QED BY <4>1, <4>2, <4>3
    <3> QED BY <3>1, <3>2, <3>3
  <2> HIDE DEF longer, new
  <2>3. DOMAIN ring' = 1..(Len(ring) + 1) /\ Len(ring') = Len(ring) + 1
    BY <1>2, <2>1
  <2>4. \A i \in DOMAIN ring' : ring'[i].frame = frame' - Len(ring') + i - 1
    <3>1. new.frame = frame
      BY DEF new
    <3>2. frame' = frame + 1 /\ frame \in Nat /\ Len(ring) \in Nat
      BY <1>3, <1>4
    <3>3. frame' - Len(ring') = frame - Len(ring)
      BY <2>3, <3>2
    <3> TAKE i \in DOMAIN ring'
    <3>4. i \in 1..(Len(ring) + 1) /\ ring'[i] = longer[i]
      BY <2>1, <2>3
    <3>5. CASE i = Len(ring) + 1 /\ longer[i] = new
      <4>1. ring'[i].frame = frame
        BY <3>1, <3>4, <3>5
      <4>2. frame - Len(ring) + i - 1 = frame
        BY <3>2, <3>5
      <4> QED BY <3>3, <4>1, <4>2
    <3>6. CASE longer[i] = ring[i] /\ ring[i].frame = frame - Len(ring) + i - 1
      BY <3>3, <3>4, <3>6
    <3> QED BY <2>2, <3>4, <3>5, <3>6
  <2>5. RingInv'
    <3>1. Len(ring') <= PartSlots /\ Len(ring') <= frame'
          /\ (Len(ring') = frame' \/ Len(ring') = PartSlots)
      <4>1. Len(ring') = Len(ring) + 1
        BY <2>3
      <4>2. Len(ring) = frame /\ Len(ring) < PartSlots
        <5> DEFINE L == Len(ring)
        <5>1. L <= PartSlots /\ (L = frame \/ L = PartSlots) /\ L < PartSlots /\ L \in Nat
          BY <1>4, <1>5, <1>8
        <5> HIDE DEF L
        <5>2. L = frame /\ L < PartSlots
          BY <1>9, <5>1
        <5> QED BY <5>2 DEF L
      <4> QED BY <1>3, <1>4, <4>1, <4>2
    <3> QED BY <1>2, <2>1, <2>4, <3>1 DEF RingInv, Content, Restored, Present
  <2>6. new.frame = frame /\ new.parts = parts
    BY DEF new
  <2>7. \A i \in 1..Len(ring) : ring[i].frame # frame
    BY <1>0, <1>4
  <2> QED BY <1>4, <2>1, <2>2, <2>3, <2>5, <2>6, <2>7
<1>6. CASE Len(ring) = PartSlots
  <2>1. ring' = Tail(longer)
    BY <1>4, <1>6 DEF PartsFrame
  <2>2. /\ ring' \in Seq([frame : Nat, parts : Content]) /\ Len(ring') = Len(ring)
        /\ DOMAIN ring' = 1..Len(ring)
        /\ \A i \in 1..Len(ring) : ring'[i] = longer[i + 1]
    <3> HIDE DEF longer
    <3> QED BY <1>2, <1>4, <2>1
  <2>3. \A i \in 1..Len(ring) :
          \/ i = Len(ring) /\ ring'[i] = new
          \/ i < Len(ring) /\ ring'[i] = ring[i + 1] /\ ring[i + 1].frame = frame - Len(ring) + i
    <3> HIDE DEF longer, new
    <3>1. TAKE i \in 1..Len(ring)
    <3>2. CASE i = Len(ring)
      BY <1>2, <1>4, <2>2, <3>2
    <3>3. CASE i < Len(ring)
      <4>1. i + 1 \in 1..Len(ring)
        BY <1>4, <3>3
      <4>2. ring'[i] = ring[i + 1]
        BY <1>2, <2>2, <4>1
      <4>3. ring[i + 1].frame = frame - Len(ring) + (i + 1) - 1
        BY <1>0, <4>1
      <4> DEFINE L == Len(ring)
                 F == ring[i + 1].frame
      <4>4. L \in Nat /\ i \in Int /\ F = frame - L + (i + 1) - 1
        BY <1>4, <4>3
      <4> HIDE DEF L, F
      <4>5. F = frame - L + i
        BY <1>9, <4>4
      <4>6. ring[i + 1].frame = frame - Len(ring) + i
        BY <4>5 DEF L, F
      <4> QED BY <3>3, <4>2, <4>6
    <3>4. i = Len(ring) \/ i < Len(ring)
      <4> DEFINE L == Len(ring)
      <4>1. L \in Nat /\ i \in 1..L
        BY <1>4
      <4> HIDE DEF L
      <4>2. i = L \/ i < L
        BY <4>1
      <4> QED BY <4>2 DEF L
    <3> QED BY <3>2, <3>3, <3>4
  <2> HIDE DEF longer, new
  <2>4. \A i \in 1..Len(ring) : ring'[i].frame = frame' - Len(ring') + i - 1
    <3>1. new.frame = frame
      BY DEF new
    <3>2. TAKE i \in 1..Len(ring)
    <3>3. CASE i = Len(ring)
      <4>1. ring'[i].frame = frame
        BY <2>3, <3>1, <3>3
      <4> QED BY <1>3, <1>4, <2>2, <3>3, <4>1
    <3>4. CASE i < Len(ring)
      <4>1. ring'[i].frame = frame - Len(ring) + i
        BY <2>3, <3>4
      <4> DEFINE L == Len(ring)
                 F == ring'[i].frame
      <4>2. L \in Nat /\ i \in Int /\ F = frame - L + i
        BY <1>4, <4>1
      <4> HIDE DEF L, F
      <4>3. F = frame' - L + i - 1
        BY <1>3, <1>9, <4>2
      <4> QED BY <2>2, <4>3 DEF L, F
    <3>5. i = Len(ring) \/ i < Len(ring)
      BY <2>3
    <3> QED BY <3>3, <3>4, <3>5
  <2>5. RingInv'
    <3>1. Len(ring') <= PartSlots /\ Len(ring') <= frame'
          /\ (Len(ring') = frame' \/ Len(ring') = PartSlots)
      BY <1>3, <1>4, <1>6, <1>8, <2>2
    <3> QED BY <2>2, <2>4, <3>1 DEF RingInv, Content, Restored, Present
  <2>6. new.frame = frame /\ new.parts = parts
    BY DEF new
  <2>7. \A i \in 1..Len(ring) : i < Len(ring) => i + 1 \in 1..Len(ring) /\ ring[i + 1].frame # frame
    BY <1>0, <1>4
  <2>8. ASSUME NEW i \in 1..Len(ring)
        PROVE  \/ ring'[i].frame = frame /\ ring'[i].parts = parts
               \/ ring'[i].frame # frame /\ \E j \in DOMAIN ring : ring'[i] = ring[j]
    <3>1. CASE i = Len(ring) /\ ring'[i] = new
      BY <2>6, <3>1
    <3>2. CASE i < Len(ring) /\ ring'[i] = ring[i + 1]
      <4>1. i + 1 \in DOMAIN ring /\ ring[i + 1].frame # frame
        BY <1>4, <2>7, <3>2
      <4> QED BY <3>2, <4>1
    <3> QED BY <2>3, <3>1, <3>2
  <2> QED BY <2>2, <2>5, <2>8
<1>10. Len(ring) < PartSlots \/ Len(ring) = PartSlots
  <2> DEFINE L == Len(ring)
  <2>1. L \in Nat /\ L <= PartSlots
    BY <1>4, <1>8
  <2> HIDE DEF L
  <2>2. L < PartSlots \/ L = PartSlots
    BY <1>9, <2>1
  <2> QED BY <2>2 DEF L
<1> QED BY <1>5, <1>6, <1>10

(* What the search of a ring finds.                                         *)
LEMMA NearestFound ==
  ASSUME RingInv, frame \in Nat, NEW target \in Nat, AtOrBefore(target) # {}
  PROVE  /\ Nearest(target) \in AtOrBefore(target)
         /\ \A j \in AtOrBefore(target) : ring[j].frame <= ring[Nearest(target)].frame
<1>1. \E k \in AtOrBefore(target) : \A j \in AtOrBefore(target) : ring[j].frame <= ring[k].frame
  <2>1. PICK i \in AtOrBefore(target) : TRUE
    OBVIOUS
  <2>2. DOMAIN ring = 1..Len(ring) /\ Len(ring) \in Nat
    BY DEF RingInv
  <2>3. \A j \in 1..Len(ring) : ring[j].frame = frame - Len(ring) + j - 1
    BY <2>2 DEF RingInv
  <2> DEFINE L == Len(ring)
             F(j) == frame - L + j - 1
             k == IF target >= F(L) THEN L ELSE target - frame + L + 1
  <2>4. L \in Nat /\ (\A j \in 1..L : ring[j].frame = F(j)) /\ DOMAIN ring = 1..L
    BY <2>2, <2>3
  <2> HIDE DEF L
  <2>5. i \in 1..L /\ F(i) <= target
    BY <2>1, <2>4 DEF AtOrBefore
  <2>6. k \in 1..L /\ F(k) <= target
    BY <2>4, <2>5
  <2>7. \A j \in 1..L : F(j) <= target => F(j) <= F(k)
    BY <2>4, <2>5
  <2> HIDE DEF k, F
  <2>8. k \in AtOrBefore(target)
    BY <2>4, <2>6 DEF AtOrBefore
  <2>9. \A j \in AtOrBefore(target) : ring[j].frame <= ring[k].frame
    BY <2>4, <2>6, <2>7 DEF AtOrBefore
  <2> QED BY <2>8, <2>9
<1> QED BY <1>1 DEF Nearest

(* The parts one after the other, whatever the rings hold.                  *)
LEMMA BackTyped ==
  ASSUME RingInv, frame \in Nat, NEW target \in Nat, NEW m \in Content
  PROVE  /\ DataBack(m, target) \in Content
         /\ ZoneBack(m, target) \in Content
         /\ HeadsBack(m, target) \in Content
         /\ \A p \in Present : /\ DataBack(m, target)[p] = m[p]
                               /\ ZoneBack(m, target)[p] = m[p]
                               /\ HeadsBack(m, target)[p] = m[p]
<1>1. ASSUME AtOrBefore(target) # {}
      PROVE  ring[Nearest(target)].parts \in Content
  <2>1. Nearest(target) \in DOMAIN ring
    BY <1>1, NearestFound DEF AtOrBefore
  <2>2. ring \in Seq([frame : Nat, parts : Content])
    BY DEF RingInv
  <2>3. \A k \in DOMAIN ring : ring[k] \in [frame : Nat, parts : Content]
    <3> DEFINE S == [frame : Nat, parts : Content]
    <3>1. ring \in Seq(S)
      BY <2>2
    <3> HIDE DEF S
    <3>2. \A k \in DOMAIN ring : ring[k] \in S
      BY <3>1
    <3> QED BY <3>2 DEF S
  <2> HIDE DEF Nearest
  <2> QED BY <2>1, <2>3
<1> HIDE DEF Nearest, AtOrBefore
<1>2. DataBack(m, target) \in Content /\ \A p \in Present : DataBack(m, target)[p] = m[p]
  BY <1>1 DEF DataBack, Content, Restored, Present, InPages
<1>3. ZoneBack(m, target) \in Content /\ \A p \in Present : ZoneBack(m, target)[p] = m[p]
  BY <1>1 DEF ZoneBack, Content, Restored, Present, InPages
<1>4. HeadsBack(m, target) \in Content /\ \A p \in Present : HeadsBack(m, target)[p] = m[p]
  BY <1>1 DEF HeadsBack, Blank, Content, Restored, Present, InPages
<1> QED BY <1>2, <1>3, <1>4

(* Loading the pages, and writing back what was taken.                      *)
LEMMA LoadTyped ==
  ASSUME parts \in Content, PagesInv, baseline \in Int, NEW target \in Nat, NEW untaken
  PROVE  LET one == AudioBack(SoundsBack(PagesBack(parts, target), untaken), untaken)
         IN /\ one \in Content
            /\ one["pages"] = IF target \in DOMAIN pages THEN pages[target] ELSE baseline
            /\ one["preserve"] = parts["preserve"]
            /\ "sounds" \notin untaken => one["sounds"] = parts["sounds"]
            /\ "audio" \notin untaken => one["audio"] = parts["audio"]
<1> DEFINE instant == IF target \in DOMAIN pages THEN pages[target] ELSE baseline
           zero == PagesBack(parts, target)
           half == SoundsBack(zero, untaken)
           one == AudioBack(half, untaken)
<1>1. instant \in Int
  BY DEF PagesInv
<1>2. zero = [p \in Restored \cup Present |-> IF p \in {"pages"} \cup InPages THEN instant ELSE parts[p]]
  BY DEF PagesBack, Content
<1> HIDE DEF instant
<1>3. zero \in Content /\ zero["pages"] = instant /\ zero["preserve"] = parts["preserve"]
  BY <1>1, <1>2 DEF Content, Restored, Present, InPages
<1> HIDE DEF zero
<1>4. /\ half \in Content /\ half["pages"] = instant /\ half["preserve"] = parts["preserve"]
      /\ "sounds" \notin untaken => half["sounds"] = parts["sounds"]
  BY <1>3 DEF SoundsBack, PutBack, Content, Restored, Present, InPages
<1> HIDE DEF half
<1>5. /\ one \in Content /\ one["pages"] = instant /\ one["preserve"] = parts["preserve"]
      /\ "sounds" \notin untaken => one["sounds"] = parts["sounds"]
      /\ "audio" \notin untaken => one["audio"] = parts["audio"]
  BY <1>4 DEF AudioBack, PutBack, Content, Restored, Present, InPages
<1> QED BY <1>5 DEF instant, half, zero

(* What belongs to the system comes through a whole rollback as it was,     *)
(* but for what was not taken.                                              *)
LEMMA RevertedKeeps ==
  ASSUME RingInv, PagesInv, parts \in Content, baseline \in Int, frame \in Nat,
         NEW target \in Nat, NEW untaken \in SUBSET Short
  PROVE  /\ AllBack(target, untaken) \in Content
         /\ \A p \in Present \ untaken : AllBack(target, untaken)[p] = parts[p]
<1> DEFINE one == AudioBack(SoundsBack(PagesBack(parts, target), untaken), untaken)
           two == ZoneBack(DataBack(one, target), target)
           three == HandlesBack(two)
           four == SubobjectsBack(three, untaken)
           five == HeadsBack(four, target)
<1>1. /\ one \in Content /\ one["preserve"] = parts["preserve"]
      /\ "sounds" \notin untaken => one["sounds"] = parts["sounds"]
      /\ "audio" \notin untaken => one["audio"] = parts["audio"]
  BY LoadTyped
<1>2. AllBack(target, untaken) = SectionsBack(five)
  BY DEF AllBack
<1> HIDE DEF one
<1>3. two \in Content /\ \A p \in Present : two[p] = one[p]
  <2> DEFINE data == DataBack(one, target)
  <2>1. data \in Content /\ \A p \in Present : data[p] = one[p]
    BY <1>1, BackTyped
  <2> HIDE DEF data
  <2>2. ZoneBack(data, target) \in Content /\ \A p \in Present : ZoneBack(data, target)[p] = data[p]
    BY <2>1, BackTyped
  <2> QED BY <2>1, <2>2 DEF data
<1> HIDE DEF two
<1>4. three \in Content /\ three["handles"] = parts["handles"]
      /\ \A p \in Present \ {"handles"} : three[p] = two[p]
  BY <1>3 DEF HandlesBack, PutBack, Content, Restored, Present, InPages
<1> HIDE DEF three
<1>5. four \in Content /\ ("subobjects" \notin untaken => four["subobjects"] = parts["subobjects"])
      /\ \A p \in Present \ {"subobjects"} : four[p] = three[p]
  BY <1>4 DEF SubobjectsBack, PutBack, Content, Restored, Present, InPages
<1> HIDE DEF four
<1>6. five \in Content /\ \A p \in Present : five[p] = four[p]
  BY <1>5, BackTyped
<1> HIDE DEF five
<1>7. SectionsBack(five) \in Content /\ SectionsBack(five)["sections"] = parts["sections"]
      /\ \A p \in Present \ {"sections"} : SectionsBack(five)[p] = five[p]
  BY <1>6 DEF SectionsBack, PutBack, Content, Restored, Present, InPages
<1>8. ASSUME NEW p \in Present \ untaken
      PROVE  SectionsBack(five)[p] = parts[p]
  BY <1>1, <1>3, <1>4, <1>5, <1>6, <1>7, <1>8 DEF Present, InPages
<1> QED BY <1>2, <1>7, <1>8

LEMMA PartsInitially == WorldInit => PartsInv
<1> SUFFICES ASSUME WorldInit PROVE PartsInv
  OBVIOUS
<1>1. frame = 0 /\ at = Live /\ PartsInit
  BY DEF WorldInit, ClockInit
<1>2. parts \in Content /\ \A p \in Present \ missed : parts[p] = now
  BY <1>1 DEF PartsInit, Content
<1>3. RingInv
  BY <1>1, PartsAssumption DEF PartsInit, RingInv
<1>4. PagesInv
  BY <1>1 DEF PartsInit, PagesInv
<1> QED BY <1>1, <1>2, <1>3, <1>4 DEF PartsInit, PartsInv, Live

LEMMA PartsKept ==
  ASSUME ClockTyped, PartsInv, PartsStep
  PROVE  PartsInv'
<1>1. CASE PartsGame /\ UNCHANGED clockVars
  <2>1. parts' \in Content /\ (\A p \in Present \ missed' : parts'[p] = now') /\ now' \in Nat
    BY <1>1 DEF PartsGame, PartsInv, Content
  <2>2. RingInv' /\ PagesInv'
    BY <1>1 DEF PartsGame, PartsInv, RingInv, PagesInv, clockVars
  <2> QED BY <1>1, <2>1, <2>2 DEF PartsGame, PartsInv, clockVars
<1>2. CASE PartsArm /\ Arm
  <2>1. RingInv' /\ PagesInv'
    BY <1>2 DEF PartsArm, Arm, PartsInv, RingInv, PagesInv
  <2>2. baseline' \in Int
    BY <1>2 DEF PartsArm, PartsInv, Content, Restored, Present
  <2> QED BY <1>2, <2>1, <2>2 DEF PartsArm, Arm, PartsInv
<1>3. CASE PartsFrame /\ Forward
  <2>1. RingInv'
    BY <1>3, SaveExtendsRing
  <2>2. PICK new \in {{}, {frame}} :
          pages' = [f \in {g \in DOMAIN pages : g > frame - PageSlots} \cup new |->
                      IF f = frame THEN parts["pages"] ELSE pages[f]]
    BY <1>3 DEF PartsFrame
  <2>3. parts["pages"] \in Int /\ frame \in Nat /\ frame' = frame + 1
    BY <1>3 DEF PartsInv, Content, Restored, Present, ClockTyped, Forward
  <2>4. \A f \in DOMAIN pages' : \/ f = frame /\ pages'[f] = parts["pages"]
                                 \/ f # frame /\ f \in DOMAIN pages /\ pages'[f] = pages[f]
    BY <2>2
  <2>5. PagesInv'
    <3>1. \A f \in DOMAIN pages' : f \in Nat /\ f < frame' /\ pages'[f] \in Int
      BY <2>3, <2>4 DEF PartsInv, PagesInv
    <3>2. ASSUME NEW f \in DOMAIN pages', NEW i \in DOMAIN ring', ring'[i].frame = f
          PROVE  pages'[f] = ring'[i].parts["pages"]
      BY <1>3, <2>4, <3>2, SaveExtendsRing DEF PartsInv, PagesInv
    <3> QED BY <3>1, <3>2 DEF PagesInv
  <2> QED BY <1>3, <2>1, <2>5 DEF PartsFrame, Forward, PartsInv
<1>4. CASE \E target \in Nat : PartsRollback(target) /\ Rollback(target)
  <2>1. PICK target \in Nat : PartsRollback(target) /\ Rollback(target)
    BY <1>4
  <2>2. RingInv' /\ PagesInv'
    BY <2>1 DEF PartsRollback, Rollback, PartsInv, RingInv, PagesInv
  <2>3. PICK untaken \in SUBSET Short : parts' = AllBack(target, untaken) /\ missed' = missed \cup untaken
    BY <2>1 DEF PartsRollback
  <2>4. parts' \in Content /\ \A p \in Present \ missed' : parts'[p] = parts[p]
    BY <2>3, RevertedKeeps DEF PartsInv, ClockTyped
  <2>5. now' = now /\ \A p \in Present \ missed' : p \in Present \ missed
    BY <2>1, <2>3 DEF PartsRollback
  <2>6. \A p \in Present \ missed' : parts'[p] = now'
    BY <2>4, <2>5 DEF PartsInv
  <2> QED BY <2>1, <2>2, <2>4, <2>6 DEF PartsRollback, Rollback, PartsInv
<1>5. CASE UNCHANGED partVars /\ (Disarm \/ Replay \/ UNCHANGED clockVars)
  <2>1. RingInv' /\ PagesInv'
    BY <1>5 DEF partVars, clockVars, Disarm, Replay, PartsInv, RingInv, PagesInv
  <2>2. at' # Live /\ reverted' # Live => reverted' <= at'
    BY <1>5 DEF partVars, clockVars, Disarm, Replay, PartsInv, ClockTyped, Live
  <2> QED BY <1>5, <2>1, <2>2 DEF partVars, PartsInv
<1> QED BY <1>1, <1>2, <1>3, <1>4, <1>5 DEF PartsStep

(* What a rollback restores is what the nearest entry was saved with, if    *)
(* the arena's pages of the target are.                                     *)
LEMMA RevertedRestores ==
  ASSUME RingInv, PagesInv, parts \in Content, baseline \in Int, frame \in Nat,
         NEW target \in DOMAIN pages, NEW untaken \in SUBSET Short,
         AtOrBefore(target) # {},
         pages[target] = ring[Nearest(target)].parts["pages"]
  PROVE  \A p \in Restored : AllBack(target, untaken)[p] = ring[Nearest(target)].parts[p]
<1> DEFINE saved == ring[Nearest(target)].parts
           one == AudioBack(SoundsBack(PagesBack(parts, target), untaken), untaken)
           data == DataBack(one, target)
           two == ZoneBack(data, target)
           three == HandlesBack(two)
           four == SubobjectsBack(three, untaken)
           five == HeadsBack(four, target)
<1>1. target \in Nat
  BY DEF PagesInv
<1>2. one \in Content /\ one["pages"] = saved["pages"]
  BY <1>1, LoadTyped
<1>3. AllBack(target, untaken) = SectionsBack(five)
  BY DEF AllBack
<1> HIDE DEF one
<1>4. data \in Content /\ data["pages"] = saved["pages"] /\ data["data"] = saved["data"]
  <2>1. data \in Content
    BY <1>1, <1>2, BackTyped
  <2> HIDE DEF saved
  <2>2. data["pages"] = one["pages"] /\ data["data"] = saved["data"]
    BY <1>2 DEF DataBack, saved, Content, Restored, Present, InPages
  <2> QED BY <1>2, <2>1, <2>2
<1> HIDE DEF data
<1>5. two \in Content /\ two["pages"] = saved["pages"] /\ two["data"] = saved["data"]
      /\ two["zone"] = saved["zone"]
  <2>1. two \in Content
    BY <1>1, <1>4, BackTyped
  <2>2. two = [data EXCEPT !["zone"] = saved["zone"]]
    BY DEF ZoneBack
  <2> HIDE DEF saved, two
  <2> QED BY <1>4, <2>1, <2>2 DEF Content, Restored
<1> HIDE DEF two
<1>6. three \in Content /\ three["pages"] = saved["pages"] /\ three["data"] = saved["data"]
      /\ three["zone"] = saved["zone"]
  <2> HIDE DEF saved
  <2> QED BY <1>5 DEF HandlesBack, PutBack, Content, Restored, Present, InPages
<1> HIDE DEF three
<1>7. four \in Content /\ four["pages"] = saved["pages"] /\ four["data"] = saved["data"]
      /\ four["zone"] = saved["zone"]
  <2> HIDE DEF saved
  <2> QED BY <1>6 DEF SubobjectsBack, PutBack, Content, Restored, Present, InPages
<1> HIDE DEF four
<1>8. five \in Content /\ five["pages"] = saved["pages"] /\ five["data"] = saved["data"]
      /\ five["zone"] = saved["zone"] /\ five["heads"] = saved["heads"]
  <2>1. five \in Content
    BY <1>1, <1>7, BackTyped
  <2>2. five = [four EXCEPT !["heads"] = saved["heads"]]
    BY DEF HeadsBack
  <2> HIDE DEF saved, five
  <2> QED BY <1>7, <2>1, <2>2 DEF Content, Restored
<1> HIDE DEF five
<1>9. \A p \in Restored : SectionsBack(five)[p] = saved[p]
  <2> HIDE DEF saved
  <2> QED BY <1>8 DEF SectionsBack, PutBack, Content, Restored, Present, InPages
<1> QED BY <1>3, <1>9

(* A rollback to a frame the arena has pages of finds that frame in the     *)
(* ring too, and brings back what its entry was saved with.                 *)
LEMMA OneInstantStep ==
  ASSUME ClockTyped, PartsInv, PartsStep, OneInstant
  PROVE  OneInstant'
<1>1. CASE \E target \in Nat : PartsRollback(target) /\ Rollback(target)
  <2>1. PICK target \in Nat : PartsRollback(target) /\ Rollback(target)
    BY <1>1
  <2>2. PartsInv'
    BY PartsKept
  <2>3. ring' = ring /\ pages' = pages /\ now' = now /\ reverted' = target
    BY <2>1 DEF PartsRollback
  <2>4. ASSUME target \in DOMAIN pages
        PROVE  \E i \in DOMAIN ring : /\ ring[i].frame = target
                                      /\ \A p \in Restored : parts'[p] = ring[i].parts[p]
    <3>1. RingInv /\ PagesInv /\ parts \in Content /\ frame \in Nat
      BY DEF PartsInv, ClockTyped
    <3>2. target < frame /\ frame - target <= MaxDepth /\ MaxDepth \in Nat
          /\ PartSlots \in Nat /\ MaxDepth <= PartSlots
      BY <2>1, PartsAssumption DEF Rollback
    <3>3. \E i \in AtOrBefore(target) : ring[i].frame = target
      <4> DEFINE L == Len(ring)
                 i == target - frame + L + 1
      <4>1. DOMAIN ring = 1..L /\ L \in Nat /\ (L = frame \/ L = PartSlots)
        BY <3>1 DEF RingInv
      <4>2. \A j \in 1..L : ring[j].frame = frame - L + j - 1
        BY <3>1, <4>1 DEF RingInv
      <4> HIDE DEF L
      <4>3. i \in 1..L /\ frame - L + i - 1 = target
        BY <3>1, <3>2, <4>1
      <4> HIDE DEF i
      <4>4. ring[i].frame = target
        BY <4>2, <4>3
      <4> QED BY <4>1, <4>3, <4>4 DEF AtOrBefore
    <3>4. Nearest(target) \in DOMAIN ring /\ ring[Nearest(target)].frame = target
      <4>1. /\ Nearest(target) \in AtOrBefore(target)
            /\ \A j \in AtOrBefore(target) : ring[j].frame <= ring[Nearest(target)].frame
        BY <3>1, <3>3, NearestFound
      <4>2. Nearest(target) \in DOMAIN ring /\ ring[Nearest(target)].frame <= target
        BY <4>1 DEF AtOrBefore
      <4>3. ring[Nearest(target)].frame \in Nat
        BY <3>1, <4>2 DEF RingInv
      <4> HIDE DEF Nearest
      <4> QED BY <3>3, <4>1, <4>2, <4>3
    <3>5. AtOrBefore(target) # {}
      BY <3>3
    <3>6. pages[target] = ring[Nearest(target)].parts["pages"]
      BY <2>4, <3>1, <3>4 DEF PagesInv
    <3>7. PICK untaken \in SUBSET Short : parts' = AllBack(target, untaken)
      BY <2>1 DEF PartsRollback
    <3> QED BY <3>1, <3>4, <3>5, <3>6, <3>7, <2>4, RevertedRestores DEF PartsInv
  <2>5. \A p \in Present \ missed' : parts'[p] = now'
    BY <2>2 DEF PartsInv
  <2> QED BY <2>3, <2>4, <2>5 DEF OneInstant
<1>2. CASE UNCHANGED partVars /\ Replay
  <2>1. reverted' = reverted /\ (at' = Live \/ at' = at + 1) /\ at # Live
    BY <1>2 DEF partVars, Replay
  <2>2. ~(reverted' # Live /\ reverted' = at')
    BY <2>1 DEF PartsInv, ClockTyped, Live
  <2> QED BY <2>2 DEF OneInstant
<1>3. CASE (PartsArm /\ Arm) \/ (PartsFrame /\ Forward) \/ (UNCHANGED partVars /\ Disarm)
  BY <1>3 DEF PartsArm, Arm, PartsFrame, Forward, partVars, Disarm, OneInstant
<1>4. CASE PartsGame /\ UNCHANGED clockVars
  BY <1>4 DEF PartsGame, OneInstant
<1>5. CASE UNCHANGED partVars /\ UNCHANGED clockVars
  BY <1>5 DEF partVars, clockVars, OneInstant
<1> QED BY <1>1, <1>2, <1>3, <1>4, <1>5 DEF PartsStep

(* Where the parts are followed, all of the above; elsewhere no rollback of *)
(* theirs is ever under way.                                                *)
InstantInv ==
  /\ ClockTyped
  /\ watched = "parts" => PartsInv /\ OneInstant
  /\ watched # "parts" => reverted = Live

(* What a rollback restores is as it was when its target was saved, and     *)
(* what belongs to the system is of the present.                            *)
THEOREM RevertIsOneInstant == Spec => []OneInstant
<1>1. WorldInit => InstantInv
  BY ClockInitially, PartsInitially DEF InstantInv, WorldInit, PartsInit, OneInstant
<1>2. InstantInv /\ [WorldNext]_worldVars => InstantInv'
  <2> SUFFICES ASSUME InstantInv, [WorldNext]_worldVars PROVE InstantInv'
    OBVIOUS
  <2>1. ClockTyped' /\ watched' = watched
    BY ClockStep, PartsFollowed DEF InstantInv
  <2>2. CASE watched = "parts"
    BY <2>1, <2>2, PartsFollowed, PartsKept, OneInstantStep DEF InstantInv
  <2>3. CASE watched # "parts"
    BY <2>1, <2>3, PartsFollowed DEF InstantInv, partVars
  <2> QED BY <2>2, <2>3
<1>3. InstantInv => OneInstant
  BY DEF InstantInv, OneInstant
<1> QED BY <1>1, <1>2, <1>3, PTL DEF Spec

----------------------------------------------------------------------------
(***************************************************************************)
(* Proofs about World, continued: the voices and the slabs, whose frees are *)
(* put off for as long as a rollback may bring their pointers back, and the *)
(* scalars of the render kick.                                              *)
(***************************************************************************)

----------------------------------------------------------------------------
(* SlabReuse.                                                               *)

SlabStep ==
  \/ SlabGame /\ UNCHANGED clockVars
  \/ SlabArm /\ Arm
  \/ SlabDisarm /\ Disarm
  \/ SlabFrame /\ Forward
  \/ \E target \in Nat : SlabRollback(target) /\ Rollback(target)
  \/ UNCHANGED slabVars /\ (Replay \/ UNCHANGED clockVars)

LEMMA SlabsFollowed ==
  ASSUME [WorldNext]_worldVars
  PROVE  /\ watched' = watched
         /\ watched = "slabs" => SlabStep
         /\ watched # "slabs" => UNCHANGED slabVars
<1>1. CASE UNCHANGED worldVars
  BY <1>1 DEF worldVars, SlabStep
<1>2. CASE Game
  BY <1>2 DEF Game, Slabs, SlabStep
<1>3. CASE ArmWorld
  BY <1>3 DEF ArmWorld, Slabs, SlabStep
<1>4. CASE DisarmWorld
  BY <1>4 DEF DisarmWorld, Slabs, SlabStep
<1>5. CASE NextFrame
  BY <1>5 DEF NextFrame, Slabs, SlabStep
<1>6. CASE ReplayedFrame
  BY <1>6 DEF ReplayedFrame, Slabs, SlabStep
<1>7. CASE \E target \in (frame - MaxDepth)..(frame - 1) : GoBack(target)
  BY <1>7 DEF GoBack, Rollback, Slabs, SlabStep
<1> QED BY <1>1, <1>2, <1>3, <1>4, <1>5, <1>6, <1>7 DEF WorldNext

(* A table and the memory it speaks of: what it holds is in use and dead,   *)
(* and held once.                                                           *)
HoldsDead(T, used, objects) ==
  /\ \A e \in T : e.block \in Blocks /\ used[e.block] = TRUE /\ objects[e.block] = Dead
  /\ \A d, e \in T : d.block = e.block => d = e

(* Before the first rollback of an arm an entry that carries the frame of a *)
(* save, or an older one, was already dead in that save: what a rollback    *)
(* without a saved table relies on.                                         *)
DeadSince ==
  /\ at = Live
  /\ \A f \in DOMAIN slots : \A e \in table :
       e.frame <= f => slots[f].inUse[e.block] = TRUE /\ slots[f].object[e.block] = Dead

SlotParts == {"inUse", "object", "table", "valid", "left"}

SlabInv ==
  /\ DOMAIN inUse = Blocks /\ DOMAIN object = Blocks
  /\ past \in {"straight", "turned", "blind"}
  /\ \A f \in DOMAIN slots : /\ f \in Nat /\ f < frame /\ DOMAIN slots[f] = SlotParts
                             /\ DOMAIN slots[f].inUse = Blocks /\ DOMAIN slots[f].object = Blocks
  /\ past # "blind" => HoldsDead(table, inUse, object)
  /\ past # "blind" => \A f \in DOMAIN slots :
                         slots[f].valid => HoldsDead(slots[f].table, slots[f].inUse, slots[f].object)
  /\ past = "straight" => DeadSince

LEMMA SlabInitially == WorldInit => SlabInv
<1> SUFFICES ASSUME WorldInit PROVE SlabInv
  OBVIOUS
<1>1. SlabInit /\ at = Live
  BY DEF WorldInit, ClockInit
<1> QED BY <1>1 DEF SlabInit, SlabInv, HoldsDead, DeadSince

LEMMA CarveKeeps ==
  ASSUME ClockTyped, SlabInv, NEW b \in Blocks, Carve(b), UNCHANGED clockVars
  PROVE  SlabInv'
<1>1. /\ inUse[b] # TRUE /\ inUse' = [inUse EXCEPT ![b] = TRUE]
      /\ object' = [object EXCEPT ![b] = births + 1]
      /\ UNCHANGED <<table, slots, past, frame, at>>
  BY DEF Carve, clockVars
<1>2. past # "blind" => HoldsDead(table', inUse', object')
  BY <1>1 DEF SlabInv, HoldsDead
<1> QED BY <1>1, <1>2 DEF SlabInv, DeadSince, HoldsDead

LEMMA FreeKeeps ==
  ASSUME ClockTyped, SlabInv, NEW b \in Blocks, Free(b), UNCHANGED clockVars
  PROVE  SlabInv'
<1>1. /\ object[b] # Dead /\ object' = [object EXCEPT ![b] = Dead]
      /\ UNCHANGED <<slots, past, frame, at>>
  BY DEF Free, clockVars
<1>2. CASE on /\ inUse[b]
  <2>1. inUse' = inUse /\ (table' = table \/ table' = table \cup {Entry(b)})
    BY <1>2 DEF Free, Held
  <2>2. past # "blind" => HoldsDead(table', inUse', object')
    <3>1. inUse[b] = TRUE
      BY <1>2
    <3> QED BY <1>1, <2>1, <3>1 DEF SlabInv, HoldsDead, Entry
  <2>3. past = "straight" => DeadSince'
    <3>1. past = "straight" => Entry(b).frame = frame
      BY DEF SlabInv, DeadSince, Entry, Effective
    <3> QED BY <1>1, <2>1, <3>1 DEF SlabInv, DeadSince, ClockTyped
  <2> QED BY <1>1, <2>1, <2>2, <2>3 DEF SlabInv
<1>3. CASE ~(on /\ inUse[b])
  <2>1. inUse' = [inUse EXCEPT ![b] = FALSE] /\ table' = table
    BY <1>3 DEF Free
  <2>2. past # "blind" => HoldsDead(table', inUse', object')
    BY <1>1, <2>1 DEF SlabInv, HoldsDead
  <2> QED BY <1>1, <2>1, <2>2 DEF SlabInv, DeadSince
<1> QED BY <1>2, <1>3

LEMMA SlabFrameKeeps ==
  ASSUME ClockTyped, SlabInv, SlabFrame, Forward
  PROVE  SlabInv'
<1> DEFINE due == {e \in table : PastHorizon(e)}
<1>1. /\ inUse' = Without(Released(due)) /\ table' = table \ due
      /\ object' = object /\ past' = past /\ frame' = frame + 1 /\ at' = at
  BY DEF SlabFrame, Forward
<1>2. PICK valid \in BOOLEAN :
        slots' = [f \in {g \in DOMAIN slots : g > frame - RingSlots} \cup {frame} |->
                    IF f = frame THEN Saved(valid) ELSE slots[f]]
  BY SlabAssumption DEF SlabFrame
<1>3. past # "blind" => HoldsDead(table', inUse', object')
  <2>1. ASSUME HoldsDead(table, inUse, object), NEW e \in table'
        PROVE  e.block \in Blocks /\ inUse'[e.block] = TRUE
    <3>1. e \in table /\ e \notin due /\ e.block \in Blocks /\ inUse[e.block] = TRUE
      BY <1>1, <2>1 DEF HoldsDead
    <3>2. e.block \notin Released(due)
      BY <2>1, <3>1 DEF Released, HoldsDead
    <3> QED BY <1>1, <3>1, <3>2 DEF Without
  <2> QED BY <1>1, <2>1 DEF SlabInv, HoldsDead
<1>4. DOMAIN inUse' = Blocks
  BY <1>1 DEF Without
<1>5. \A f \in DOMAIN slots' :
        \/ f = frame /\ slots'[f] = Saved(valid)
        \/ f # frame /\ f \in DOMAIN slots /\ slots'[f] = slots[f]
  BY <1>2
<1>6. /\ Saved(valid).inUse = inUse' /\ Saved(valid).object = object'
      /\ Saved(valid).valid = valid /\ DOMAIN Saved(valid) = SlotParts
      /\ valid => Saved(valid).table = table'
  BY <1>1 DEF Saved, SlotParts
<1>7. past # "blind" => \A f \in DOMAIN slots' :
        slots'[f].valid => HoldsDead(slots'[f].table, slots'[f].inUse, slots'[f].object)
  BY <1>3, <1>5, <1>6 DEF SlabInv
<1>8. past = "straight" => DeadSince'
  <2>1. ASSUME past = "straight", NEW f \in DOMAIN slots', NEW e \in table', e.frame <= f
        PROVE  slots'[f].inUse[e.block] = TRUE /\ slots'[f].object[e.block] = Dead
    BY <1>1, <1>3, <1>5, <1>6, <2>1 DEF SlabInv, DeadSince, HoldsDead
  <2> QED BY <1>1, <2>1 DEF SlabInv, DeadSince
<1>9. \A f \in DOMAIN slots' : /\ f \in Nat /\ f < frame' /\ DOMAIN slots'[f] = SlotParts
                               /\ DOMAIN slots'[f].inUse = Blocks /\ DOMAIN slots'[f].object = Blocks
  BY <1>1, <1>4, <1>5, <1>6 DEF SlabInv, ClockTyped
<1> QED BY <1>1, <1>3, <1>4, <1>7, <1>8, <1>9 DEF SlabInv

LEMMA SlabRollbackKeeps ==
  ASSUME ClockTyped, SlabInv, NEW target \in Nat, SlabRollback(target), Rollback(target)
  PROVE  SlabInv'
<1>1. /\ target \in DOMAIN slots /\ TableRestored(target)
      /\ inUse' = slots[target].inUse /\ object' = slots[target].object
      /\ slots' = [f \in DOMAIN slots |-> [slots[f] EXCEPT !.left = @ \/ f > target]]
      /\ past' = IF slots[target].valid \/ past = "straight" THEN Turned(past) ELSE "blind"
      /\ frame' = frame
  BY DEF SlabRollback, Rollback
<1>2. /\ DOMAIN slots' = DOMAIN slots
      /\ \A f \in DOMAIN slots :
           /\ slots'[f].inUse = slots[f].inUse /\ slots'[f].object = slots[f].object
           /\ slots'[f].table = slots[f].table /\ slots'[f].valid = slots[f].valid
           /\ DOMAIN slots'[f] = SlotParts
  <2>1. \A f \in DOMAIN slots : DOMAIN slots[f] = SlotParts
    BY DEF SlabInv
  <2> QED BY <1>1, <2>1 DEF SlotParts
<1>3. past' # "straight" /\ past' \in {"turned", "blind"}
  BY <1>1 DEF SlabInv, Turned
<1>4. past' # "blind" => HoldsDead(table', inUse', object')
  <2>1. CASE slots[target].valid /\ past # "blind"
    <3>1. table' = slots[target].table
      BY <1>1, <2>1 DEF TableRestored
    <3> QED BY <1>1, <2>1, <3>1 DEF SlabInv
  <2>2. CASE ~slots[target].valid /\ past = "straight"
    <3>1. table' = {e \in table : e.frame <= target}
      BY <1>1, <2>2 DEF TableRestored
    <3>2. HoldsDead(table, inUse, object)
      BY <2>2 DEF SlabInv
    <3>3. \A e \in table' : inUse'[e.block] = TRUE /\ object'[e.block] = Dead
      BY <1>1, <2>2, <3>1 DEF SlabInv, DeadSince
    <3> QED BY <3>1, <3>2, <3>3 DEF HoldsDead
  <2>3. CASE past = "blind" \/ (~slots[target].valid /\ past # "straight")
    BY <1>1, <2>3 DEF Turned
  <2> QED BY <2>1, <2>2, <2>3
<1>5. DOMAIN inUse' = Blocks /\ DOMAIN object' = Blocks
  BY <1>1 DEF SlabInv
<1>6. past' # "blind" => past # "blind"
  BY <1>1 DEF Turned
<1>7. past' # "blind" => \A f \in DOMAIN slots' :
        slots'[f].valid => HoldsDead(slots'[f].table, slots'[f].inUse, slots'[f].object)
  BY <1>2, <1>6 DEF SlabInv
<1>8. \A f \in DOMAIN slots' : /\ f \in Nat /\ f < frame' /\ DOMAIN slots'[f] = SlotParts
                               /\ DOMAIN slots'[f].inUse = Blocks /\ DOMAIN slots'[f].object = Blocks
  BY <1>1, <1>2 DEF SlabInv
<1> QED BY <1>3, <1>4, <1>5, <1>7, <1>8 DEF SlabInv

LEMMA SlabArmKeeps ==
  ASSUME ClockTyped, SlabInv, SlabArm, Arm
  PROVE  SlabInv'
<1>1. /\ slots' = <<>> /\ UNCHANGED <<inUse, object, table>> /\ at' = Live
      /\ past' \in {past, "straight"} /\ (past' # "blind" => past # "blind")
  BY DEF SlabArm, Arm
<1> QED BY <1>1 DEF SlabInv, DeadSince, HoldsDead

LEMMA SlabDisarmKeeps ==
  ASSUME ClockTyped, SlabInv, SlabDisarm, Disarm
  PROVE  SlabInv'
<1>1. /\ slots' = <<>> /\ table' = {} /\ at' = Live /\ UNCHANGED <<object, past>>
      /\ DOMAIN inUse' = Blocks
  BY DEF SlabDisarm, Disarm, Without
<1> QED BY <1>1 DEF SlabInv, DeadSince, HoldsDead

LEMMA SlabStepKeeps ==
  ASSUME ClockTyped, SlabInv, SlabStep
  PROVE  SlabInv'
<1>1. CASE SlabGame /\ UNCHANGED clockVars
  BY <1>1, CarveKeeps, FreeKeeps DEF SlabGame
<1>2. CASE SlabArm /\ Arm
  BY <1>2, SlabArmKeeps
<1>3. CASE SlabDisarm /\ Disarm
  BY <1>3, SlabDisarmKeeps
<1>4. CASE SlabFrame /\ Forward
  BY <1>4, SlabFrameKeeps
<1>5. CASE \E target \in Nat : SlabRollback(target) /\ Rollback(target)
  BY <1>5, SlabRollbackKeeps
<1>6. CASE UNCHANGED slabVars /\ (Replay \/ UNCHANGED clockVars)
  <2>1. UNCHANGED <<inUse, object, table, slots, past>> /\ frame' = frame
    BY <1>6 DEF slabVars, Replay, clockVars
  <2>2. past = "straight" => at' = Live
    BY <1>6 DEF SlabInv, DeadSince, Replay, clockVars
  <2> QED BY <2>1, <2>2 DEF SlabInv, DeadSince, HoldsDead
<1> QED BY <1>1, <1>2, <1>3, <1>4, <1>5, <1>6 DEF SlabStep

HeldInv == ClockTyped /\ (IF watched = "slabs" THEN SlabInv ELSE table = {})

LEMMA HeldInitially == WorldInit => HeldInv
  BY ClockInitially, SlabInitially DEF HeldInv, WorldInit, SlabInit

LEMMA HeldKept == ASSUME HeldInv, [WorldNext]_worldVars PROVE HeldInv'
<1>1. ClockTyped'
  BY ClockStep DEF HeldInv
<1>2. CASE watched = "slabs"
  BY <1>1, <1>2, SlabsFollowed, SlabStepKeeps DEF HeldInv
<1>3. CASE watched # "slabs"
  BY <1>1, <1>3, SlabsFollowed DEF HeldInv, slabVars
<1> QED BY <1>2, <1>3

(* What the quarantine holds is in use and dead, for any allocator, any     *)
(* grace, ring and table, and any order of rollbacks short of a fallback    *)
(* after another rollback (quarantine.cpp, HeldIsDead of the run world).    *)
THEOREM HeldStaysDead == Spec => []HeldIsDead
<1>1. HeldInv /\ [WorldNext]_worldVars => HeldInv'
  BY HeldKept
<1>2. HeldInv => HeldIsDead
  BY DEF HeldInv, SlabInv, HoldsDead, HeldIsDead
<1> QED BY <1>1, <1>2, HeldInitially, PTL DEF Spec

----------------------------------------------------------------------------
(* SlabReuse: no pointer lands on a stranger.                               *)

(* Where frame f's save has an object, a memory has that object or its      *)
(* remains, and what the table holds of them died after the save.           *)
Endures(f, used, objects, T) ==
  \A b \in Blocks : slots[f].object[b] # Dead =>
    /\ used[b] = TRUE /\ objects[b] \in {Dead, slots[f].object[b]}
    /\ \A e \in T : e.block = b => f <= e.frame

(* The saves of this timeline that a rollback can still go back to.         *)
InReach == {f \in DOMAIN slots : slots[f].left # TRUE /\ frame - f <= MaxDepth}

LiveInUse(used, objects) == \A b \in Blocks : objects[b] # Dead => used[b] = TRUE

SpareInv ==
  /\ on # TRUE => DOMAIN slots = {}
  /\ past # "blind" =>
       /\ \A e \in table : e.frame \in Nat
       /\ \A g \in DOMAIN slots : \A e \in slots[g].table : e.frame \in Nat
       /\ LiveInUse(inUse, object)
       /\ \A g \in DOMAIN slots : LiveInUse(slots[g].inUse, slots[g].object)
       /\ \A f \in InReach : f <= Effective /\ Endures(f, inUse, object, table)
       /\ \A f \in InReach, g \in DOMAIN slots :
            f <= g => Endures(f, slots[g].inUse, slots[g].object, slots[g].table)

LEMMA SpareInitially == WorldInit => SpareInv
<1> SUFFICES ASSUME WorldInit PROVE SpareInv
  OBVIOUS
<1>1. SlabInit
  BY DEF WorldInit
<1> QED BY <1>1 DEF SlabInit, SpareInv, InReach, LiveInUse

LEMMA CarveSpares ==
  ASSUME ClockTyped, SlabInv, SpareInv, NEW b \in Blocks, Carve(b), UNCHANGED clockVars
  PROVE  SpareInv'
<1>1. /\ inUse[b] # TRUE /\ inUse' = [inUse EXCEPT ![b] = TRUE]
      /\ object' = [object EXCEPT ![b] = births + 1]
      /\ UNCHANGED <<table, slots, past, frame, at, on>>
  BY DEF Carve, clockVars
<1>2. InReach' = InReach /\ Effective' = Effective
  BY <1>1 DEF InReach, Effective
<1>3. ASSUME past # "blind", NEW f \in InReach PROVE Endures(f, inUse, object, table)'
  <2>1. Endures(f, inUse, object, table) /\ f \in DOMAIN slots
    BY <1>3 DEF SpareInv, InReach
  <2>2. slots[f].object[b] = Dead
    BY <1>1, <2>1 DEF Endures
  <2> QED BY <1>1, <2>1, <2>2 DEF Endures, SlabInv
<1>4. past # "blind" => LiveInUse(inUse', object')
  BY <1>1 DEF LiveInUse, SpareInv, SlabInv
<1>5. \A f \in InReach, g \in DOMAIN slots :
        Endures(f, slots[g].inUse, slots[g].object, slots[g].table)' <=>
        Endures(f, slots[g].inUse, slots[g].object, slots[g].table)
  BY <1>1 DEF Endures
<1> QED BY <1>1, <1>2, <1>3, <1>4, <1>5 DEF SpareInv

LEMMA FreeSpares ==
  ASSUME ClockTyped, SlabInv, SpareInv, NEW b \in Blocks, Free(b), UNCHANGED clockVars
  PROVE  SpareInv'
<1>1. /\ object[b] # Dead /\ object' = [object EXCEPT ![b] = Dead]
      /\ UNCHANGED <<slots, past, frame, at, on>>
  BY DEF Free, clockVars
<1>2. InReach' = InReach /\ Effective' = Effective /\ Effective \in Nat
  BY <1>1 DEF InReach, Effective, ClockTyped
<1>3. /\ DOMAIN inUse' = Blocks
      /\ \A c \in Blocks : c # b => inUse'[c] = inUse[c]
      /\ on = TRUE /\ inUse[b] = TRUE => inUse' = inUse
      /\ \A e \in table' : e \in table \/ (e.block = b /\ e.frame = Effective)
  <2>1. CASE on /\ inUse[b]
    BY <2>1 DEF Free, Held, Entry, SlabInv
  <2>2. CASE ~(on /\ inUse[b])
    <3>1. inUse' = [inUse EXCEPT ![b] = FALSE] /\ table' = table
      BY <2>2 DEF Free
    <3> QED BY <2>2, <3>1 DEF SlabInv
  <2> QED BY <2>1, <2>2
<1>4. ASSUME past # "blind", NEW f \in InReach PROVE Endures(f, inUse, object, table)'
  <2>1. /\ Endures(f, inUse, object, table) /\ f \in DOMAIN slots /\ f <= Effective /\ on = TRUE
    BY <1>4 DEF SpareInv, InReach
  <2> SUFFICES ASSUME NEW c \in Blocks, slots[f].object[c] # Dead
               PROVE  /\ inUse'[c] = TRUE /\ object'[c] \in {Dead, slots[f].object[c]}
                      /\ \A e \in table' : e.block = c => f <= e.frame
    BY <1>1 DEF Endures
  <2>2. inUse[c] = TRUE /\ object[c] \in {Dead, slots[f].object[c]}
    BY <2>1 DEF Endures
  <2>3. inUse'[c] = TRUE
    BY <1>3, <2>1, <2>2
  <2>4. object'[c] \in {Dead, slots[f].object[c]}
    BY <1>1, <2>2 DEF SlabInv
  <2>5. ASSUME NEW e \in table', e.block = c PROVE f <= e.frame
    BY <1>3, <2>1, <2>5 DEF Endures
  <2> QED BY <2>3, <2>4, <2>5
<1>5. past # "blind" => LiveInUse(inUse', object')
  BY <1>1, <1>3 DEF LiveInUse, SpareInv, SlabInv
<1>6. \A f \in InReach, g \in DOMAIN slots :
        Endures(f, slots[g].inUse, slots[g].object, slots[g].table)' <=>
        Endures(f, slots[g].inUse, slots[g].object, slots[g].table)
  BY <1>1 DEF Endures
<1>7. past # "blind" => \A e \in table' : e.frame \in Nat
  BY <1>2, <1>3 DEF SpareInv
<1> QED BY <1>1, <1>2, <1>4, <1>5, <1>6, <1>7 DEF SpareInv

(* A flush frees nothing that died after a save within reach, and the new   *)
(* save has what the memory has.                                            *)
LEMMA FrameSpares ==
  ASSUME ClockTyped, SlabInv, SpareInv, SlabFrame, Forward
  PROVE  SpareInv'
<1> DEFINE due == {e \in table : PastHorizon(e)}
<1>1. /\ inUse' = Without(Released(due)) /\ table' = table \ due
      /\ object' = object /\ past' = past /\ frame' = frame + 1 /\ at' = at /\ at = Live
      /\ on' = on /\ on = TRUE
  BY DEF SlabFrame, Forward
<1>2. PICK valid \in BOOLEAN :
        slots' = [f \in {g \in DOMAIN slots : g > frame - RingSlots} \cup {frame} |->
                    IF f = frame THEN Saved(valid) ELSE slots[f]]
  BY SlabAssumption DEF SlabFrame
<1>3. \A f \in DOMAIN slots' :
        \/ f = frame /\ slots'[f] = Saved(valid)
        \/ f # frame /\ f \in DOMAIN slots /\ slots'[f] = slots[f]
  BY <1>2
<1>4. /\ Saved(valid).inUse = inUse' /\ Saved(valid).object = object'
      /\ Saved(valid).table \subseteq table' /\ Saved(valid).left = FALSE
  BY <1>1 DEF Saved
<1>5. \A f \in DOMAIN slots : f \in Nat /\ f < frame
  BY DEF SlabInv
<1>6. frame \in Nat /\ MaxDepth \in Nat /\ Grace \in Nat /\ Grace >= MaxDepth
  BY SlabAssumption DEF ClockTyped
<1>7. Effective = frame /\ Effective' = frame + 1
  BY <1>1 DEF Effective
<1>8. ASSUME NEW f \in InReach', f # frame
      PROVE  f \in InReach /\ slots'[f] = slots[f] /\ frame - f < MaxDepth /\ f \in Nat
  <2>1. f \in DOMAIN slots /\ slots'[f] = slots[f] /\ f \in Nat
    BY <1>3, <1>5, <1>8 DEF InReach
  <2>2. frame - f < MaxDepth
    BY <1>1, <1>6, <2>1, <1>8 DEF InReach
  <2>3. slots[f].left # TRUE
    BY <1>8, <2>1 DEF InReach
  <2>4. frame - f <= MaxDepth
    BY <1>6, <2>1, <2>2
  <2> QED BY <2>1, <2>2, <2>3, <2>4 DEF InReach
<1> SUFFICES ASSUME past # "blind" PROVE SpareInv'
  BY <1>1 DEF SpareInv
<1>9. /\ \A e \in table : e.frame \in Nat
      /\ \A g \in DOMAIN slots : \A e \in slots[g].table : e.frame \in Nat
      /\ LiveInUse(inUse, object)
      /\ \A g \in DOMAIN slots : LiveInUse(slots[g].inUse, slots[g].object)
      /\ \A f \in InReach : f <= Effective /\ Endures(f, inUse, object, table)
      /\ \A f \in InReach, g \in DOMAIN slots :
           f <= g => Endures(f, slots[g].inUse, slots[g].object, slots[g].table)
  BY DEF SpareInv
<1>10. HoldsDead(table, inUse, object)
  BY DEF SlabInv
<1>11. \A c \in Blocks : (inUse[c] = TRUE /\ ~\E e \in due : e.block = c) => inUse'[c] = TRUE
  BY <1>1 DEF Without, Released
<1>12. LiveInUse(inUse', object')
  <2> SUFFICES ASSUME NEW c \in Blocks, object[c] # Dead PROVE inUse'[c] = TRUE
    BY <1>1 DEF LiveInUse
  <2>1. ~\E e \in table : e.block = c
    BY <1>10 DEF HoldsDead
  <2> QED BY <1>9, <1>11, <2>1 DEF LiveInUse
<1>13. ASSUME NEW f \in InReach' PROVE Endures(f, inUse, object, table)'
  <2>1. CASE f = frame
    <3>1. slots'[f].object = object
      BY <1>1, <1>3, <1>4, <2>1, <1>5 DEF InReach
    <3>2. ASSUME NEW c \in Blocks, object[c] # Dead PROVE ~\E e \in table : e.block = c
      BY <1>10, <3>2 DEF HoldsDead
    <3> QED BY <1>1, <1>12, <3>1, <3>2 DEF Endures, LiveInUse
  <2>2. CASE f # frame
    <3>1. f \in InReach /\ slots'[f] = slots[f] /\ frame - f < MaxDepth /\ f \in Nat
      BY <1>8, <2>2
    <3> SUFFICES ASSUME NEW c \in Blocks, slots[f].object[c] # Dead
                 PROVE  /\ inUse'[c] = TRUE /\ object[c] \in {Dead, slots[f].object[c]}
                        /\ \A e \in table' : e.block = c => f <= e.frame
      BY <1>1, <3>1 DEF Endures
    <3>2. /\ inUse[c] = TRUE /\ object[c] \in {Dead, slots[f].object[c]}
          /\ \A e \in table : e.block = c => f <= e.frame
      BY <1>9, <3>1 DEF Endures
    <3>3. ASSUME NEW e \in table, e.block = c PROVE ~PastHorizon(e)
      <4>1. e.frame \in Nat /\ f <= e.frame
        BY <1>9, <3>2, <3>3
      <4> QED BY <1>6, <3>1, <4>1 DEF PastHorizon
    <3> QED BY <1>1, <1>11, <3>2, <3>3
  <2> QED BY <2>1, <2>2
<1>14. ASSUME NEW f \in InReach' PROVE f <= Effective'
  <2>1. CASE f = frame
    BY <1>6, <1>7, <2>1
  <2>2. CASE f # frame
    BY <1>6, <1>7, <1>8, <1>9, <2>2
  <2> QED BY <2>1, <2>2
<1>15. ASSUME NEW f \in InReach', NEW g \in DOMAIN slots', f <= g
       PROVE  Endures(f, slots[g].inUse, slots[g].object, slots[g].table)'
  <2>1. CASE g = frame
    <3>1. /\ slots'[g].inUse = inUse' /\ slots'[g].object = object' /\ slots'[g].table \subseteq table'
      BY <1>3, <1>4, <1>5, <2>1
    <3> QED BY <1>13, <3>1 DEF Endures
  <2>2. CASE g # frame
    <3>1. g \in DOMAIN slots /\ slots'[g] = slots[g] /\ g < frame /\ g \in Nat
      BY <1>3, <1>5, <2>2
    <3>2. f # frame
      BY <1>6, <1>15, <3>1
    <3>3. f \in InReach /\ slots'[f] = slots[f]
      BY <1>8, <3>2
    <3>4. Endures(f, slots[g].inUse, slots[g].object, slots[g].table)
      BY <1>9, <1>15, <3>1, <3>3
    <3> QED BY <3>1, <3>3, <3>4 DEF Endures
  <2> QED BY <2>1, <2>2
<1>16. \A g \in DOMAIN slots' : /\ LiveInUse(slots'[g].inUse, slots'[g].object)
                                /\ \A e \in slots'[g].table : e.frame \in Nat
  BY <1>1, <1>3, <1>4, <1>9, <1>12
<1> QED BY <1>1, <1>9, <1>12, <1>13, <1>14, <1>15, <1>16 DEF SpareInv

(* A rollback brings back a save in which every earlier one endures; the    *)
(* later ones are out of the timeline.                                      *)
LEMMA RollbackSpares ==
  ASSUME ClockTyped, SlabInv, SpareInv, NEW target \in Nat, SlabRollback(target), Rollback(target)
  PROVE  SpareInv'
<1>1. /\ target \in DOMAIN slots /\ TableRestored(target)
      /\ inUse' = slots[target].inUse /\ object' = slots[target].object
      /\ slots' = [f \in DOMAIN slots |-> [slots[f] EXCEPT !.left = @ \/ f > target]]
      /\ past' = IF slots[target].valid \/ past = "straight" THEN Turned(past) ELSE "blind"
      /\ frame' = frame /\ at' = target /\ on' = on /\ on = TRUE
  BY DEF SlabRollback, Rollback
<1>2. /\ DOMAIN slots' = DOMAIN slots
      /\ \A f \in DOMAIN slots :
           /\ slots'[f].inUse = slots[f].inUse /\ slots'[f].object = slots[f].object
           /\ slots'[f].table = slots[f].table
           /\ slots'[f].left = (slots[f].left \/ f > target)
  <2>1. \A f \in DOMAIN slots : DOMAIN slots[f] = SlotParts
    BY DEF SlabInv
  <2> QED BY <1>1, <2>1 DEF SlotParts
<1>3. past' # "blind" => /\ past # "blind"
                         /\ \/ slots[target].valid /\ table' = slots[target].table
                            \/ table' \subseteq table
  BY <1>1 DEF TableRestored, Turned
<1>4. HoldsDead(table', inUse', object') \/ past' = "blind"
  BY SlabRollbackKeeps DEF SlabInv
<1> SUFFICES ASSUME past' # "blind" PROVE SpareInv'
  BY <1>1 DEF SpareInv
<1>5. \A f \in InReach' : f \in InReach /\ f <= target
  <2>1. ASSUME NEW f \in InReach' PROVE f \in InReach /\ f <= target
    <3>1. f \in DOMAIN slots /\ slots[f].left # TRUE /\ ~(f > target) /\ frame - f <= MaxDepth
      BY <1>1, <1>2 DEF InReach
    <3>2. f \in Nat
      BY <3>1 DEF SlabInv
    <3>3. f <= target
      BY <3>1, <3>2
    <3>4. f \in InReach
      BY <3>1 DEF InReach
    <3> QED BY <3>3, <3>4
  <2> QED BY <2>1
<1>6. Effective' = target
  BY <1>1 DEF Effective, Live
<1>7. LiveInUse(inUse', object')
  BY <1>1, <1>3 DEF SpareInv
<1>8. ASSUME NEW f \in InReach' PROVE Endures(f, inUse, object, table)'
  <2>1. f \in InReach /\ f <= target /\ slots'[f].object = slots[f].object /\ f \in DOMAIN slots
    BY <1>2, <1>5 DEF InReach
  <2>2. /\ Endures(f, slots[target].inUse, slots[target].object, slots[target].table)
        /\ Endures(f, inUse, object, table)
    BY <1>1, <1>3, <2>1 DEF SpareInv
  <2> QED BY <1>1, <1>3, <2>1, <2>2 DEF Endures
<1>9. ASSUME NEW f \in InReach', NEW g \in DOMAIN slots', f <= g
      PROVE  Endures(f, slots[g].inUse, slots[g].object, slots[g].table)'
  <2>1. Endures(f, slots[g].inUse, slots[g].object, slots[g].table) /\ f \in DOMAIN slots
    BY <1>2, <1>3, <1>5, <1>9 DEF SpareInv, InReach
  <2> QED BY <1>2, <2>1 DEF Endures
<1>10. /\ \A e \in table' : e.frame \in Nat
       /\ \A g \in DOMAIN slots' : /\ LiveInUse(slots'[g].inUse, slots'[g].object)
                                   /\ \A e \in slots'[g].table : e.frame \in Nat
  BY <1>1, <1>2, <1>3 DEF SpareInv
<1> QED BY <1>1, <1>5, <1>6, <1>7, <1>8, <1>9, <1>10 DEF SpareInv

LEMMA SwitchSpares ==
  ASSUME ClockTyped, SlabInv, SpareInv, (SlabArm /\ Arm) \/ (SlabDisarm /\ Disarm)
  PROVE  SpareInv'
<1>1. slots' = <<>> /\ object' = object /\ (past' # "blind" => past # "blind")
  BY DEF SlabArm, SlabDisarm
<1>2. past' # "blind" => /\ LiveInUse(inUse', object')
                         /\ \A e \in table' : e.frame \in Nat
  <2>1. CASE SlabArm
    BY <1>1, <2>1 DEF SlabArm, SpareInv
  <2>2. CASE SlabDisarm
    <3>1. table' = {} /\ inUse' = Without(Released(table))
      BY <2>2 DEF SlabDisarm
    <3>2. ASSUME past # "blind", NEW c \in Blocks, object[c] # Dead PROVE inUse'[c] = TRUE
      <4>1. inUse[c] = TRUE
        BY <3>2 DEF SpareInv, LiveInUse
      <4>2. c \notin Released(table)
        BY <3>2 DEF Released, SlabInv, HoldsDead
      <4> QED BY <3>1, <4>1, <4>2 DEF Without
    <3> QED BY <1>1, <3>1, <3>2 DEF LiveInUse
  <2> QED BY <2>1, <2>2
<1> QED BY <1>1, <1>2 DEF SpareInv, InReach

LEMMA SlabStepSpares ==
  ASSUME ClockTyped, SlabInv, SpareInv, SlabStep
  PROVE  SpareInv'
<1>1. CASE SlabGame /\ UNCHANGED clockVars
  BY <1>1, CarveSpares, FreeSpares DEF SlabGame
<1>2. CASE (SlabArm /\ Arm) \/ (SlabDisarm /\ Disarm)
  BY <1>2, SwitchSpares
<1>3. CASE SlabFrame /\ Forward
  BY <1>3, FrameSpares
<1>4. CASE \E target \in Nat : SlabRollback(target) /\ Rollback(target)
  BY <1>4, RollbackSpares
<1>5. CASE UNCHANGED slabVars /\ (Replay \/ UNCHANGED clockVars)
  <2>1. UNCHANGED <<inUse, object, table, slots, past, frame, on>>
    BY <1>5 DEF slabVars, Replay, clockVars
  <2>2. Effective' >= Effective /\ Effective \in Nat /\ Effective' \in Nat
    BY <1>5 DEF Replay, clockVars, Effective, ClockTyped, Live
  <2>3. InReach' = InReach
    BY <2>1 DEF InReach
  <2>4. past # "blind" => \A f \in InReach : f <= Effective'
    <3>1. \A f \in InReach : f \in Nat
      BY DEF InReach, SlabInv
    <3> QED BY <2>2, <3>1 DEF SpareInv
  <2> QED BY <2>1, <2>3, <2>4 DEF SpareInv, Endures
<1> QED BY <1>1, <1>2, <1>3, <1>4, <1>5 DEF SlabStep

KeptInv == HeldInv /\ (IF watched = "slabs" THEN SpareInv ELSE DOMAIN slots = {})

(* A pointer in a save that can still be rolled back to never lands on a    *)
(* stranger: the block it points to keeps the object or its remains, for    *)
(* any allocator, table, grace of at least the deepest rollback and order   *)
(* of births, deaths, flushes, failed saves and rollbacks (quarantine.cpp   *)
(* with the hooks of idspine.cpp, NoStranger of the run world).             *)
THEOREM NoPointerMeetsStranger == Spec => []NoStranger
<1>1. WorldInit => KeptInv
  BY HeldInitially, SpareInitially DEF KeptInv, WorldInit, SlabInit
<1>2. KeptInv /\ [WorldNext]_worldVars => KeptInv'
  <2> SUFFICES ASSUME KeptInv, [WorldNext]_worldVars PROVE KeptInv'
    OBVIOUS
  <2>1. HeldInv'
    BY HeldKept DEF KeptInv
  <2>2. CASE watched = "slabs"
    BY <2>1, <2>2, SlabsFollowed, SlabStepSpares DEF KeptInv, HeldInv
  <2>3. CASE watched # "slabs"
    BY <2>1, <2>3, SlabsFollowed DEF KeptInv, slabVars
  <2> QED BY <2>2, <2>3
<1>3. KeptInv => NoStranger
  <2> SUFFICES ASSUME KeptInv, on, at = Live, past # "blind",
                      NEW f \in DOMAIN slots, NEW b \in Blocks,
                      ~slots[f].left, frame - f <= MaxDepth, slots[f].object[b] # Dead
               PROVE  inUse[b] /\ object[b] \in {Dead, slots[f].object[b]}
    BY DEF NoStranger
  <2>1. watched = "slabs"
    BY DEF KeptInv
  <2>2. f \in InReach
    BY DEF InReach
  <2>3. Endures(f, inUse, object, table)
    BY <2>1, <2>2 DEF KeptInv, SpareInv
  <2> QED BY <2>3 DEF Endures
<1> QED BY <1>1, <1>2, <1>3, PTL DEF Spec

----------------------------------------------------------------------------
(* VoicePool.                                                               *)

LEMMA VoiceSizes ==
  /\ MaxDepth \in Nat /\ FlushDelay \in Nat /\ FlushDelay > MaxDepth
  /\ PoolMax \in Nat /\ PoolMax > 0
  BY DepthAssumption, VoiceAssumption

VoiceStep ==
  \/ VoiceGame /\ UNCHANGED clockVars
  \/ VoiceArm /\ Arm
  \/ VoiceDisarm /\ Disarm
  \/ VoiceFrame /\ Forward
  \/ \E target \in Nat : VoiceRollback(target) /\ Rollback(target)
  \/ (VoiceResume \/ UNCHANGED voiceVars) /\ (Replay \/ UNCHANGED clockVars)

LEMMA VoicesFollowed ==
  ASSUME [WorldNext]_worldVars
  PROVE  /\ watched' = watched
         /\ watched = "voices" => VoiceStep
         /\ watched # "voices" => UNCHANGED voiceVars
<1>1. CASE UNCHANGED worldVars
  BY <1>1 DEF worldVars, VoiceStep
<1>2. CASE Game
  BY <1>2 DEF Game, Voices, VoiceStep
<1>3. CASE ArmWorld
  BY <1>3 DEF ArmWorld, Voices, VoiceStep
<1>4. CASE DisarmWorld
  BY <1>4 DEF DisarmWorld, Voices, VoiceStep
<1>5. CASE NextFrame
  BY <1>5 DEF NextFrame, Voices, VoiceStep
<1>6. CASE ReplayedFrame
  BY <1>6 DEF ReplayedFrame, Voices, VoiceStep
<1>7. CASE \E target \in (frame - MaxDepth)..(frame - 1) : GoBack(target)
  BY <1>7 DEF GoBack, Rollback, Voices, VoiceStep
<1> QED BY <1>1, <1>2, <1>3, <1>4, <1>5, <1>6, <1>7 DEF WorldNext

(* Each pointer field holds a voice of its own, or none.                    *)
Pointers(m) ==
  /\ m \in [Fields -> 0..created]
  /\ \A p, q \in Fields : m[p] = m[q] /\ m[p] # NoVoice => p = q

(* The voices in the game's hands are neither gone nor waiting.             *)
InHand ==
  \A p \in Fields :
    field[p] # NoVoice /\ field[p] \notin excused =>
      field[p] \notin gone /\ \A i \in DOMAIN pool : pool[i].voice # field[p]

(* What a save still points to waits since that frame at least, and is gone *)
(* only when the save is out of a rollback's reach: the wait of a voice is  *)
(* longer than the deepest rollback, and a rollback starts it again.        *)
Reachable ==
  \A f \in DOMAIN images, p \in Fields :
    images[f][p] # NoVoice /\ images[f][p] \notin excused =>
      /\ images[f][p] \in gone => frame - f > MaxDepth
      /\ \A i \in DOMAIN pool : pool[i].voice = images[f][p] => pool[i].stamp >= f

Entries == [voice : Nat, stamp : Nat]

Dated == \A i \in DOMAIN pool : pool[i].voice \in 1..created /\ pool[i].stamp <= clock

PoolInv ==
  /\ created \in Nat /\ clock \in Nat /\ clock <= frame
  /\ gone \subseteq 1..created
  /\ pool \in Seq(Entries) /\ Dated
  /\ Pointers(field)
  /\ \A f \in DOMAIN images : f \in Nat /\ f <= clock /\ Pointers(images[f])
  /\ ~on => DOMAIN images = {}

VoiceInv == PoolInv /\ InHand /\ Reachable

LEMMA VoiceInitially == WorldInit => VoiceInv
<1> SUFFICES ASSUME WorldInit PROVE VoiceInv
  OBVIOUS
<1>1. VoiceInit /\ frame = 0
  BY DEF WorldInit, ClockInit
<1>2. /\ created = 0 /\ clock = 0 /\ gone = {} /\ pool = <<>> /\ images = <<>> /\ frame = 0
      /\ field = [p \in Fields |-> 0]
  BY <1>1 DEF VoiceInit, NoVoice
<1>3. Dated /\ pool \in Seq(Entries) /\ DOMAIN images = {}
  BY <1>2 DEF Dated
<1>4. Pointers(field)
  BY <1>2 DEF Pointers, NoVoice
<1>5. PoolInv
  BY <1>2, <1>3, <1>4 DEF PoolInv
<1>6. InHand
  BY <1>2 DEF InHand, NoVoice
<1> QED BY <1>3, <1>5, <1>6 DEF VoiceInv, Reachable

LEMMA CreateKeeps ==
  ASSUME ClockTyped, VoiceInv, NEW p \in Fields, Create(p), UNCHANGED clockVars
  PROVE  VoiceInv'
<1>1. /\ field[p] = NoVoice /\ created' = created + 1
      /\ field' = [field EXCEPT ![p] = created + 1]
      /\ UNCHANGED <<pool, clock, gone, images, excused, frame, on>>
  BY DEF Create, clockVars
<1>2. /\ created \in Nat /\ gone \subseteq 1..created /\ pool \in Seq(Entries)
      /\ field \in [Fields -> 0..created]
      /\ \A q, r \in Fields : field[q] = field[r] /\ field[q] # NoVoice => q = r
  BY DEF VoiceInv, PoolInv, Pointers
<1>3. Dated /\ Dated'
  BY <1>1, <1>2 DEF VoiceInv, PoolInv, Dated
<1>4. Pointers(field)'
  BY <1>1, <1>2 DEF Pointers, NoVoice
<1>5. \A f \in DOMAIN images : f \in Nat /\ f <= clock /\ Pointers(images[f])'
  BY <1>1, <1>2 DEF VoiceInv, PoolInv, Pointers
<1>6. PoolInv'
  BY <1>1, <1>2, <1>3, <1>4, <1>5 DEF VoiceInv, PoolInv
<1>7. InHand'
  <2>1. created + 1 \notin gone /\ \A i \in DOMAIN pool : pool[i].voice # created + 1
    BY <1>2, <1>3 DEF Dated
  <2> QED BY <1>1, <1>2, <2>1 DEF VoiceInv, InHand
<1>8. Reachable'
  BY <1>1 DEF VoiceInv, Reachable
<1> QED BY <1>6, <1>7, <1>8 DEF VoiceInv

(* What a deferral does to the pool: at most the oldest voice is gone, and  *)
(* excused with it.                                                         *)
LEMMA DeferredAdds ==
  ASSUME VoiceInv, NEW v \in 1..created, Deferred(v), UNCHANGED <<clock, created>>
  PROVE  /\ pool' \in Seq(Entries)
         /\ \A i \in DOMAIN pool' : \/ pool'[i] = [voice |-> v, stamp |-> clock]
                                    \/ \E j \in DOMAIN pool : pool'[i] = pool[j]
         /\ gone' \subseteq 1..created
         /\ gone \subseteq gone' /\ excused \subseteq excused'
         /\ gone' \ gone \subseteq excused'
<1> DEFINE e == [voice |-> v, stamp |-> clock]
<1>1. pool \in Seq(Entries) /\ e \in Entries /\ gone \subseteq 1..created /\ Dated
  BY DEF VoiceInv, PoolInv, Entries
<1>2. CASE Len(pool) < PoolMax
  <2>1. pool' = Append(pool, e) /\ UNCHANGED <<gone, excused>>
    BY <1>2 DEF Deferred
  <2>2. /\ pool' \in Seq(Entries)
        /\ \A i \in DOMAIN pool' : pool'[i] = e \/ \E j \in DOMAIN pool : pool'[i] = pool[j]
    <3> HIDE DEF e
    <3> QED BY <1>1, <2>1
  <2> QED BY <1>1, <2>1, <2>2
<1>3. CASE ~(Len(pool) < PoolMax)
  <2>1. /\ pool' = Append(Tail(pool), e)
        /\ gone' = gone \cup {Head(pool).voice} /\ excused' = excused \cup {Head(pool).voice}
    BY <1>3 DEF Deferred
  <2>2. Len(pool) \in Nat /\ Len(pool) # 0
    BY <1>1, <1>3, VoiceSizes
  <2>3. pool # <<>> /\ Head(pool) = pool[1] /\ 1 \in DOMAIN pool
    BY <1>1, <2>2
  <2>4. Head(pool).voice \in 1..created
    BY <1>1, <2>3 DEF Dated
  <2>5. /\ Tail(pool) \in Seq(Entries)
        /\ \A i \in DOMAIN Tail(pool) : \E j \in DOMAIN pool : Tail(pool)[i] = pool[j]
    BY <1>1, <2>2, <2>3
  <2>6. /\ pool' \in Seq(Entries)
        /\ \A i \in DOMAIN pool' : pool'[i] = e \/ \E j \in DOMAIN Tail(pool) : pool'[i] = Tail(pool)[j]
    <3> DEFINE t == Tail(pool)
    <3>1. t \in Seq(Entries) /\ pool' = Append(t, e)
      BY <2>1, <2>5
    <3> HIDE DEF e, t
    <3>2. /\ pool' \in Seq(Entries)
          /\ \A i \in DOMAIN pool' : pool'[i] = e \/ \E j \in DOMAIN t : pool'[i] = t[j]
      BY <1>1, <3>1
    <3> QED BY <3>2 DEF t
  <2>7. \A i \in DOMAIN pool' : pool'[i] = e \/ \E j \in DOMAIN pool : pool'[i] = pool[j]
    <3> DEFINE t == Tail(pool)
    <3>1. \A i \in DOMAIN t : \E j \in DOMAIN pool : t[i] = pool[j]
      BY <2>5
    <3>2. \A i \in DOMAIN pool' : pool'[i] = e \/ \E j \in DOMAIN t : pool'[i] = t[j]
      BY <2>6
    <3> HIDE DEF e, t
    <3> QED BY <3>1, <3>2
  <2>8. /\ gone' \subseteq 1..created
        /\ gone \subseteq gone' /\ excused \subseteq excused'
        /\ gone' \ gone \subseteq excused'
    BY <1>1, <2>1, <2>4
  <2> QED BY <2>6, <2>7, <2>8
<1> QED BY <1>2, <1>3

LEMMA DestroyKeeps ==
  ASSUME ClockTyped, VoiceInv, NEW p \in Fields, Destroy(p), UNCHANGED clockVars
  PROVE  VoiceInv'
<1>1. /\ field[p] # NoVoice /\ field' = [field EXCEPT ![p] = NoVoice]
      /\ UNCHANGED <<created, clock, images, frame, on>>
  BY DEF Destroy, clockVars
<1>2. /\ created \in Nat /\ gone \subseteq 1..created /\ pool \in Seq(Entries)
      /\ field \in [Fields -> 0..created] /\ clock \in Nat
      /\ \A q, r \in Fields : field[q] = field[r] /\ field[q] # NoVoice => q = r
  BY DEF VoiceInv, PoolInv, Pointers
<1>3. Pointers(field)'
  BY <1>1, <1>2 DEF Pointers, NoVoice
<1>4. field[p] \in 1..created
  BY <1>1, <1>2 DEF NoVoice
<1>5. \A f \in DOMAIN images : f \in Nat /\ f <= clock /\ Pointers(images[f])'
  BY <1>1 DEF VoiceInv, PoolInv, Pointers
<1>6. \A q \in Fields : field'[q] # NoVoice => field'[q] = field[q] /\ field[q] # field[p]
  BY <1>1, <1>2
<1>7. CASE on
  <2>1. Deferred(field[p])
    BY <1>7 DEF Destroy
  <2>2. /\ pool' \in Seq(Entries)
        /\ \A i \in DOMAIN pool' : \/ pool'[i] = [voice |-> field[p], stamp |-> clock]
                                   \/ \E j \in DOMAIN pool : pool'[i] = pool[j]
        /\ gone' \subseteq 1..created
        /\ gone \subseteq gone' /\ excused \subseteq excused' /\ gone' \ gone \subseteq excused'
    BY <1>1, <1>4, <2>1, DeferredAdds
  <2>3. \A i \in DOMAIN pool' : \/ pool'[i].voice = field[p] /\ pool'[i].stamp = clock
                                \/ \E j \in DOMAIN pool : pool'[i] = pool[j]
    BY <2>2
  <2>4. PoolInv'
    <3>1. Dated'
      <4>1. Dated /\ clock <= clock
        BY <1>2 DEF VoiceInv, PoolInv
      <4> QED BY <1>1, <1>4, <2>3, <4>1 DEF Dated
    <3> QED BY <1>1, <1>2, <1>3, <1>5, <2>2, <3>1 DEF VoiceInv, PoolInv
  <2>5. InHand'
    <3> SUFFICES ASSUME NEW q \in Fields, field'[q] # NoVoice, field'[q] \notin excused'
                 PROVE  field'[q] \notin gone' /\ \A i \in DOMAIN pool' : pool'[i].voice # field'[q]
      BY DEF InHand
    <3>1. field'[q] = field[q] /\ field[q] # field[p] /\ field[q] \notin excused
      BY <1>6, <2>2
    <3>2. field[q] \notin gone /\ \A i \in DOMAIN pool : pool[i].voice # field[q]
      BY <3>1 DEF VoiceInv, InHand
    <3> QED BY <2>2, <2>3, <3>1, <3>2
  <2>6. Reachable'
    <3> SUFFICES ASSUME NEW f \in DOMAIN images, NEW q \in Fields,
                        images[f][q] # NoVoice, images[f][q] \notin excused'
                 PROVE  /\ images[f][q] \in gone' => frame - f > MaxDepth
                        /\ \A i \in DOMAIN pool' : pool'[i].voice = images[f][q] => pool'[i].stamp >= f
      BY <1>1 DEF Reachable
    <3>1. f \in Nat /\ f <= clock /\ clock \in Nat
      BY DEF VoiceInv, PoolInv
    <3>2. /\ images[f][q] \in gone => frame - f > MaxDepth
          /\ \A i \in DOMAIN pool : pool[i].voice = images[f][q] => pool[i].stamp >= f
      BY <2>2 DEF VoiceInv, Reachable
    <3>3. images[f][q] \in gone' => images[f][q] \in gone
      BY <2>2
    <3> QED BY <2>3, <3>1, <3>2, <3>3
  <2> QED BY <2>4, <2>5, <2>6 DEF VoiceInv
<1>8. CASE ~on
  <2>1. gone' = gone \cup {field[p]} /\ UNCHANGED <<pool, excused>>
    BY <1>8 DEF Destroy
  <2>2. DOMAIN images = {}
    BY <1>8 DEF VoiceInv, PoolInv
  <2>3. PoolInv'
    BY <1>1, <1>2, <1>3, <1>4, <1>5, <2>1 DEF VoiceInv, PoolInv, Dated
  <2>4. InHand'
    BY <1>6, <2>1 DEF VoiceInv, InHand
  <2> QED BY <1>1, <2>2, <2>3, <2>4 DEF VoiceInv, Reachable
<1> QED BY <1>7, <1>8

LEMMA VoiceFrameKeeps ==
  ASSUME ClockTyped, VoiceInv, VoiceFrame, Forward
  PROVE  VoiceInv'
<1>1. PICK n \in 0..Len(pool) :
        /\ \A i \in DOMAIN pool : Ripe(pool[i]) <=> i <= n
        /\ pool' = SubSeq(pool, n + 1, Len(pool))
        /\ gone' = gone \cup {pool[i].voice : i \in 1..n}
  BY DEF VoiceFrame
<1>2. /\ clock' = frame /\ frame' = frame + 1 /\ on' = on /\ on
      /\ UNCHANGED <<field, created, excused>>
  BY DEF VoiceFrame, Forward
<1>3. \A f \in DOMAIN images' :
        \/ f = frame /\ images'[f] = field
        \/ f # frame /\ f \in DOMAIN images /\ images'[f] = images[f]
  BY DEF VoiceFrame
<1>4. /\ created \in Nat /\ gone \subseteq 1..created /\ pool \in Seq(Entries)
      /\ clock \in Nat /\ clock <= frame /\ frame \in Nat
      /\ Pointers(field) /\ \A f \in DOMAIN images : f \in Nat /\ f <= clock /\ Pointers(images[f])
  BY DEF VoiceInv, PoolInv, ClockTyped
<1>5. Len(pool) \in Nat /\ DOMAIN pool = 1..Len(pool)
  BY <1>4
<1>6. /\ pool' \in Seq(Entries)
      /\ \A i \in DOMAIN pool' : \E j \in DOMAIN pool : pool'[i] = pool[j]
  <2> DEFINE L == Len(pool)
             rest == SubSeq(pool, n + 1, L)
  <2>1. L \in Nat /\ n \in 0..L /\ n + 1 \in Int /\ DOMAIN pool = 1..L
    BY <1>5
  <2>2. \A i \in (n + 1)..L : pool[i] \in Entries
    BY <1>4, <2>1
  <2> HIDE DEF L
  <2>7. L \in Int /\ n + 1 \in Int
    BY <2>1
  <2>3. /\ SubSeq(pool, n + 1, L) \in Seq(Entries)
        /\ Len(SubSeq(pool, n + 1, L)) = IF n + 1 <= L THEN L - (n + 1) + 1 ELSE 0
        /\ \A i \in 1..(L - (n + 1) + 1) : SubSeq(pool, n + 1, L)[i] = pool[(n + 1) + i - 1]
    BY <2>2, <2>7, SubSeqProperties
  <2>4. pool' = rest
    BY <1>1 DEF L
  <2>5. /\ rest \in Seq(Entries) /\ DOMAIN rest = 1..Len(rest)
        /\ Len(rest) = IF n + 1 <= L THEN L - (n + 1) + 1 ELSE 0
        /\ \A i \in 1..(L - (n + 1) + 1) : rest[i] = pool[(n + 1) + i - 1]
    BY <2>3
  <2> HIDE DEF rest
  <2>6. \A i \in DOMAIN rest : n + i \in 1..L /\ rest[i] = pool[n + i]
    <3> TAKE i \in DOMAIN rest
    <3>1. i \in 1..(L - n) /\ L \in Nat /\ n \in 0..L
      BY <2>1, <2>5
    <3>2. n + i \in 1..L /\ (n + 1) + i - 1 = n + i /\ i \in 1..(L - (n + 1) + 1)
      BY <3>1
    <3> QED BY <2>5, <3>2
  <2> QED BY <2>1, <2>4, <2>5, <2>6
<1>7. Dated /\ Dated'
  <2>1. Dated
    BY DEF VoiceInv, PoolInv
  <2>2. ASSUME NEW i \in DOMAIN pool'
        PROVE  pool'[i].voice \in 1..created /\ pool'[i].stamp <= frame
    <3>1. PICK j \in DOMAIN pool : pool'[i] = pool[j]
      BY <1>6
    <3>2. pool[j] \in Entries
      BY <1>4
    <3>3. pool[j].stamp \in Nat
      BY <3>2 DEF Entries
    <3> QED BY <1>4, <2>1, <3>1, <3>3 DEF Dated
  <2> QED BY <1>2, <2>1, <2>2 DEF Dated
<1>8. \A v \in gone' : v \in gone \/ \E i \in DOMAIN pool : v = pool[i].voice /\ frame - pool[i].stamp > FlushDelay
  BY <1>1, <1>5 DEF Ripe
<1>9. \A i \in DOMAIN pool : pool[i].voice \in 1..created /\ pool[i].stamp \in Nat
  <2>1. \A i \in DOMAIN pool : pool[i] \in Entries
    BY <1>4
  <2> QED BY <1>7, <2>1 DEF Dated, Entries
<1>10. PoolInv'
  <2>1. Pointers(field)' /\ \A f \in DOMAIN images' : Pointers(images[f])'
    <3>1. Pointers(field) /\ \A f \in DOMAIN images' : Pointers(images'[f])
      BY <1>3, <1>4
    <3> QED BY <1>2, <3>1 DEF Pointers
  <2>3. \A f \in DOMAIN images' : f \in Nat /\ f <= clock'
    BY <1>2, <1>3, <1>4
  <2>2. gone' \subseteq 1..created'
    BY <1>2, <1>4, <1>8, <1>9
  <2>4. clock' \in Nat /\ clock' <= frame' /\ created' \in Nat
    BY <1>2, <1>4
  <2> QED BY <1>2, <1>6, <1>7, <2>1, <2>2, <2>3, <2>4 DEF PoolInv
<1>11. InHand'
  BY <1>2, <1>6, <1>8 DEF VoiceInv, InHand
<1>12. Reachable'
  <2> SUFFICES ASSUME NEW f \in DOMAIN images', NEW p \in Fields,
                      images'[f][p] # NoVoice, images'[f][p] \notin excused
               PROVE  /\ images'[f][p] \in gone' => frame' - f > MaxDepth
                      /\ \A i \in DOMAIN pool' : pool'[i].voice = images'[f][p] => pool'[i].stamp >= f
    BY <1>2 DEF Reachable
  <2>1. CASE f = frame /\ images'[f] = field
    <3>1. field[p] \notin gone /\ \A i \in DOMAIN pool : pool[i].voice # field[p]
      BY <2>1 DEF VoiceInv, InHand
    <3> QED BY <1>6, <1>8, <2>1, <3>1
  <2>2. CASE f # frame /\ f \in DOMAIN images /\ images'[f] = images[f]
    <3>1. /\ images[f][p] \in gone => frame - f > MaxDepth
          /\ \A i \in DOMAIN pool : pool[i].voice = images[f][p] => pool[i].stamp >= f
      BY <2>2 DEF VoiceInv, Reachable
    <3>2. f \in Nat
      BY <1>4, <2>2
    <3>3. ASSUME images'[f][p] \in gone' PROVE frame - f > MaxDepth
      <4>1. CASE images[f][p] \in gone
        BY <3>1, <4>1
      <4>2. CASE \E i \in DOMAIN pool : images[f][p] = pool[i].voice /\ frame - pool[i].stamp > FlushDelay
        <5>1. PICK i \in DOMAIN pool : images[f][p] = pool[i].voice /\ frame - pool[i].stamp > FlushDelay
          BY <4>2
        <5>2. pool[i].stamp >= f /\ pool[i].stamp \in Nat
          BY <1>9, <3>1, <5>1
        <5> QED BY <1>4, <3>2, <5>1, <5>2, VoiceSizes
      <4> QED BY <1>8, <2>2, <3>3, <4>1, <4>2
    <3>4. images'[f][p] \in gone' => frame' - f > MaxDepth
      BY <1>2, <1>4, <3>2, <3>3, VoiceSizes
    <3>5. \A i \in DOMAIN pool' : pool'[i].voice = images'[f][p] => pool'[i].stamp >= f
      BY <1>6, <2>2, <3>1
    <3> QED BY <3>4, <3>5
  <2> QED BY <1>3, <2>1, <2>2
<1> QED BY <1>10, <1>11, <1>12 DEF VoiceInv

LEMMA VoiceRollbackKeeps ==
  ASSUME ClockTyped, VoiceInv, NEW target \in Nat, VoiceRollback(target), Rollback(target)
  PROVE  VoiceInv'
<1>1. /\ target \in DOMAIN images /\ field' = images[target]
      /\ excused' = excused \cup ({field'[p] : p \in Fields} \cap Kept)
      /\ UNCHANGED <<created, pool, clock, gone, images, frame, on>>
      /\ frame - target <= MaxDepth
  BY DEF VoiceRollback, Rollback
<1>2. PoolInv'
  BY <1>1 DEF VoiceInv, PoolInv, Pointers, Dated
<1>3. InHand'
  <2> SUFFICES ASSUME NEW p \in Fields, field'[p] # NoVoice, field'[p] \notin excused'
               PROVE  field'[p] \notin gone /\ \A i \in DOMAIN pool : pool[i].voice # field'[p]
    BY <1>1 DEF InHand
  <2>1. field'[p] \notin Kept /\ field'[p] \notin excused
    BY <1>1
  <2>2. ~(frame - target > MaxDepth)
    BY <1>1, VoiceSizes DEF ClockTyped
  <2>3. field'[p] \notin gone
    BY <1>1, <2>1, <2>2 DEF VoiceInv, Reachable
  <2> QED BY <2>1, <2>3 DEF Kept
<1>4. Reachable'
  BY <1>1 DEF VoiceInv, Reachable
<1> QED BY <1>2, <1>3, <1>4 DEF VoiceInv

LEMMA VoiceResumeKeeps ==
  ASSUME ClockTyped, VoiceInv, VoiceResume, Replay \/ UNCHANGED clockVars
  PROVE  VoiceInv'
<1>1. /\ pool' = [i \in DOMAIN pool |-> [pool[i] EXCEPT !.stamp = clock]]
      /\ UNCHANGED <<field, created, clock, gone, images, excused, frame, on>>
  BY DEF VoiceResume, Replay, clockVars
<1>2. pool \in Seq(Entries) /\ clock \in Nat /\ \A f \in DOMAIN images : f <= clock
  BY DEF VoiceInv, PoolInv
<1>3. \A i \in DOMAIN pool : /\ pool'[i] \in Entries /\ pool'[i].voice = pool[i].voice
                             /\ pool'[i].stamp = clock
  <2> SUFFICES ASSUME NEW i \in DOMAIN pool
               PROVE  /\ pool'[i] \in Entries /\ pool'[i].voice = pool[i].voice
                      /\ pool'[i].stamp = clock
    OBVIOUS
  <2>1. pool[i] \in Entries /\ pool'[i] = [pool[i] EXCEPT !.stamp = clock]
    BY <1>1, <1>2
  <2> QED BY <1>2, <2>1 DEF Entries
<1>4. DOMAIN pool' = DOMAIN pool /\ pool' \in Seq(Entries)
  BY <1>1, <1>2, <1>3
<1>5. PoolInv'
  <2>1. Dated'
    BY <1>1, <1>2, <1>3, <1>4 DEF VoiceInv, PoolInv, Dated
  <2> QED BY <1>1, <1>4, <2>1 DEF VoiceInv, PoolInv, Pointers
<1>6. InHand'
  BY <1>1, <1>3, <1>4 DEF VoiceInv, InHand
<1>7. Reachable'
  BY <1>1, <1>2, <1>3, <1>4 DEF VoiceInv, Reachable
<1> QED BY <1>5, <1>6, <1>7 DEF VoiceInv

LEMMA VoiceDisarmKeeps ==
  ASSUME ClockTyped, VoiceInv, VoiceDisarm, Disarm
  PROVE  VoiceInv'
<1>1. /\ gone' = gone \cup Kept /\ pool' = <<>> /\ images' = <<>>
      /\ UNCHANGED <<field, created, clock, excused, frame>>
  BY DEF VoiceDisarm, Disarm
<1>2. /\ created \in Nat /\ clock \in Nat /\ clock <= frame /\ gone \subseteq 1..created
      /\ Pointers(field) /\ Dated
  BY DEF VoiceInv, PoolInv
<1>3. Kept \subseteq 1..created
  BY <1>2 DEF Kept, Dated
<1>4. DOMAIN images' = {} /\ Dated' /\ pool' \in Seq(Entries)
  BY <1>1 DEF Dated
<1>5. PoolInv'
  BY <1>1, <1>2, <1>3, <1>4 DEF PoolInv, Pointers
<1>6. InHand'
  BY <1>1 DEF VoiceInv, InHand, Kept
<1> QED BY <1>4, <1>5, <1>6 DEF VoiceInv, Reachable

LEMMA VoiceStepKeeps ==
  ASSUME ClockTyped, VoiceInv, VoiceStep
  PROVE  VoiceInv'
<1>1. CASE VoiceGame /\ UNCHANGED clockVars
  BY <1>1, CreateKeeps, DestroyKeeps DEF VoiceGame
<1>2. CASE VoiceArm /\ Arm
  <2>1. /\ DOMAIN images' = {}
        /\ UNCHANGED <<field, created, pool, clock, gone, excused, frame>>
    BY <1>2 DEF VoiceArm, Arm
  <2> QED BY <2>1 DEF VoiceInv, PoolInv, InHand, Reachable, Pointers, Dated
<1>3. CASE VoiceDisarm /\ Disarm
  BY <1>3, VoiceDisarmKeeps
<1>4. CASE VoiceFrame /\ Forward
  BY <1>4, VoiceFrameKeeps
<1>5. CASE \E target \in Nat : VoiceRollback(target) /\ Rollback(target)
  BY <1>5, VoiceRollbackKeeps
<1>6. CASE VoiceResume /\ (Replay \/ UNCHANGED clockVars)
  BY <1>6, VoiceResumeKeeps
<1>7. CASE UNCHANGED voiceVars /\ (Replay \/ UNCHANGED clockVars)
  <2>1. UNCHANGED <<field, created, pool, clock, gone, images, excused, frame, on>>
    BY <1>7 DEF voiceVars, Replay, clockVars
  <2> QED BY <2>1 DEF VoiceInv, PoolInv, InHand, Reachable, Pointers, Dated
<1> QED BY <1>1, <1>2, <1>3, <1>4, <1>5, <1>6, <1>7 DEF VoiceStep

(* No voice a rollback can ask for is gone, for any pool, any delay longer  *)
(* than the deepest rollback and any interleaving of destroys, saves and    *)
(* rollbacks (voice_pool.cpp, VoicesOutliveWindow of the run world).        *)
WaitInv == ClockTyped /\ (IF watched = "voices" THEN VoiceInv ELSE DOMAIN images = {})

THEOREM NoVoiceIsMissed == Spec => []VoicesOutliveWindow
<1>1. WorldInit => WaitInv
  BY ClockInitially, VoiceInitially DEF WaitInv, WorldInit, VoiceInit
<1>2. WaitInv /\ [WorldNext]_worldVars => WaitInv'
  <2> SUFFICES ASSUME WaitInv, [WorldNext]_worldVars PROVE WaitInv'
    OBVIOUS
  <2>1. ClockTyped'
    BY ClockStep DEF WaitInv
  <2>2. CASE watched = "voices"
    BY <2>1, <2>2, VoicesFollowed, VoiceStepKeeps DEF WaitInv
  <2>3. CASE watched # "voices"
    BY <2>1, <2>3, VoicesFollowed DEF WaitInv, voiceVars
  <2> QED BY <2>2, <2>3
<1>3. WaitInv => VoicesOutliveWindow
  <2> SUFFICES ASSUME VoiceInv, frame \in Nat, NEW f \in DOMAIN images, NEW p \in Fields,
                      frame - f <= MaxDepth, images[f][p] \in gone, images[f][p] \notin excused
               PROVE  FALSE
    BY DEF WaitInv, ClockTyped, VoicesOutliveWindow
  <2>1. images[f][p] # NoVoice
    BY DEF VoiceInv, PoolInv, NoVoice
  <2>2. frame - f > MaxDepth /\ f \in Nat
    BY <2>1 DEF VoiceInv, PoolInv, Reachable
  <2> QED BY <2>2, VoiceSizes
<1> QED BY <1>1, <1>2, <1>3, PTL DEF Spec

----------------------------------------------------------------------------
(* KickScalars.                                                             *)

KickStep ==
  \/ KickGame /\ UNCHANGED clockVars
  \/ KickFrame /\ Forward
  \/ \E target \in Nat : KickRollback(target) /\ Rollback(target)
  \/ KickReplay /\ Replay
  \/ UNCHANGED kickVars /\ (Arm \/ Disarm \/ UNCHANGED clockVars)

LEMMA KicksFollowed ==
  ASSUME [WorldNext]_worldVars
  PROVE  /\ watched' = watched
         /\ watched = "kicks" => KickStep
         /\ watched # "kicks" => UNCHANGED kickVars
<1>1. CASE UNCHANGED worldVars
  BY <1>1 DEF worldVars, KickStep
<1>2. CASE Game
  BY <1>2 DEF Game, Kicked, KickStep
<1>3. CASE ArmWorld
  BY <1>3 DEF ArmWorld, KickStep
<1>4. CASE DisarmWorld
  BY <1>4 DEF DisarmWorld, KickStep, kickVars
<1>5. CASE NextFrame
  BY <1>5 DEF NextFrame, Kicked, KickStep
<1>6. CASE ReplayedFrame
  BY <1>6 DEF ReplayedFrame, Kicked, KickStep
<1>7. CASE \E target \in (frame - MaxDepth)..(frame - 1) : GoBack(target)
  BY <1>7 DEF GoBack, Rollback, Kicked, KickStep
<1> QED BY <1>1, <1>2, <1>3, <1>4, <1>5, <1>6, <1>7 DEF WorldNext

(* The ring holds what the last KickSlots frames began with, so every frame *)
(* a rollback can replay finds what its successor began with, but for the   *)
(* last one, whose successor has not begun.                                 *)
KickInv ==
  /\ scalar \in Int /\ DOMAIN lived = 0..(frame - 1) /\ \A f \in 0..(frame - 1) : lived[f] \in Int
  /\ DOMAIN kicks = {f \in 0..(frame - 1) : f >= frame - KickSlots}
  /\ \A f \in DOMAIN kicks : kicks[f] = lived[f]
  /\ back.scalar \in Int /\ back.target \in {Live} \cup Nat
  /\ back.target # Live => back.target < frame
  /\ at # Live => /\ back.target # Live /\ back.target <= at /\ at < frame
                  /\ frame - back.target <= MaxDepth
  /\ OnTrajectory

LEMMA KicksKept ==
  ASSUME ClockTyped, KickInv, KickStep
  PROVE  KickInv'
<1> USE KickAssumption, DepthAssumption
<1>1. CASE KickGame /\ UNCHANGED clockVars
  <2>1. CASE at = Live
    BY <1>1, <2>1 DEF KickGame, clockVars, KickInv, OnTrajectory, NoRollback, Live
  <2>2. CASE at # Live
    BY <1>1, <2>2 DEF KickGame, clockVars, kickVars, KickInv, OnTrajectory
  <2> QED BY <2>1, <2>2
<1>2. CASE KickFrame /\ Forward
  <2>1. frame' = frame + 1 /\ at = Live /\ at' = Live /\ scalar' = scalar /\ back' = NoRollback
    BY <1>2 DEF KickFrame, Forward
  <2>2. DOMAIN lived' = 0..frame /\ \A f \in 0..frame : lived'[f] = IF f = frame THEN scalar ELSE lived[f]
    BY <1>2 DEF KickFrame, KickInv, ClockTyped
  <2>3. /\ DOMAIN kicks' = {g \in DOMAIN kicks : g > frame - KickSlots} \cup {frame}
        /\ \A f \in DOMAIN kicks' : kicks'[f] = IF f = frame THEN scalar ELSE kicks[f]
    BY <1>2 DEF KickFrame
  <2>4. DOMAIN kicks' = {f \in 0..frame : f >= frame + 1 - KickSlots}
    <3>1. frame \in Nat /\ KickSlots \in Nat \ {0}
      BY DEF ClockTyped
    <3>2. DOMAIN kicks = {f \in 0..(frame - 1) : f >= frame - KickSlots}
      BY DEF KickInv
    <3>3. \A f : f \in DOMAIN kicks' <=> f \in 0..frame /\ f >= frame + 1 - KickSlots
      BY <2>3, <3>1, <3>2
    <3> QED BY <3>3
  <2>5. \A f \in DOMAIN kicks' : kicks'[f] = lived'[f]
    BY <2>2, <2>3, <2>4 DEF KickInv, ClockTyped
  <2>6. \A f \in 0..frame : lived'[f] \in Int
    BY <2>2 DEF KickInv, ClockTyped
  <2>7. frame + 1 - 1 = frame
    BY DEF ClockTyped
  <2>8. OnTrajectory' /\ scalar' \in Int /\ back'.scalar \in Int /\ back'.target = Live /\ at' = Live
    BY <2>1 DEF KickInv, OnTrajectory, NoRollback, Live
  <2>9. frame' - 1 = frame /\ frame' - KickSlots = frame + 1 - KickSlots
    <3>1. frame' = frame + 1 /\ frame \in Int /\ KickSlots \in Int
      BY <2>1 DEF ClockTyped
    <3> QED BY <3>1
  <2>10. DOMAIN lived' = 0..(frame' - 1)
    BY <2>2, <2>9
  <2>11. \A f \in 0..(frame' - 1) : lived'[f] \in Int
    BY <2>6, <2>9
  <2>12. DOMAIN kicks' = {f \in 0..(frame' - 1) : f >= frame' - KickSlots}
    BY <2>4, <2>9
  <2> QED BY <2>5, <2>8, <2>10, <2>11, <2>12 DEF KickInv
<1>3. ASSUME NEW target \in Nat, KickRollback(target), Rollback(target)
      PROVE  KickInv'
  <2>1. /\ back' = [target |-> target, scalar |-> scalar] /\ UNCHANGED <<scalar, kicks, lived>>
        /\ at = Live /\ at' = target /\ frame' = frame /\ target < frame /\ frame - target <= MaxDepth
    BY <1>3 DEF KickRollback, Rollback
  <2> QED BY <2>1 DEF KickInv, OnTrajectory, ClockTyped, Live
<1>4. CASE KickReplay /\ Replay
  <2>1. /\ UNCHANGED <<kicks, lived, back, frame>> /\ at # Live
        /\ at' = IF at + 1 = frame THEN Live ELSE at + 1
        /\ scalar' = IF at + 1 \in DOMAIN kicks THEN kicks[at + 1] ELSE scalar + 1
    BY <1>4 DEF KickReplay, Replay, Wanted
  <2>2. at \in Nat /\ back.target \in Nat /\ back.target <= at /\ at < frame /\ frame - back.target <= MaxDepth
    BY <2>1 DEF KickInv, ClockTyped
  <2>3. CASE at + 1 = frame
    <3>1. at' = Live /\ scalar' = scalar + 1
      BY <2>1, <2>2, <2>3 DEF KickInv, ClockTyped
    <3>2. frame - back.target > 1 => scalar = lived[frame - 1]
      <4>1. at = frame - 1
        BY <2>2, <2>3 DEF ClockTyped
      <4> QED BY <2>1, <2>2, <4>1 DEF KickInv, OnTrajectory, ClockTyped, Live
    <3> QED BY <2>1, <2>2, <3>1, <3>2 DEF KickInv, OnTrajectory, ClockTyped, Live
  <2>4. CASE at + 1 # frame
    <3>1. at' = at + 1 /\ at + 1 < frame
      BY <2>1, <2>2, <2>4 DEF ClockTyped
    <3>2. at + 1 \in DOMAIN kicks
      <4>1. at + 1 \in 0..(frame - 1) /\ at + 1 >= frame - KickSlots
        BY <2>2, <3>1 DEF ClockTyped
      <4> QED BY <4>1 DEF KickInv
    <3>3. scalar' = lived[at + 1] /\ lived[at + 1] \in Int
      BY <2>1, <2>2, <3>1, <3>2 DEF KickInv, ClockTyped
    <3> QED BY <2>1, <2>2, <3>1, <3>3 DEF KickInv, OnTrajectory, ClockTyped, Live
  <2> QED BY <2>3, <2>4
<1>5. CASE UNCHANGED kickVars /\ (Arm \/ Disarm \/ UNCHANGED clockVars)
  BY <1>5 DEF kickVars, clockVars, Arm, Disarm, KickInv, OnTrajectory
<1> QED BY <1>1, <1>2, <1>3, <1>4, <1>5 DEF KickStep

TrajectoryInv ==
  /\ ClockTyped
  /\ watched = "kicks" => KickInv
  /\ watched # "kicks" => back.target = Live

(* Each replayed frame begins with the scalars it began with, and a         *)
(* rollback of two frames or more ends with those it found.                 *)
THEOREM KicksOnTrajectory == Spec => []OnTrajectory
<1>1. WorldInit => TrajectoryInv
  <2> SUFFICES ASSUME WorldInit PROVE TrajectoryInv
    OBVIOUS
  <2>1. frame = 0 /\ at = Live /\ back = NoRollback /\ scalar = 0
    BY DEF WorldInit, ClockInit, KickInit
  <2>2. DOMAIN kicks = {} /\ DOMAIN lived = {}
    BY DEF WorldInit, KickInit
  <2> QED BY <2>1, <2>2, ClockInitially DEF TrajectoryInv, KickInv, OnTrajectory, NoRollback, Live
<1>2. TrajectoryInv /\ [WorldNext]_worldVars => TrajectoryInv'
  <2> SUFFICES ASSUME TrajectoryInv, [WorldNext]_worldVars PROVE TrajectoryInv'
    OBVIOUS
  <2>1. ClockTyped' /\ watched' = watched
    BY ClockStep, KicksFollowed DEF TrajectoryInv
  <2>2. CASE watched = "kicks"
    BY <2>1, <2>2, KicksFollowed, KicksKept DEF TrajectoryInv
  <2>3. CASE watched # "kicks"
    BY <2>1, <2>3, KicksFollowed DEF TrajectoryInv, kickVars
  <2> QED BY <2>2, <2>3
<1>3. TrajectoryInv => OnTrajectory
  BY DEF TrajectoryInv, KickInv, OnTrajectory
<1> QED BY <1>1, <1>2, <1>3, PTL DEF Spec

----------------------------------------------------------------------------
(* Surfaces.                                                                *)

SurfaceStep ==
  \/ SurfaceGame /\ UNCHANGED clockVars
  \/ SurfaceSwitch /\ (Arm \/ Disarm)
  \/ SurfaceFrame /\ Forward
  \/ \E target \in Nat : SurfaceRollback(target) /\ Rollback(target)
  \/ UNCHANGED surfaceVars /\ (Replay \/ UNCHANGED clockVars)

LEMMA SurfacesFollowed ==
  ASSUME [WorldNext]_worldVars
  PROVE  /\ watched' = watched
         /\ watched = "handles" => SurfaceStep
         /\ watched # "handles" => UNCHANGED surfaceVars
<1>1. CASE UNCHANGED worldVars
  BY <1>1 DEF worldVars, SurfaceStep
<1>2. CASE Game
  BY <1>2 DEF Game, Handled, SurfaceStep
<1>3. CASE ArmWorld
  BY <1>3 DEF ArmWorld, Handled, SurfaceStep
<1>4. CASE DisarmWorld
  BY <1>4 DEF DisarmWorld, Handled, SurfaceStep
<1>5. CASE NextFrame
  BY <1>5 DEF NextFrame, Handled, SurfaceStep
<1>6. CASE ReplayedFrame
  BY <1>6 DEF ReplayedFrame, Handled, SurfaceStep
<1>7. CASE \E target \in (frame - MaxDepth)..(frame - 1) : GoBack(target)
  BY <1>7 DEF GoBack, Rollback, Handled, SurfaceStep
<1> QED BY <1>1, <1>2, <1>3, <1>4, <1>5, <1>6, <1>7 DEF WorldNext

(* The wrappers of a surface that a rollback would bring back: saved with   *)
(* it, and not known to have died since.                                    *)
Claims(h) == {w \in Wrappers : \E f \in DOMAIN views : /\ views[f].surface[w] = h
                                                      /\ w \notin destroyed \cup views[f].lost}

(* What a replayed destruction releases; the count of a surface covers the  *)
(* wrappers made in this replay, and besides them every wrapper that has it *)
(* or that a rollback would bring back, whose replayed destruction released *)
(* nothing.                                                                 *)
Own    == IF Resim THEN ctorset ELSE {}
Old(h) == Claims(h) \cup (Users(h) \ Own)
New(h) == Users(h) \cap Own

Covered(h) == Cardinality(Old(h)) + Cardinality(New(h)) <= references[h]

SurfaceInv ==
  /\ DOMAIN surface = Wrappers /\ references \in [Handles -> Int]
  /\ \A f \in DOMAIN views : DOMAIN views[f] = {"surface", "lost"}
  /\ forgotten # TRUE => \A h \in Handles : Covered(h)

LEMMA Fewer ==
  ASSUME NEW S \in SUBSET Wrappers, NEW T \in SUBSET S
  PROVE  /\ Cardinality(S) \in Nat /\ Cardinality(T) \in Nat
         /\ Cardinality(T) <= Cardinality(S)
<1>1. IsFiniteSet(S)
  BY SurfaceAssumption, FS_Subset
<1>2. IsFiniteSet(T)
  BY <1>1, FS_Subset
<1> QED BY <1>1, <1>2, FS_Subset, FS_CardinalityType

LEMMA OneMore ==
  ASSUME NEW S \in SUBSET Wrappers, NEW w \in Wrappers, NEW T \in SUBSET (S \cup {w})
  PROVE  /\ Cardinality(S) \in Nat /\ Cardinality(T) \in Nat
         /\ Cardinality(T) <= Cardinality(S) + 1
<1>1. IsFiniteSet(S) /\ Cardinality(S) \in Nat
  BY SurfaceAssumption, FS_Subset, FS_CardinalityType
<1>0. Cardinality(S \cup {w}) = IF w \in S THEN Cardinality(S) ELSE Cardinality(S) + 1
  BY <1>1, FS_AddElement
<1>2. Cardinality(S \cup {w}) <= Cardinality(S) + 1
  BY <1>0, <1>1
<1>3. /\ Cardinality(S \cup {w}) \in Nat /\ Cardinality(T) \in Nat
      /\ Cardinality(T) <= Cardinality(S \cup {w})
  BY Fewer
<1> QED BY <1>1, <1>2, <1>3

LEMMA OneLess ==
  ASSUME NEW S \in SUBSET Wrappers, NEW w \in S, NEW T \in SUBSET (S \ {w})
  PROVE  /\ Cardinality(S) \in Nat /\ Cardinality(T) \in Nat
         /\ Cardinality(T) <= Cardinality(S) - 1
<1>1. IsFiniteSet(S) /\ Cardinality(S) \in Nat
  BY SurfaceAssumption, FS_Subset, FS_CardinalityType
<1>2. Cardinality(S \ {w}) = Cardinality(S) - 1
  BY <1>1, FS_RemoveElement
<1>3. /\ Cardinality(S \ {w}) \in Nat /\ Cardinality(T) \in Nat
      /\ Cardinality(T) <= Cardinality(S \ {w})
  BY Fewer
<1> QED BY <1>1, <1>2, <1>3

LEMMA BothSets ==
  ASSUME NEW S \in SUBSET Wrappers, NEW T \in SUBSET Wrappers
  PROVE  /\ Cardinality(S) \in Nat /\ Cardinality(T) \in Nat /\ Cardinality(S \cup T) \in Nat
         /\ Cardinality(S \cup T) <= Cardinality(S) + Cardinality(T)
<1>1. IsFiniteSet(S) /\ IsFiniteSet(T)
  BY SurfaceAssumption, FS_Subset
<1>2. IsFiniteSet(S \cap T) /\ IsFiniteSet(S \cup T)
  BY <1>1, FS_Subset, FS_Union
<1>3. /\ Cardinality(S) \in Nat /\ Cardinality(T) \in Nat
      /\ Cardinality(S \cap T) \in Nat /\ Cardinality(S \cup T) \in Nat
  BY <1>1, <1>2, FS_CardinalityType
<1>4. Cardinality(S \cup T) = Cardinality(S) + Cardinality(T) - Cardinality(S \cap T)
  BY <1>1, FS_Union
<1> QED BY <1>3, <1>4

LEMMA SetsOfWrappers ==
  \A h : Old(h) \subseteq Wrappers /\ New(h) \subseteq Wrappers
BY DEF Old, New, Claims, Users

(* A step that claims no more and releases nothing.                         *)
LEMMA StaysCovered ==
  ASSUME NEW h, references[h] \in Int, Covered(h), references'[h] = references[h],
         Old(h)' \subseteq Old(h), New(h)' \subseteq New(h)
  PROVE  Covered(h)'
<1>1. /\ Cardinality(Old(h)) \in Nat /\ Cardinality(Old(h)') \in Nat
      /\ Cardinality(Old(h)') <= Cardinality(Old(h))
  BY SetsOfWrappers, Fewer
<1>2. /\ Cardinality(New(h)) \in Nat /\ Cardinality(New(h)') \in Nat
      /\ Cardinality(New(h)') <= Cardinality(New(h))
  BY SetsOfWrappers, Fewer
<1> QED BY <1>1, <1>2 DEF Covered

LEMMA SurfaceInitially == WorldInit => SurfaceInv
<1> SUFFICES ASSUME WorldInit PROVE SurfaceInv
  OBVIOUS
<1>1. SurfaceInit /\ at = Live
  BY DEF WorldInit, ClockInit
<1>2. \A h \in Handles : Old(h) = {} /\ New(h) = {} /\ references[h] = 0
  BY <1>1, SurfaceAssumption DEF SurfaceInit, Old, New, Own, Resim, Claims, Users
<1>3. \A h \in Handles : Covered(h)
  BY <1>2, FS_EmptySet DEF Covered
<1>4. DOMAIN views = {} /\ DOMAIN surface = Wrappers /\ references \in [Handles -> Int]
  BY <1>1 DEF SurfaceInit
<1> QED BY <1>3, <1>4 DEF SurfaceInv

(* What losing deaths does to the saves.                                    *)
LEMMA LostIs ==
  ASSUME SurfaceInv, NEW ws, views' = Lost(ws)
  PROVE  /\ DOMAIN views' = DOMAIN views
         /\ \A f \in DOMAIN views : /\ views'[f].surface = views[f].surface
                                    /\ views'[f].lost = views[f].lost \cup ws
                                    /\ DOMAIN views'[f] = {"surface", "lost"}
<1>1. \A f \in DOMAIN views : DOMAIN views[f] = {"surface", "lost"}
  BY DEF SurfaceInv
<1> QED BY <1>1 DEF Lost

LEMMA ConstructedCovered ==
  ASSUME SurfaceInv, NEW w \in Wrappers, NEW h \in Handles, forgotten # TRUE,
         Constructed(w, h), UNCHANGED clockVars
  PROVE  SurfaceInv'
<1>1. /\ surface[w] = Absent /\ surface' = [surface EXCEPT ![w] = h]
      /\ references' = [references EXCEPT ![h] = @ + 1]
      /\ destroyed' = destroyed \ {w} /\ views' = Lost(destroyed \cap {w})
      /\ forgotten' = forgotten /\ at' = at
      /\ ctorset' = IF Resim THEN ctorset \cup {w} ELSE ctorset
  BY DEF Constructed, clockVars
<1>2. /\ DOMAIN views' = DOMAIN views
      /\ \A f \in DOMAIN views : /\ views'[f].surface = views[f].surface
                                 /\ views'[f].lost = views[f].lost \cup (destroyed \cap {w})
                                 /\ DOMAIN views'[f] = {"surface", "lost"}
  BY <1>1, LostIs
<1>3. \A g \in Handles : Claims(g)' \subseteq Claims(g)
  BY <1>1, <1>2 DEF Claims
<1>4. \A g \in Handles : w \notin Users(g) /\ Users(g)' = IF g = h THEN Users(g) \cup {w} ELSE Users(g)
  BY <1>1, SurfaceAssumption DEF Users, SurfaceInv
<1>5. /\ Resim' = Resim /\ (Resim => Own' = Own \cup {w}) /\ (~Resim => Own = {} /\ Own' = {})
  BY <1>1 DEF Resim, Own
<1>6. references' \in [Handles -> Int] /\ DOMAIN surface' = Wrappers
  BY <1>1 DEF SurfaceInv
<1>7. ASSUME NEW g \in Handles, g # h PROVE Covered(g)'
  <2>1. Old(g)' \subseteq Old(g) /\ New(g)' \subseteq New(g)
    BY <1>3, <1>4, <1>5, <1>7 DEF Old, New
  <2>2. Covered(g) /\ references[g] \in Int /\ references'[g] = references[g]
    BY <1>1, <1>7 DEF SurfaceInv
  <2> QED BY <2>1, <2>2, StaysCovered
<1>8. Covered(h)'
  <2>1. Covered(h) /\ references[h] \in Int /\ references'[h] = references[h] + 1
    BY <1>1 DEF SurfaceInv
  <2>2. CASE Resim
    <3>1. Old(h)' \subseteq Old(h) /\ New(h)' \subseteq New(h) \cup {w}
      BY <1>3, <1>4, <1>5, <2>2 DEF Old, New
    <3>2. /\ Cardinality(Old(h)) \in Nat /\ Cardinality(Old(h)') \in Nat
          /\ Cardinality(Old(h)') <= Cardinality(Old(h))
      BY <3>1, SetsOfWrappers, Fewer
    <3>3. /\ Cardinality(New(h)) \in Nat /\ Cardinality(New(h)') \in Nat
          /\ Cardinality(New(h)') <= Cardinality(New(h)) + 1
      BY <3>1, SetsOfWrappers, OneMore
    <3> QED BY <2>1, <3>2, <3>3 DEF Covered
  <2>3. CASE ~Resim
    <3>1. Old(h)' \subseteq Old(h) \cup {w} /\ New(h)' \subseteq New(h)
      BY <1>3, <1>4, <1>5, <2>3 DEF Old, New
    <3>2. /\ Cardinality(Old(h)) \in Nat /\ Cardinality(Old(h)') \in Nat
          /\ Cardinality(Old(h)') <= Cardinality(Old(h)) + 1
      BY <3>1, SetsOfWrappers, OneMore
    <3>3. /\ Cardinality(New(h)) \in Nat /\ Cardinality(New(h)') \in Nat
          /\ Cardinality(New(h)') <= Cardinality(New(h))
      BY <3>1, SetsOfWrappers, Fewer
    <3> QED BY <2>1, <3>2, <3>3 DEF Covered
  <2> QED BY <2>2, <2>3
<1> QED BY <1>1, <1>2, <1>6, <1>7, <1>8 DEF SurfaceInv

(* A replayed destruction of a wrapper that was not made in the replay      *)
(* leaves its reference, with which a second rollback can bring it back.    *)
LEMMA DestroyCovered ==
  ASSUME SurfaceInv, NEW w \in Wrappers, forgotten # TRUE, DestroyView(w), UNCHANGED clockVars
  PROVE  SurfaceInv'
<1> DEFINE c == surface[w]
<1>1. /\ c # Absent /\ surface' = [surface EXCEPT ![w] = Absent] /\ Died(w)
      /\ references' = IF c = Null \/ Suppressed(w) THEN references ELSE [references EXCEPT ![c] = @ - 1]
      /\ ctorset' = ctorset /\ forgotten' = forgotten /\ at' = at
  BY DEF DestroyView, clockVars
<1>2. /\ DOMAIN views' = DOMAIN views
      /\ \A f \in DOMAIN views : /\ views'[f].surface = views[f].surface
                                 /\ views[f].lost \subseteq views'[f].lost
                                 /\ DOMAIN views'[f] = {"surface", "lost"}
      /\ destroyed \subseteq destroyed'
      /\ ~Resim => w \in destroyed' \/ \A f \in DOMAIN views : w \in views'[f].lost
  <2>1. CASE Resim /\ UNCHANGED <<destroyed, views>>
    BY <2>1 DEF SurfaceInv
  <2>2. CASE ~Resim /\ destroyed' = destroyed \cup {w} /\ views' = views
    BY <2>2 DEF SurfaceInv
  <2>3. CASE ~Resim /\ views' = Lost({w}) /\ destroyed' = destroyed
    <3>1. /\ DOMAIN views' = DOMAIN views
          /\ \A f \in DOMAIN views : /\ views'[f].surface = views[f].surface
                                     /\ views'[f].lost = views[f].lost \cup {w}
                                     /\ DOMAIN views'[f] = {"surface", "lost"}
      BY <2>3, LostIs
    <3> QED BY <2>3, <3>1
  <2> QED BY <1>1, <2>1, <2>2, <2>3 DEF Died
<1>3. \A g \in Handles : Claims(g)' \subseteq Claims(g) /\ (~Resim => w \notin Claims(g)')
  BY <1>2 DEF Claims
<1>4. \A g \in Handles : Users(g)' = Users(g) \ {w}
  BY <1>1, SurfaceAssumption DEF Users, SurfaceInv
<1>5. Resim' = Resim /\ Own' = Own /\ (~Resim => Own = {})
  BY <1>1 DEF Resim, Own
<1>6. /\ references' \in [Handles -> Int] /\ DOMAIN surface' = Wrappers
      /\ \A g \in Handles : references'[g] = references[g] \/ g = c
      /\ c = Null \/ Suppressed(w) => references' = references
      /\ c \in Handles /\ c # Null /\ ~Suppressed(w) => references'[c] = references[c] - 1
  <2>1. CASE c = Null \/ Suppressed(w)
    BY <1>1, <2>1 DEF SurfaceInv
  <2>2. CASE ~(c = Null \/ Suppressed(w))
    <3>1. references' = [references EXCEPT ![c] = @ - 1]
      BY <1>1, <2>2
    <3> HIDE DEF c
    <3>2. DOMAIN surface' = Wrappers /\ references \in [Handles -> Int]
      BY <1>1 DEF SurfaceInv
    <3>3. references' \in [Handles -> Int]
      <4>1. references' = [g \in Handles |-> IF g = c THEN references[g] - 1 ELSE references[g]]
        BY <3>1, <3>2
      <4> QED BY <3>2, <4>1
    <3>4. \A g \in Handles : references'[g] = references[g] \/ g = c
      BY <3>1, <3>2
    <3>5. c \in Handles => references'[c] = references[c] - 1
      BY <3>1, <3>2
    <3> QED BY <2>2, <3>2, <3>3, <3>4, <3>5
  <2> QED BY <2>1, <2>2
<1> HIDE DEF c
<1>7. \A g \in Handles : Old(g)' \subseteq Old(g) /\ New(g)' \subseteq New(g)
  BY <1>3, <1>4, <1>5 DEF Old, New
<1>8. ASSUME NEW g \in Handles, references'[g] = references[g] PROVE Covered(g)'
  BY <1>1, <1>7, <1>8, StaysCovered DEF SurfaceInv
<1>9. ASSUME NEW g \in Handles, g = c, ~Suppressed(w), c # Null PROVE Covered(g)'
  <2>1. Covered(g) /\ references[g] \in Int /\ references'[g] = references[g] - 1
    BY <1>6, <1>9 DEF SurfaceInv
  <2>2. w \in Users(g)
    BY <1>9 DEF Users, c
  <2>3. CASE Resim
    <3>1. w \in Own
      BY <1>9, <2>3 DEF Suppressed, Own, c
    <3>2. New(g)' \subseteq New(g) \ {w} /\ w \in New(g)
      BY <1>4, <1>5, <1>9, <2>2, <3>1 DEF New
    <3>3. /\ Cardinality(New(g)) \in Nat /\ Cardinality(New(g)') \in Nat
          /\ Cardinality(New(g)') <= Cardinality(New(g)) - 1
      BY <3>2, SetsOfWrappers, OneLess
    <3>4. /\ Cardinality(Old(g)) \in Nat /\ Cardinality(Old(g)') \in Nat
          /\ Cardinality(Old(g)') <= Cardinality(Old(g))
      BY <1>7, <1>9, SetsOfWrappers, Fewer
    <3> QED BY <2>1, <3>3, <3>4 DEF Covered
  <2>4. CASE ~Resim
    <3>1. Old(g)' \subseteq Old(g) \ {w} /\ w \in Old(g)
      BY <1>3, <1>4, <1>5, <1>9, <2>2, <2>4 DEF Old
    <3>2. /\ Cardinality(Old(g)) \in Nat /\ Cardinality(Old(g)') \in Nat
          /\ Cardinality(Old(g)') <= Cardinality(Old(g)) - 1
      BY <3>1, SetsOfWrappers, OneLess
    <3>3. /\ Cardinality(New(g)) \in Nat /\ Cardinality(New(g)') \in Nat
          /\ Cardinality(New(g)') <= Cardinality(New(g))
      BY <1>7, <1>9, SetsOfWrappers, Fewer
    <3> QED BY <2>1, <3>2, <3>3 DEF Covered
  <2> QED BY <2>3, <2>4
<1>10. \A g \in Handles : Covered(g)'
  <2> SUFFICES ASSUME NEW g \in Handles PROVE Covered(g)'
    OBVIOUS
  <2>1. references'[g] = references[g] \/ (g = c /\ ~Suppressed(w) /\ c # Null)
    BY <1>6
  <2> QED BY <1>8, <1>9, <2>1
<1> QED BY <1>1, <1>2, <1>6, <1>10 DEF SurfaceInv

LEMMA SaveCovered ==
  ASSUME SurfaceInv, SurfaceFrame, Forward
  PROVE  SurfaceInv'
<1>1. /\ UNCHANGED <<surface, references, destroyed, ctorset, forgotten, at>> /\ at = Live
      /\ \A f \in DOMAIN views' :
           \/ views'[f] = [surface |-> surface, lost |-> {}]
           \/ f \in DOMAIN views /\ views'[f] = views[f]
  BY DEF SurfaceFrame, Forward
<1>2. Own = {} /\ Own' = {} /\ \A g \in Handles : Users(g)' = Users(g)
  BY <1>1 DEF Own, Resim, Users
<1>3. \A g \in Handles : Old(g)' \subseteq Old(g) /\ New(g)' \subseteq New(g)
  <2>1. ASSUME NEW g \in Handles, NEW w \in Claims(g)' PROVE w \in Claims(g) \cup Users(g)
    BY <1>1, <2>1 DEF Claims, Users
  <2> QED BY <1>2, <2>1 DEF Old, New
<1>4. \A f \in DOMAIN views' : DOMAIN views'[f] = {"surface", "lost"}
  BY <1>1 DEF SurfaceInv
<1>5. forgotten # TRUE => \A g \in Handles : Covered(g)'
  BY <1>1, <1>3, StaysCovered DEF SurfaceInv
<1> QED BY <1>1, <1>4, <1>5 DEF SurfaceInv

(* A rollback brings back a wrapper only where it was claimed, or puts the  *)
(* handle into it that it has.                                              *)
LEMMA RollbackCovered ==
  ASSUME SurfaceInv, NEW target \in Nat, SurfaceRollback(target), Rollback(target)
  PROVE  SurfaceInv'
<1>1. /\ target \in DOMAIN views /\ surface' = Severed(views[target].surface)
      /\ destroyed' = {} /\ ctorset' = {} /\ views' = Lost(destroyed)
      /\ forgotten' = (forgotten \/ \E w \in views[target].lost :
                                       /\ surface'[w] = views[target].surface[w]
                                       /\ surface'[w] \in Handles)
      /\ references' = references /\ at = Live
  BY DEF SurfaceRollback, Rollback
<1>2. /\ DOMAIN views' = DOMAIN views
      /\ \A f \in DOMAIN views : /\ views'[f].surface = views[f].surface
                                 /\ views'[f].lost = views[f].lost \cup destroyed
                                 /\ DOMAIN views'[f] = {"surface", "lost"}
  BY <1>1, LostIs
<1>3. Own = {} /\ Own' = {}
  BY <1>1 DEF Own, Resim
<1>4. \A g \in Handles : Claims(g)' \subseteq Claims(g)
  BY <1>1, <1>2 DEF Claims
<1>5. ASSUME forgotten' # TRUE, NEW g \in Handles, NEW w \in Users(g)'
      PROVE  w \in Claims(g) \cup Users(g)
  <2>1. w \in Wrappers /\ surface'[w] = g /\ g # Null /\ g # Absent
    BY <1>5, SurfaceAssumption DEF Users
  <2>2. CASE surface'[w] = surface[w]
    BY <2>1, <2>2 DEF Users
  <2>3. CASE surface'[w] = views[target].surface[w] /\ w \notin destroyed
    <3>1. w \notin views[target].lost
      BY <1>1, <1>5, <2>1, <2>3
    <3> QED BY <1>1, <2>1, <2>3, <3>1 DEF Claims
  <2>4. \/ surface'[w] = surface[w] \/ surface'[w] = Absent \/ surface'[w] = Null
        \/ surface'[w] = views[target].surface[w] /\ (w \notin destroyed \/ w \in Preserved)
    BY <1>1, <2>1 DEF Severed
  <2>5. w \in Preserved => surface'[w] \in {surface[w], Absent}
    BY <1>1, <2>1 DEF Severed
  <2> QED BY <2>1, <2>2, <2>3, <2>4, <2>5
<1>6. forgotten' # TRUE => \A g \in Handles : Covered(g)'
  <2> SUFFICES ASSUME forgotten' # TRUE, NEW g \in Handles PROVE Covered(g)'
    OBVIOUS
  <2>1. Old(g)' \subseteq Old(g) /\ New(g)' \subseteq New(g)
    BY <1>3, <1>4, <1>5 DEF Old, New
  <2>2. forgotten # TRUE
    BY <1>1
  <2> QED BY <1>1, <2>1, <2>2, StaysCovered DEF SurfaceInv
<1>7. DOMAIN surface' = Wrappers
  BY <1>1 DEF Severed
<1> QED BY <1>1, <1>2, <1>6, <1>7 DEF SurfaceInv

LEMMA SurfaceStepCovered ==
  ASSUME SurfaceInv, SurfaceStep
  PROVE  SurfaceInv'
<1>1. CASE SurfaceGame /\ UNCHANGED clockVars
  <2>1. forgotten # TRUE
    BY <1>1 DEF SurfaceGame
  <2> QED BY <1>1, <2>1, ConstructedCovered, DestroyCovered DEF SurfaceGame, CreateSurface, WrapSurface
<1>2. CASE SurfaceSwitch /\ (Arm \/ Disarm)
  <2>1. /\ views' = <<>> /\ UNCHANGED <<surface, references, forgotten>> /\ at = Live /\ at' = Live
    BY <1>2 DEF SurfaceSwitch, Arm, Disarm
  <2>2. \A g \in Handles : Old(g)' \subseteq Old(g) /\ New(g)' \subseteq New(g)
    BY <2>1 DEF Old, New, Claims, Users, Own, Resim
  <2>3. forgotten # TRUE => \A g \in Handles : Covered(g)'
    BY <2>1, <2>2, StaysCovered DEF SurfaceInv
  <2>4. DOMAIN views' = {}
    BY <2>1
  <2> QED BY <2>1, <2>3, <2>4 DEF SurfaceInv
<1>3. CASE SurfaceFrame /\ Forward
  BY <1>3, SaveCovered
<1>4. CASE \E target \in Nat : SurfaceRollback(target) /\ Rollback(target)
  BY <1>4, RollbackCovered
<1>5. CASE UNCHANGED surfaceVars /\ (Replay \/ UNCHANGED clockVars)
  <2>1. /\ UNCHANGED <<surface, references, views, destroyed, ctorset, forgotten>>
        /\ \A g \in Handles : Claims(g)' = Claims(g) /\ Users(g)' = Users(g)
    BY <1>5 DEF surfaceVars, Claims, Users
  <2>2. Own' = Own \/ Own' = {}
    BY <1>5, <2>1 DEF Replay, clockVars, Own, Resim
  <2>3. forgotten # TRUE => \A g \in Handles : Covered(g)'
    <3> SUFFICES ASSUME forgotten # TRUE, NEW g \in Handles PROVE Covered(g)'
      OBVIOUS
    <3>1. Covered(g) /\ references[g] \in Int /\ references'[g] = references[g]
      BY <2>1 DEF SurfaceInv
    <3>2. CASE Own' = Own
      <4>1. Old(g)' = Old(g) /\ New(g)' = New(g)
        BY <2>1, <3>2 DEF Old, New
      <4> QED BY <3>1, <4>1 DEF Covered
    <3>3. CASE Own' = {}
      <4>1. Old(g)' = Old(g) \cup New(g) /\ New(g)' = {}
        BY <2>1, <3>3 DEF Old, New
      <4>2. /\ Cardinality(Old(g)) \in Nat /\ Cardinality(New(g)) \in Nat
            /\ Cardinality(Old(g)') \in Nat
            /\ Cardinality(Old(g)') <= Cardinality(Old(g)) + Cardinality(New(g))
        BY <4>1, SetsOfWrappers, BothSets
      <4>3. Cardinality(New(g)') = 0
        BY <4>1, FS_EmptySet
      <4> QED BY <3>1, <4>2, <4>3 DEF Covered
    <3> QED BY <2>2, <3>2, <3>3
  <2> QED BY <2>1, <2>3 DEF SurfaceInv
<1> QED BY <1>1, <1>2, <1>3, <1>4, <1>5 DEF SurfaceStep

BackedInv == IF watched = "handles" THEN SurfaceInv ELSE \A h \in Handles : Users(h) = {} /\ references[h] = 0

(* The driver's count of a surface covers every wrapper that would release  *)
(* it, for any number of wrappers, surfaces and remembered deaths, and any  *)
(* order of constructions, destructions and rollbacks, replayed or not,     *)
(* until a rollback brings back a wrapper whose death is forgotten          *)
(* (rtv_probe.cpp, HandlesBacked of the run world).                         *)
THEOREM CountsCoverWrappers == Spec => []HandlesBacked
<1>1. WorldInit => BackedInv
  BY SurfaceInitially, SurfaceAssumption DEF BackedInv, WorldInit, SurfaceInit, Users
<1>2. BackedInv /\ [WorldNext]_worldVars => BackedInv'
  <2> SUFFICES ASSUME BackedInv, [WorldNext]_worldVars PROVE BackedInv'
    OBVIOUS
  <2>1. CASE watched = "handles"
    BY <2>1, SurfacesFollowed, SurfaceStepCovered DEF BackedInv
  <2>2. CASE watched # "handles"
    BY <2>2, SurfacesFollowed DEF BackedInv, surfaceVars, Users
  <2> QED BY <2>1, <2>2
<1>3. BackedInv => HandlesBacked
  <2> SUFFICES ASSUME BackedInv, ~forgotten, NEW h \in Handles
               PROVE  Cardinality(Users(h)) <= references[h]
    BY DEF HandlesBacked
  <2>1. CASE watched = "handles"
    <3>1. Covered(h) /\ references[h] \in Int
      BY <2>1 DEF BackedInv, SurfaceInv
    <3>2. Users(h) \subseteq Old(h) \cup New(h)
      BY DEF Old, New
    <3>3. /\ Cardinality(Old(h)) \in Nat /\ Cardinality(New(h)) \in Nat
          /\ Cardinality(Old(h) \cup New(h)) \in Nat
          /\ Cardinality(Old(h) \cup New(h)) <= Cardinality(Old(h)) + Cardinality(New(h))
      BY SetsOfWrappers, BothSets
    <3>4. Old(h) \cup New(h) \subseteq Wrappers
      BY SetsOfWrappers
    <3>5. Cardinality(Users(h)) \in Nat /\ Cardinality(Users(h)) <= Cardinality(Old(h) \cup New(h))
      BY <3>2, <3>4, Fewer
    <3> QED BY <3>1, <3>3, <3>5 DEF Covered
  <2>2. CASE watched # "handles"
    BY <2>2, FS_EmptySet DEF BackedInv
  <2> QED BY <2>1, <2>2
<1> QED BY <1>1, <1>2, <1>3, PTL DEF Spec
----------------------------------------------------------------------------
(* FreeListUnit.  First what a walk along the links is: its recursive       *)
(* function exists, and a chain that ends is a path without repetition.     *)

LEMMA LeastNatural ==
  ASSUME NEW S \in SUBSET Nat, S # {}
  PROVE  \E n \in S : \A m \in S : n <= m
<1> DEFINE T == {1..n : n \in S}
<1>1. IsWellFoundedOn(StrictSubsetOrdering(Nat), FiniteSubsetsOf(Nat))
  BY FS_StrictSubsetOrderingWellFounded
<1>2. T \subseteq FiniteSubsetsOf(Nat) /\ T # {}
  <2>1. \A n \in S : n \in Int /\ 1..n \in SUBSET Nat
    OBVIOUS
  <2>2. \A n \in S : IsFiniteSet(1..n)
    BY <2>1, FS_Interval
  <2> QED BY <2>1, <2>2 DEF FiniteSubsetsOf
<1>3. PICK t \in T : \A u \in T : ~(<<u, t>> \in StrictSubsetOrdering(Nat))
  <2> HIDE DEF T
  <2> QED BY <1>1, <1>2, WFMin
<1>4. PICK n \in S : t = 1..n
  BY <1>3
<1>5. ASSUME NEW m \in S, m < n PROVE FALSE
  <2>1. 1..m \in T /\ 1..m \in SUBSET Nat /\ 1..n \in SUBSET Nat
    OBVIOUS
  <2>2. 1..m \subseteq 1..n /\ n \in 1..n /\ n \notin 1..m
    BY <1>5
  <2>3. <<1..m, 1..n>> \in StrictSubsetOrdering(Nat)
    BY <2>1, <2>2 DEF StrictSubsetOrdering
  <2> QED BY <1>3, <1>4, <2>1, <2>3
<1> QED BY <1>5

(* Induction, of a set of naturals: the provers can instantiate this one.   *)
LEMMA SetInduction ==
  ASSUME NEW S, 0 \in S, \A n \in Nat : n \in S => n + 1 \in S
  PROVE  \A n \in Nat : n \in S
<1> DEFINE T == Nat \ S
<1> SUFFICES ASSUME T # {} PROVE FALSE
  OBVIOUS
<1>1. PICK n \in T : \A m \in T : n <= m
  BY LeastNatural
<1>2. n \in Nat /\ n # 0 /\ n - 1 \in Nat /\ n = (n - 1) + 1
  BY <1>1
<1>3. n - 1 \notin T
  BY <1>1, <1>2
<1> QED BY <1>1, <1>2, <1>3

(* g is the walk's function up to k.                                        *)
WalkTo(h, g, k) ==
  g = [i \in 0..k |-> IF i = 0 THEN h.head
                      ELSE IF g[i - 1] = Nil THEN Nil ELSE h.next[g[i - 1]]]

LEMMA WalkToAt ==
  ASSUME NEW h, NEW g, NEW k \in Nat, WalkTo(h, g, k)
  PROVE  /\ g[0] = h.head
         /\ \A i \in 1..k : g[i] = IF g[i - 1] = Nil THEN Nil ELSE h.next[g[i - 1]]
<1> DEFINE f == [i \in 0..k |-> IF i = 0 THEN h.head
                      ELSE IF g[i - 1] = Nil THEN Nil ELSE h.next[g[i - 1]]]
<1>1. g = f
  BY DEF WalkTo
<1>2. f[0] = h.head
  OBVIOUS
<1>3. \A i \in 1..k : f[i] = IF g[i - 1] = Nil THEN Nil ELSE h.next[g[i - 1]]
  OBVIOUS
<1> HIDE DEF f
<1> QED BY <1>1, <1>2, <1>3, Zenon

LEMMA WalkToExists == \A h : \A k \in Nat : \E g : WalkTo(h, g, k)
<1> TAKE h
<1> DEFINE S == {k \in Nat : \E g : WalkTo(h, g, k)}
<1>1. 0 \in S
  <2> DEFINE g == [i \in 0..0 |-> h.head]
  <2>1. g = [i \in 0..0 |-> IF i = 0 THEN h.head
                            ELSE IF g[i - 1] = Nil THEN Nil ELSE h.next[g[i - 1]]]
    OBVIOUS
  <2> HIDE DEF g
  <2>2. WalkTo(h, g, 0)
    BY <2>1, Zenon DEF WalkTo
  <2> QED BY <2>2
<1>2. ASSUME NEW k \in Nat, k \in S PROVE k + 1 \in S
  <2>1. PICK g : WalkTo(h, g, k)
    BY <1>2
  <2>2. /\ g[0] = h.head
        /\ \A i \in 1..k : g[i] = IF g[i - 1] = Nil THEN Nil ELSE h.next[g[i - 1]]
    BY <2>1, WalkToAt
  <2> DEFINE f == [i \in 0..(k + 1) |-> IF i <= k THEN g[i]
                                       ELSE IF g[k] = Nil THEN Nil ELSE h.next[g[k]]]
             ff == [i \in 0..(k + 1) |-> IF i = 0 THEN h.head
                      ELSE IF f[i - 1] = Nil THEN Nil ELSE h.next[f[i - 1]]]
  <2>3. ASSUME NEW i \in 0..(k + 1) PROVE f[i] = ff[i]
    <3>1. CASE i = 0
      BY <2>2, <3>1
    <3>2. CASE i \in 1..k
      <4>1. f[i] = g[i] /\ f[i - 1] = g[i - 1]
        BY <3>2
      <4> HIDE DEF f
      <4> QED BY <2>2, <3>2, <4>1
    <3>3. CASE i = k + 1
      <4>1. f[i - 1] = g[k] /\ f[i] = IF g[k] = Nil THEN Nil ELSE h.next[g[k]]
        BY <3>3
      <4> HIDE DEF f
      <4> QED BY <3>3, <4>1
    <3> QED BY <3>1, <3>2, <3>3
  <2>4. f = ff
    BY <2>3
  <2> HIDE DEF f
  <2>5. WalkTo(h, f, k + 1)
    BY <2>4, Zenon DEF WalkTo
  <2> QED BY <2>5
<1>3. \A k \in Nat : k \in S
  <2> HIDE DEF S
  <2> QED BY <1>1, <1>2, SetInduction
<1> QED BY <1>3

LEMMA WalkToAgree ==
  ASSUME NEW h, NEW k \in Nat, NEW m \in Nat, NEW g, NEW f,
         WalkTo(h, g, k), WalkTo(h, f, m), NEW i \in Nat, i <= k, i <= m
  PROVE  g[i] = f[i]
<1> DEFINE S == {j \in Nat : j <= k /\ j <= m => g[j] = f[j]}
<1>1. /\ g[0] = h.head
      /\ \A j \in 1..k : g[j] = IF g[j - 1] = Nil THEN Nil ELSE h.next[g[j - 1]]
  BY WalkToAt
<1>2. /\ f[0] = h.head
      /\ \A j \in 1..m : f[j] = IF f[j - 1] = Nil THEN Nil ELSE h.next[f[j - 1]]
  BY WalkToAt
<1>3. 0 \in S
  BY <1>1, <1>2
<1>4. ASSUME NEW n \in Nat, n \in S PROVE n + 1 \in S
  <2> SUFFICES ASSUME n + 1 <= k, n + 1 <= m PROVE g[n + 1] = f[n + 1]
    OBVIOUS
  <2>1. n + 1 \in 1..k /\ n + 1 \in 1..m /\ (n + 1) - 1 = n
    OBVIOUS
  <2>2. g[n] = f[n]
    BY <1>4
  <2> QED BY <1>1, <1>2, <2>1, <2>2
<1>5. \A n \in Nat : n \in S
  <2> HIDE DEF S
  <2> QED BY <1>3, <1>4, SetInduction
<1> QED BY <1>5

(* A walk starts at the head and follows the link of where it is.           *)
LEMMA WalkIs ==
  ASSUME NEW h
  PROVE  /\ Walk(h, 0) = h.head
         /\ \A k \in Nat :
              Walk(h, k + 1) = IF Walk(h, k) = Nil THEN Nil ELSE h.next[Walk(h, k)]
<1> DEFINE G(k) == CHOOSE g : WalkTo(h, g, k)
<1>1. \A k \in Nat : WalkTo(h, G(k), k)
  BY WalkToExists, Zenon
<1>2. \A k : Walk(h, k) = G(k)[k]
  BY DEF Walk, WalkTo
<1> HIDE DEF G
<1>3. G(0)[0] = h.head
  BY <1>1, WalkToAt
<1>4. ASSUME NEW k \in Nat
      PROVE  G(k + 1)[k + 1] = IF G(k)[k] = Nil THEN Nil ELSE h.next[G(k)[k]]
  <2>1. WalkTo(h, G(k + 1), k + 1) /\ WalkTo(h, G(k), k)
    BY <1>1
  <2>2. G(k + 1)[k] = G(k)[k]
    BY <2>1, WalkToAgree
  <2>3. k + 1 \in 1..(k + 1) /\ (k + 1) - 1 = k
    OBVIOUS
  <2> QED BY <2>1, <2>2, <2>3, WalkToAt
<1> QED BY <1>2, <1>3, <1>4

Heap == [head : Nodes \cup {Nil}, count : Nat, next : [Nodes -> Nodes \cup {Nil}],
         used : [Nodes -> BOOLEAN], owned : SUBSET Nodes]

(* p is the chain of h: its n blocks in their order, none of them twice.    *)
Linked(h, n, p) ==
  /\ p \in [1..n -> Nodes]
  /\ h.head = IF n = 0 THEN Nil ELSE p[1]
  /\ \A i \in 1..n : h.next[p[i]] = IF i < n THEN p[i + 1] ELSE Nil
  /\ \A i, j \in 1..n : p[i] = p[j] => i = j

OnPath(n, p) == {p[i] : i \in 1..n}

LEMMA NodesAre == Nodes \subseteq Nat /\ Nil \notin Nodes /\ IsFiniteSet(Nodes) /\ Nodes # {}
                  /\ Cardinality(Nodes) \in Nat
  BY FreeListAssumption, FS_CardinalityType DEF Nil

LEMMA PathWalk ==
  ASSUME NEW h, NEW n \in Nat, NEW p, Linked(h, n, p), NEW k \in Nat
  PROVE  Walk(h, k) = IF k < n THEN p[k + 1] ELSE Nil
<1> DEFINE S == {m \in Nat : Walk(h, m) = IF m < n THEN p[m + 1] ELSE Nil}
<1>1. 0 \in S
  BY WalkIs DEF Linked
<1>2. ASSUME NEW m \in Nat, m \in S PROVE m + 1 \in S
  <2>1. Walk(h, m + 1) = IF Walk(h, m) = Nil THEN Nil ELSE h.next[Walk(h, m)]
    BY WalkIs
  <2>2. Walk(h, m) = IF m < n THEN p[m + 1] ELSE Nil
    BY <1>2
  <2>3. CASE m < n
    <3>1. m + 1 \in 1..n /\ p[m + 1] \in Nodes /\ p[m + 1] # Nil
      BY <2>3, NodesAre DEF Linked
    <3>2. h.next[p[m + 1]] = IF m + 1 < n THEN p[m + 1 + 1] ELSE Nil
      BY <3>1 DEF Linked
    <3> QED BY <2>1, <2>2, <2>3, <3>1, <3>2
  <2>4. CASE ~(m < n)
    BY <2>1, <2>2, <2>4
  <2> QED BY <2>3, <2>4
<1>3. \A m \in Nat : m \in S
  <2> HIDE DEF S
  <2> QED BY <1>1, <1>2, SetInduction
<1> QED BY <1>3

LEMMA PathSize ==
  ASSUME NEW h, NEW n \in Nat, NEW p, Linked(h, n, p)
  PROVE  /\ OnPath(n, p) \subseteq Nodes
         /\ Cardinality(OnPath(n, p)) = n /\ n <= Cardinality(Nodes)
<1>1. OnPath(n, p) \subseteq Nodes
  BY DEF OnPath, Linked
<1>2. p \in Bijection(1..n, OnPath(n, p))
  <2>1. p \in [1..n -> OnPath(n, p)]
    BY DEF Linked, OnPath
  <2>2. \A t \in OnPath(n, p) : \E s \in 1..n : p[s] = t
    BY DEF OnPath
  <2>3. p \in Surjection(1..n, OnPath(n, p))
    BY <2>1, <2>2 DEF Surjection
  <2>4. p \in Injection(1..n, OnPath(n, p))
    BY <2>1 DEF Linked, Injection, IsInjective
  <2> QED BY <2>3, <2>4 DEF Bijection
<1>4. Cardinality(OnPath(n, p)) = n
  BY <1>2, FS_CountingElements DEF ExistsBijection
<1> QED BY <1>1, <1>4, NodesAre, FS_Subset

(* A walk that is long enough meets the blocks of the chain.                *)
LEMMA PathWithin ==
  ASSUME NEW h, NEW n \in Nat, NEW p, Linked(h, n, p), NEW m \in Nat, n <= m + 1
  PROVE  Within(h, m) = OnPath(n, p)
<1>1. \A k \in 0..m : Walk(h, k) = IF k < n THEN p[k + 1] ELSE Nil
  BY PathWalk
<1>2. ASSUME NEW b \in Within(h, m) PROVE b \in OnPath(n, p)
  <2>1. PICK k \in 0..m : b = Walk(h, k) /\ b # Nil
    BY <1>2 DEF Within
  <2>2. k < n /\ b = p[k + 1] /\ k + 1 \in 1..n
    BY <1>1, <2>1
  <2> QED BY <2>2 DEF OnPath
<1>3. ASSUME NEW b \in OnPath(n, p) PROVE b \in Within(h, m)
  <2>1. PICK i \in 1..n : b = p[i]
    BY <1>3 DEF OnPath
  <2>2. b # Nil
    BY <2>1, NodesAre DEF Linked
  <2>3. i - 1 \in 0..m /\ i - 1 < n /\ (i - 1) + 1 = i
    BY <2>1
  <2>4. Walk(h, i - 1) = b
    BY <1>1, <2>1, <2>3
  <2> QED BY <2>2, <2>3, <2>4 DEF Within
<1> QED BY <1>2, <1>3

LEMMA PathChain ==
  ASSUME NEW h, NEW n \in Nat, NEW p, Linked(h, n, p)
  PROVE  Chain(h) = OnPath(n, p) /\ Length(h) = n
<1>1. n <= Cardinality(Nodes) + 1
  BY PathSize, NodesAre
<1>2. Chain(h) = OnPath(n, p)
  BY <1>1, PathWithin, NodesAre DEF Chain
<1> QED BY <1>2, PathSize DEF Length

(* The walk stays where it is typed, and once it has ended it has ended.    *)
LEMMA WalkTyped ==
  ASSUME NEW h \in Heap, NEW k \in Nat
  PROVE  Walk(h, k) \in Nodes \cup {Nil}
<1> DEFINE S == {m \in Nat : Walk(h, m) \in Nodes \cup {Nil}}
<1>1. 0 \in S
  BY WalkIs DEF Heap
<1>2. ASSUME NEW m \in Nat, m \in S PROVE m + 1 \in S
  <2>1. Walk(h, m) \in Nodes \cup {Nil}
    BY <1>2
  <2>2. Walk(h, m) # Nil => h.next[Walk(h, m)] \in Nodes \cup {Nil}
    BY <2>1 DEF Heap
  <2>3. Walk(h, m + 1) \in Nodes \cup {Nil}
    BY <2>2, WalkIs
  <2> QED BY <2>3
<1>3. \A m \in Nat : m \in S
  <2> HIDE DEF S
  <2> QED BY <1>1, <1>2, SetInduction
<1> QED BY <1>3

(* From one block on a walk goes where it went from there before.           *)
LEMMA WalkRepeats ==
  ASSUME NEW h, NEW i \in Nat, NEW j \in Nat, Walk(h, i) = Walk(h, j), NEW t \in Nat
  PROVE  Walk(h, i + t) = Walk(h, j + t)
<1> DEFINE S == {m \in Nat : Walk(h, i + m) = Walk(h, j + m)}
<1>1. 0 \in S
  OBVIOUS
<1>2. ASSUME NEW m \in Nat, m \in S PROVE m + 1 \in S
  <2>1. i + m \in Nat /\ j + m \in Nat
    OBVIOUS
  <2>2. i + (m + 1) = (i + m) + 1 /\ j + (m + 1) = (j + m) + 1
    OBVIOUS
  <2>3. /\ Walk(h, (i + m) + 1) =
             IF Walk(h, i + m) = Nil THEN Nil ELSE h.next[Walk(h, i + m)]
        /\ Walk(h, (j + m) + 1) =
             IF Walk(h, j + m) = Nil THEN Nil ELSE h.next[Walk(h, j + m)]
    BY <2>1, WalkIs
  <2>4. Walk(h, i + m) = Walk(h, j + m)
    BY <1>2
  <2>5. Walk(h, i + (m + 1)) = Walk(h, j + (m + 1))
    BY <2>2, <2>3, <2>4, Zenon
  <2> QED BY <2>5
<1>3. \A m \in Nat : m \in S
  <2> HIDE DEF S
  <2> QED BY <1>1, <1>2, SetInduction
<1> QED BY <1>3

(* A walk that ends is a chain.                                             *)
LEMMA EndedPath ==
  ASSUME NEW h \in Heap, NEW m \in Nat, Walk(h, m) = Nil
  PROVE  \E n \in 0..m : \E p : Linked(h, n, p)
<1> DEFINE S == {k \in Nat : Walk(h, k) = Nil}
<1>1. PICK n \in S : \A k \in S : n <= k
  BY LeastNatural
<1>2. n \in Nat /\ Walk(h, n) = Nil /\ n <= m
  BY <1>1
<1>3. \A k \in Nat : k < n => Walk(h, k) # Nil
  BY <1>1
<1> HIDE DEF S
<1> DEFINE p == [i \in 1..n |-> Walk(h, i - 1)]
<1>4. \A i \in 1..n : i - 1 \in Nat /\ i - 1 < n /\ p[i] = Walk(h, i - 1)
  BY <1>2
<1>5. p \in [1..n -> Nodes]
  <2>1. \A i \in 1..n : Walk(h, i - 1) \in Nodes
    BY <1>3, <1>4, WalkTyped
  <2> QED BY <2>1
<1>6. h.head = IF n = 0 THEN Nil ELSE p[1]
  <2>1. n # 0 => 1 \in 1..n
    BY <1>2
  <2> HIDE DEF p
  <2>2. 1 - 1 = 0
    OBVIOUS
  <2>3. n # 0 => p[1] = Walk(h, 0)
    BY <1>4, <2>1, <2>2
  <2>4. Walk(h, 0) = h.head
    BY WalkIs
  <2>5. n = 0 => h.head = Nil
    BY <1>2, <2>4
  <2> QED BY <2>3, <2>4, <2>5
<1>7. ASSUME NEW i \in 1..n PROVE h.next[p[i]] = IF i < n THEN p[i + 1] ELSE Nil
  <2>1. Walk(h, i) = h.next[Walk(h, i - 1)]
    <3>1. i - 1 \in Nat /\ (i - 1) + 1 = i /\ Walk(h, i - 1) # Nil
      BY <1>2, <1>3
    <3> QED BY <3>1, WalkIs
  <2>2. CASE i < n
    <3>1. i + 1 \in 1..n /\ (i + 1) - 1 = i
      BY <1>2, <2>2
    <3> QED BY <1>4, <2>1, <2>2, <3>1
  <2>3. CASE ~(i < n)
    <3>1. i = n
      BY <1>2, <2>3
    <3> QED BY <1>2, <1>4, <2>1, <3>1
  <2> QED BY <2>2, <2>3
<1>8. ASSUME NEW i \in 1..n, NEW j \in 1..n, i < j, p[i] = p[j] PROVE FALSE
  <2>0. PICK t \in Nat : t = n - (j - 1)
    BY <1>2
  <2>1. /\ i - 1 \in Nat /\ j - 1 \in Nat /\ (j - 1) + t = n /\ (i - 1) + t < n
        /\ (i - 1) + t \in Nat
    BY <1>2, <1>8, <2>0
  <2>2. Walk(h, i - 1) = Walk(h, j - 1)
    BY <1>4, <1>8
  <2>3. Walk(h, (i - 1) + t) = Walk(h, (j - 1) + t)
    BY <2>1, <2>2, WalkRepeats
  <2> QED BY <1>2, <1>3, <2>1, <2>3
<1> HIDE DEF p
<1>9. \A i, j \in 1..n : p[i] = p[j] => i = j
  <2> SUFFICES ASSUME NEW i \in 1..n, NEW j \in 1..n, p[i] = p[j] PROVE i = j
    OBVIOUS
  <2>1. i < j \/ j < i \/ i = j
    BY <1>2
  <2> QED BY <1>8, <2>1
<1>10. Linked(h, n, p)
  BY <1>5, <1>6, <1>7, <1>9 DEF Linked
<1> QED BY <1>2, <1>10

(* A chain of free blocks, counted right.                                   *)
Good(h) ==
  \E n \in Nat : \E p : /\ Linked(h, n, p) /\ h.count = n
                        /\ \A i \in 1..n : ~h.used[p[i]]

LEMMA ChainTyped ==
  ASSUME NEW h \in Heap
  PROVE  Chain(h) \subseteq Nodes /\ Length(h) \in Nat
<1>1. Chain(h) \subseteq Nodes
  BY WalkTyped, NodesAre DEF Chain, Within
<1> QED BY <1>1, NodesAre, FS_Subset, FS_CardinalityType DEF Length

LEMMA GoodChain ==
  ASSUME NEW h, Good(h)
  PROVE  /\ EndsWithin(h, Cardinality(Nodes)) /\ h.count = Length(h)
         /\ \A b \in Chain(h) : ~h.used[b]
<1>1. PICK n \in Nat : \E p : /\ Linked(h, n, p) /\ h.count = n
                              /\ \A i \in 1..n : ~h.used[p[i]]
  BY DEF Good
<1>2. PICK p : /\ Linked(h, n, p) /\ h.count = n
               /\ \A i \in 1..n : ~h.used[p[i]]
  BY <1>1
<1>3. n <= Cardinality(Nodes) /\ Chain(h) = OnPath(n, p) /\ Length(h) = n
  BY <1>2, PathSize, PathChain
<1>4. Walk(h, Cardinality(Nodes)) = Nil
  BY <1>2, <1>3, PathWalk, NodesAre
<1>5. \A b \in Chain(h) : ~h.used[b]
  BY <1>2, <1>3 DEF OnPath
<1> QED BY <1>2, <1>3, <1>4, <1>5 DEF EndsWithin, Chain

(* A walk that ends within a bound is the chain; nothing but its count can  *)
(* then be wrong with it.                                                   *)
LEMMA EndsIsGood ==
  ASSUME NEW h \in Heap, NEW m \in Nat, EndsWithin(h, m)
  PROVE  Good([h EXCEPT !.count = Length(h)])
<1> DEFINE g == [h EXCEPT !.count = Length(h)]
<1>1. PICK n \in 0..m : \E p : Linked(h, n, p)
  BY EndedPath DEF EndsWithin
<1>2. PICK p : Linked(h, n, p)
  BY <1>1
<1>3. Within(h, m) = OnPath(n, p) /\ Length(h) = n
  BY <1>1, <1>2, PathWithin, PathChain
<1>4. \A i \in 1..n : ~h.used[p[i]]
  BY <1>3 DEF EndsWithin, OnPath
<1>5. g.head = h.head /\ g.next = h.next /\ g.used = h.used /\ g.count = n
  BY <1>3 DEF Heap
<1> HIDE DEF g
<1>6. Linked(g, n, p)
  BY <1>2, <1>5 DEF Linked
<1>7. n \in Nat
  BY <1>1
<1>8. Good(g)
  BY <1>4, <1>5, <1>6, <1>7 DEF Good
<1> QED BY <1>8 DEF g

LEMMA HealedIs ==
  ASSUME NEW h \in Heap
  PROVE  /\ Healed(h) \in Heap
         /\ Walkable(h) => Good(Healed(h))
         /\ Healed(h).used = h.used /\ Healed(h).owned = h.owned
<1>1. Length(h) \in Nat
  BY ChainTyped
<1>2. /\ Healed(h) \in Heap /\ Healed(h).used = h.used /\ Healed(h).owned = h.owned
  BY <1>1 DEF Healed, Heap
<1>3. Walkable(h) => Good(Healed(h))
  <2>1. h.count + 3 \in Nat
    BY DEF Heap
  <2> QED BY <2>1, EndsIsGood DEF Walkable, Healed
<1> QED BY <1>2, <1>3

LEMMA RepairedIs ==
  ASSUME NEW h \in Heap
  PROVE  /\ Repaired(h) \in Heap
         /\ Good(h) => Good(Repaired(h))
         /\ Repaired(h).used = h.used /\ Repaired(h).owned = h.owned
<1> DEFINE cap == IF h.count < 2 THEN 4 ELSE h.count + 2
           g == [h EXCEPT !.count = Length(h)]
<1>1. Repaired(h) = h \/ (Repaired(h) = g /\ EndsWithin(h, cap + 1))
  BY DEF Repaired
<1>2. cap + 1 \in Nat /\ Length(h) \in Nat
  BY ChainTyped DEF Heap
<1>3. g \in Heap /\ g.used = h.used /\ g.owned = h.owned
  BY <1>2 DEF Heap
<1>4. EndsWithin(h, cap + 1) => Good(g)
  BY <1>2, EndsIsGood
<1> HIDE DEF g, cap
<1> QED BY <1>1, <1>3, <1>4

(* The carve.                                                               *)
LEMMA CarvedIs ==
  ASSUME NEW h \in Heap, NEW b \in Nodes, NEW link \in Nodes \cup {Nil}
  PROVE  /\ Carved(h, b, link) \in Heap
         /\ Carved(h, b, link).used = [h.used EXCEPT ![b] = TRUE]
         /\ Carved(h, b, link).owned = h.owned \cup {b}
         /\ h.count # 0 =>
              /\ Carved(h, b, link).head = IF h.head = b THEN h.next[b] ELSE h.head
              /\ Carved(h, b, link).count = h.count - 1
              /\ \A a \in Nodes : Carved(h, b, link).next[a] =
                   IF a = b THEN link
                   ELSE IF h.head # b /\ a \in Before(h, b) THEN h.next[b] ELSE h.next[a]
<1> DEFINE u == Unlinked(h, b)
           c == Carved(h, b, link)
           passed == [a \in Nodes |-> IF h.head # b /\ a \in Before(h, b) THEN h.next[b]
                                      ELSE h.next[a]]
<1>0. h.head \in Nodes \cup {Nil} /\ h.count \in Nat /\ h.next \in [Nodes -> Nodes \cup {Nil}]
      /\ h.used \in [Nodes -> BOOLEAN] /\ h.owned \subseteq Nodes
  BY DEF Heap
<1>1. passed \in [Nodes -> Nodes \cup {Nil}]
  BY <1>0
<1>2. /\ u \in Heap /\ u.used = h.used /\ u.owned = h.owned
      /\ h.count # 0 =>
           /\ u.head = IF h.head = b THEN h.next[b] ELSE h.head
           /\ u.count = h.count - 1 /\ u.next = passed
  <2>1. CASE h.count = 0
    <3>1. u = h
      BY <2>1 DEF Unlinked
    <3> HIDE DEF u
    <3> QED BY <2>1, <3>1
  <2>2. CASE h.count # 0
    <3>1. u = [h EXCEPT !.head = IF @ = b THEN h.next[b] ELSE @,
                        !.next = passed, !.count = @ - 1]
      BY <2>2 DEF Unlinked
    <3>2. h.next[b] \in Nodes \cup {Nil} /\ h.count - 1 \in Nat
      BY <1>0, <2>2
    <3> HIDE DEF u, passed
    <3> QED BY <1>0, <1>1, <3>1, <3>2 DEF Heap
  <2> QED BY <2>1, <2>2
<1> HIDE DEF u
<1>3. c = [u EXCEPT !.used[b] = TRUE, !.next[b] = link, !.owned = @ \cup {b}]
  BY DEF Carved, u
<1> HIDE DEF c
<1>4. /\ c \in Heap /\ c.used = [u.used EXCEPT ![b] = TRUE] /\ c.owned = u.owned \cup {b}
      /\ c.head = u.head /\ c.count = u.count /\ c.next = [u.next EXCEPT ![b] = link]
  <2> HIDE DEF passed
  <2> QED BY <1>2, <1>3 DEF Heap
<1>5. h.count # 0 =>
        \A a \in Nodes : c.next[a] =
           IF a = b THEN link
           ELSE IF h.head # b /\ a \in Before(h, b) THEN h.next[b] ELSE h.next[a]
  BY <1>1, <1>2, <1>4
<1> HIDE DEF passed
<1>6. /\ c \in Heap /\ c.used = [h.used EXCEPT ![b] = TRUE] /\ c.owned = h.owned \cup {b}
      /\ h.count # 0 => /\ c.head = IF h.head = b THEN h.next[b] ELSE h.head
                        /\ c.count = h.count - 1
  BY <1>2, <1>4
<1> QED BY <1>5, <1>6 DEF c

(* The unlink leaves the rest of the chain in its order.                    *)
LEMMA CarvedGood ==
  ASSUME NEW h \in Heap, Good(h), NEW b \in Chain(h), NEW link \in Nodes \cup {Nil}
  PROVE  Good(Carved(h, b, link))
<1> DEFINE c == Carved(h, b, link)
<1>1. PICK n \in Nat : \E p : /\ Linked(h, n, p) /\ h.count = n
                              /\ \A i \in 1..n : ~h.used[p[i]]
  BY DEF Good
<1>2. PICK p : /\ Linked(h, n, p) /\ h.count = n
               /\ \A i \in 1..n : ~h.used[p[i]]
  BY <1>1
<1>3. Chain(h) = OnPath(n, p)
  BY <1>2, PathChain
<1>4. PICK j \in 1..n : b = p[j]
  BY <1>3 DEF OnPath
<1>5. b \in Nodes /\ h.count # 0 /\ n - 1 \in Nat
  BY <1>2, <1>4 DEF Linked
<1>6. /\ c.head = IF h.head = b THEN h.next[b] ELSE h.head
      /\ c.count = n - 1
      /\ c.used = [h.used EXCEPT ![b] = TRUE]
      /\ \A a \in Nodes : c.next[a] =
           IF a = b THEN link
           ELSE IF h.head # b /\ a \in Before(h, b) THEN h.next[b] ELSE h.next[a]
  BY <1>2, <1>5, CarvedIs
<1> HIDE DEF c
<1>7. /\ p \in [1..n -> Nodes] /\ (h.head = IF n = 0 THEN Nil ELSE p[1])
      /\ \A i \in 1..n : h.next[p[i]] = IF i < n THEN p[i + 1] ELSE Nil
      /\ \A i \in 1..n, k \in 1..n : p[i] = p[k] => i = k
  BY <1>2 DEF Linked
<1>8. /\ h.head = b <=> j = 1
      /\ h.head # b => h.head = p[1]
      /\ h.next[b] = IF j < n THEN p[j + 1] ELSE Nil
  BY <1>4, <1>7
<1>9. \A i \in 1..n : p[i] \in Before(h, b) <=> i + 1 = j
  <2> TAKE i \in 1..n
  <2>1. p[i] \in Before(h, b) <=> h.next[p[i]] = b
    BY <1>3 DEF Before, OnPath
  <2>2. i < n => i + 1 \in 1..n /\ h.next[p[i]] = p[i + 1]
    BY <1>7
  <2>3. ~(i < n) => h.next[p[i]] = Nil /\ i + 1 # j
    BY <1>4, <1>7
  <2>4. b # Nil
    BY <1>5, NodesAre
  <2> QED BY <1>4, <1>7, <2>1, <2>2, <2>3, <2>4
<1> DEFINE q == [i \in 1..(n - 1) |-> IF i < j THEN p[i] ELSE p[i + 1]]
<1>10. \A i \in 1..(n - 1) : /\ i \in 1..n /\ i + 1 \in 1..n
                             /\ i < j => q[i] = p[i]
                             /\ ~(i < j) => q[i] = p[i + 1]
  OBVIOUS
<1>11. q \in [1..(n - 1) -> Nodes]
  BY <1>7, <1>10
<1> HIDE DEF q
<1>12. c.head = IF n - 1 = 0 THEN Nil ELSE q[1]
  <2>1. CASE j = 1
    BY <1>5, <1>6, <1>8, <1>10, <2>1
  <2>2. CASE j # 1
    BY <1>4, <1>5, <1>6, <1>8, <1>10, <2>2
  <2> QED BY <2>1, <2>2
<1>13. ASSUME NEW i \in 1..(n - 1)
       PROVE  /\ q[i] # b /\ ~c.used[q[i]]
              /\ c.next[q[i]] = IF i < n - 1 THEN q[i + 1] ELSE Nil
  <2>1. i < n - 1 => i + 1 \in 1..(n - 1)
    OBVIOUS
  <2>2. PICK k \in 1..n : /\ q[i] = p[k] /\ k # j
                          /\ k = IF i < j THEN i ELSE i + 1
    BY <1>10
  <2>3. q[i] # b /\ q[i] \in Nodes
    BY <1>4, <1>7, <2>2
  <2>4. ~c.used[q[i]]
    BY <1>2, <1>6, <2>2, <2>3 DEF Heap
  <2>5. c.next[q[i]] = IF h.head # b /\ p[k] \in Before(h, b) THEN h.next[b] ELSE h.next[p[k]]
    BY <1>6, <2>2, <2>3
  <2>6. p[k] \in Before(h, b) <=> k + 1 = j
    BY <1>9
  <2>7. h.next[p[k]] = IF k < n THEN p[k + 1] ELSE Nil
    BY <1>7
  <2>8. CASE k + 1 = j
    <3>1. h.head # b /\ c.next[q[i]] = h.next[b] /\ i < j /\ i + 1 = j /\ k = i
      BY <1>8, <2>2, <2>5, <2>6, <2>8
    <3>2. i < n - 1 => q[i + 1] = p[j + 1]
      BY <1>10, <2>1, <3>1
    <3>3. i < n - 1 <=> j < n
      BY <3>1
    <3> QED BY <1>8, <2>3, <2>4, <3>1, <3>2, <3>3
  <2>9. CASE k + 1 # j
    <3>1. c.next[q[i]] = IF k < n THEN p[k + 1] ELSE Nil
      BY <2>5, <2>6, <2>7, <2>9
    <3>2. CASE i < j
      <4>1. k = i /\ i + 1 < j /\ i < n - 1 /\ q[i + 1] = p[i + 1] /\ k < n
        BY <1>10, <2>1, <2>2, <2>9, <3>2
      <4> QED BY <2>3, <2>4, <3>1, <4>1
    <3>3. CASE ~(i < j)
      <4>1. k = i + 1 /\ (k < n <=> i < n - 1)
        BY <2>2, <3>3
      <4>2. i < n - 1 => q[i + 1] = p[i + 1 + 1]
        BY <1>10, <2>1, <3>3
      <4> QED BY <2>3, <2>4, <3>1, <4>1, <4>2
    <3> QED BY <3>2, <3>3
  <2> QED BY <2>8, <2>9
<1>14. ASSUME NEW i \in 1..(n - 1), NEW k \in 1..(n - 1), q[i] = q[k] PROVE i = k
  BY <1>7, <1>10, <1>14
<1>15. Linked(c, n - 1, q)
  BY <1>11, <1>12, <1>13, <1>14 DEF Linked
<1>16. \A i \in 1..(n - 1) : ~c.used[q[i]]
  BY <1>13
<1>17. Good(c)
  BY <1>5, <1>6, <1>15, <1>16, Zenon DEF Good
<1> QED BY <1>17 DEF c

(* The free.                                                                *)
LEMMA ReturnedIs ==
  ASSUME NEW h \in Heap, NEW b \in h.owned
  PROVE  /\ Returned(h, b) \in Heap
         /\ Good(h) => Good(Returned(h, b))
         /\ Returned(h, b).owned = h.owned \ {b}
         /\ \A a \in Nodes : a # b => Returned(h, b).used[a] = h.used[a]
<1> DEFINE g == Returned(h, b)
<1>0. /\ h.head \in Nodes \cup {Nil} /\ h.count \in Nat /\ b \in Nodes /\ h.owned \subseteq Nodes
      /\ h.next \in [Nodes -> Nodes \cup {Nil}] /\ h.used \in [Nodes -> BOOLEAN]
  BY DEF Heap
<1>1. CASE h.used[b]
  <2>1. g = [h EXCEPT !.next[b] = h.head, !.head = b, !.count = @ + 1,
                      !.used[b] = FALSE, !.owned = @ \ {b}]
    BY <1>1 DEF Returned
  <2> HIDE DEF g
  <2>2. /\ g.head = b /\ g.count = h.count + 1 /\ g.next = [h.next EXCEPT ![b] = h.head]
        /\ g.used = [h.used EXCEPT ![b] = FALSE] /\ g.owned = h.owned \ {b}
        /\ g \in [head : {b}, count : {h.count + 1}, next : {[h.next EXCEPT ![b] = h.head]},
                  used : {[h.used EXCEPT ![b] = FALSE]}, owned : {h.owned \ {b}}]
    BY <2>1 DEF Heap
  <2>3. g \in Heap
    <3>1. /\ [h.next EXCEPT ![b] = h.head] \in [Nodes -> Nodes \cup {Nil}]
          /\ [h.used EXCEPT ![b] = FALSE] \in [Nodes -> BOOLEAN]
          /\ h.count + 1 \in Nat /\ h.owned \ {b} \subseteq Nodes
      BY <1>0
    <3> QED BY <1>0, <2>2, <3>1, Zenon DEF Heap
  <2>4. ASSUME Good(h) PROVE Good(g)
    <3>1. PICK n \in Nat : \E p : /\ Linked(h, n, p) /\ h.count = n
                                  /\ \A i \in 1..n : ~h.used[p[i]]
      BY <2>4 DEF Good
    <3>2. PICK p : /\ Linked(h, n, p) /\ h.count = n
                   /\ \A i \in 1..n : ~h.used[p[i]]
      BY <3>1
    <3>3. /\ p \in [1..n -> Nodes] /\ (h.head = IF n = 0 THEN Nil ELSE p[1])
          /\ \A i \in 1..n : h.next[p[i]] = IF i < n THEN p[i + 1] ELSE Nil
          /\ \A i \in 1..n, k \in 1..n : p[i] = p[k] => i = k
      BY <3>2 DEF Linked
    <3> DEFINE q == [i \in 1..(n + 1) |-> IF i = 1 THEN b ELSE p[i - 1]]
    <3>4. \A i \in 1..(n + 1) : \/ i = 1 /\ q[i] = b
                                \/ i # 1 /\ q[i] = p[i - 1] /\ i - 1 \in 1..n
      OBVIOUS
    <3>5. q \in [1..(n + 1) -> Nodes]
      BY <1>0, <3>3, <3>4
    <3> HIDE DEF q
    <3>6. \A i \in 1..n : p[i] # b /\ p[i] \in Nodes
      BY <1>1, <3>2, <3>3
    <3>7. n + 1 # 0 /\ n + 1 \in Nat /\ 1 \in 1..(n + 1) /\ q[1] = b
      BY <3>4
    <3>8. ASSUME NEW i \in 1..(n + 1)
          PROVE  ~g.used[q[i]] /\ g.next[q[i]] = IF i < n + 1 THEN q[i + 1] ELSE Nil
      <4>1. i < n + 1 => i + 1 \in 1..(n + 1) /\ i + 1 # 1 /\ q[i + 1] = p[i] /\ i \in 1..n
        <5>1. i < n + 1 => i + 1 \in 1..(n + 1) /\ i + 1 # 1 /\ (i + 1) - 1 = i /\ i \in 1..n
          OBVIOUS
        <5> QED BY <3>4, <5>1
      <4>2. CASE i = 1
        <5>1. q[i] = b /\ g.next[b] = h.head /\ ~g.used[b]
          BY <1>0, <2>2, <3>7, <4>2
        <5>2. n = 0 <=> ~(i < n + 1)
          BY <4>2
        <5> QED BY <3>3, <4>1, <4>2, <5>1, <5>2
      <4>3. CASE i # 1
        <5>1. q[i] = p[i - 1] /\ i - 1 \in 1..n
          BY <3>4, <4>3
        <5>2. /\ g.next[p[i - 1]] = h.next[p[i - 1]] /\ ~g.used[p[i - 1]]
          BY <1>0, <2>2, <3>2, <3>6, <5>1
        <5>3. h.next[p[i - 1]] = IF i - 1 < n THEN p[(i - 1) + 1] ELSE Nil
          BY <3>3, <5>1
        <5>4. (i - 1 < n <=> i < n + 1) /\ (i - 1) + 1 = i
          OBVIOUS
        <5> QED BY <4>1, <5>1, <5>2, <5>3, <5>4
      <4> QED BY <4>2, <4>3
    <3>9. ASSUME NEW i \in 1..(n + 1), NEW k \in 1..(n + 1), q[i] = q[k] PROVE i = k
      BY <3>3, <3>4, <3>6, <3>9
    <3>10. Linked(g, n + 1, q)
      BY <2>2, <3>5, <3>7, <3>8, <3>9 DEF Linked
    <3>11. \A i \in 1..(n + 1) : ~g.used[q[i]]
      BY <3>8
    <3>12. g.count = n + 1
      BY <2>2, <3>2
    <3> QED BY <3>7, <3>10, <3>11, <3>12, Zenon DEF Good
  <2>5. \A a \in Nodes : a # b => g.used[a] = h.used[a]
    BY <1>0, <2>2
  <2> QED BY <2>2, <2>3, <2>4, <2>5 DEF g
<1>2. CASE ~h.used[b]
  <2>1. g = [h EXCEPT !.owned = @ \ {b}]
    BY <1>2 DEF Returned
  <2> HIDE DEF g
  <2>2. /\ g.head = h.head /\ g.count = h.count /\ g.next = h.next /\ g.used = h.used
        /\ g.owned = h.owned \ {b} /\ g \in Heap
    BY <2>1 DEF Heap
  <2>3. Good(h) => Good(g)
    BY <2>2 DEF Good, Linked
  <2> QED BY <2>2, <2>3 DEF g
<1> QED BY <1>1, <1>2

(* A splice keeps a good chain good, and a block the game owns in use.      *)
LEMMA SplicedIs ==
  ASSUME NEW h \in Heap, NEW g \in Spliced(h)
  PROVE  /\ g \in Heap
         /\ Good(h) => Good(g)
         /\ (\A a \in h.owned : h.used[a]) => \A a \in g.owned : g.used[a]
<1>1. CASE \E b \in Chain(h), link \in {Nil} \cup {b \in Nodes : h.used[b]} :
             g = Carved(h, b, link)
  <2>1. PICK b \in Chain(h), link \in {Nil} \cup {a \in Nodes : h.used[a]} :
          g = Carved(h, b, link)
    BY <1>1
  <2>2. b \in Nodes /\ link \in Nodes \cup {Nil}
    BY <2>1, ChainTyped
  <2>3. /\ g \in Heap /\ g.used = [h.used EXCEPT ![b] = TRUE] /\ g.owned = h.owned \cup {b}
    BY <2>1, <2>2, CarvedIs
  <2>4. Good(h) => Good(g)
    BY <2>1, <2>2, CarvedGood
  <2> QED BY <2>2, <2>3, <2>4 DEF Heap
<1>2. CASE \E b \in h.owned : g = Returned(h, b)
  <2>1. PICK b \in h.owned : g = Returned(h, b)
    BY <1>2
  <2>2. /\ g \in Heap /\ (Good(h) => Good(g)) /\ g.owned = h.owned \ {b}
        /\ \A a \in Nodes : a # b => g.used[a] = h.used[a]
    BY <2>1, ReturnedIs
  <2>3. h.owned \subseteq Nodes
    BY DEF Heap
  <2> QED BY <2>2, <2>3
<1> QED BY <1>1, <1>2 DEF Spliced

LEMMA MinIs ==
  ASSUME NEW S \in SUBSET Nat, S # {}
  PROVE  Min(S) \in S /\ \A x \in S : Min(S) <= x
<1>1. PICK n \in S : \A m \in S : n <= m
  BY LeastNatural
<1> QED BY <1>1 DEF Min

LEMMA GreatestBelow ==
  ASSUME NEW n \in Nat, NEW S \in SUBSET (0..n), S # {}
  PROVE  \E m \in S : \A x \in S : x <= m
<1> DEFINE T == {n - x : x \in S}
<1>1. \A x \in S : x \in Int /\ n - x \in Nat /\ n - x \in T
  OBVIOUS
<1>2. PICK t \in T : \A m \in T : t <= m
  BY <1>1, LeastNatural
<1>3. PICK y \in S : t = n - y
  BY <1>2
<1>4. \A x \in S : n - y <= n - x
  <2> HIDE DEF T
  <2> QED BY <1>1, <1>2, <1>3
<1> QED BY <1>1, <1>4

LEMMA FiniteBounded ==
  ASSUME NEW S \in SUBSET Nat, IsFiniteSet(S)
  PROVE  \E m \in Nat : \A x \in S : x <= m
<1>1. PICK n \in Nat : \E f : f \in Surjection(1..n, S)
  BY FS_NatSurjection DEF ExistsSurjection
<1>2. PICK f : f \in Surjection(1..n, S)
  BY <1>1
<1>3. f \in [1..n -> S] /\ \A x \in S : \E i \in 1..n : f[i] = x
  BY <1>2 DEF Surjection
<1> DEFINE T == {k \in Nat : k <= n => \E m \in Nat : \A i \in 1..k : f[i] <= m}
<1>4. 0 \in T
  <2>1. \A i \in 1..0 : f[i] <= 0
    OBVIOUS
  <2> QED BY <2>1
<1>5. ASSUME NEW k \in Nat, k \in T PROVE k + 1 \in T
  <2> SUFFICES ASSUME k + 1 <= n PROVE \E m \in Nat : \A i \in 1..(k + 1) : f[i] <= m
    OBVIOUS
  <2>1. PICK m \in Nat : \A i \in 1..k : f[i] <= m
    BY <1>5
  <2>2. f[k + 1] \in Nat /\ \A i \in 1..k : f[i] \in Nat
    <3>1. k + 1 \in 1..n /\ \A i \in 1..k : i \in 1..n
      OBVIOUS
    <3> QED BY <1>3, <3>1
  <2>3. PICK c \in Nat : c >= m /\ c >= f[k + 1]
    BY <2>2
  <2>4. \A i \in 1..(k + 1) : f[i] <= c
    <3> TAKE i \in 1..(k + 1)
    <3>1. i \in 1..k \/ i = k + 1
      OBVIOUS
    <3> QED BY <2>1, <2>2, <2>3, <3>1
  <2> QED BY <2>4
<1>6. \A k \in Nat : k \in T
  <2> HIDE DEF T
  <2> QED BY <1>4, <1>5, SetInduction
<1>7. PICK m \in Nat : \A i \in 1..n : f[i] <= m
  <2>1. n \in T
    BY <1>6
  <2> QED BY <2>1
<1> QED BY <1>3, <1>7

(* The blocks of T linked in the order of their addresses.                  *)
Ascending(h, T) ==
  LET following(b) == {c \in T : c > b}
  IN /\ h.head = IF T = {} THEN Nil ELSE Min(T)
     /\ \A b \in T : h.next[b] = IF following(b) = {} THEN Nil ELSE Min(following(b))

LEMMA AscendingGood ==
  ASSUME NEW h \in Heap, NEW T \in SUBSET Nodes, Ascending(h, T),
         h.count = Cardinality(T), \A b \in T : ~h.used[b]
  PROVE  Good(h)
<1>1. /\ T \subseteq Nat /\ IsFiniteSet(T) /\ \A b \in T : b \in Nat /\ b > 0 /\ b # Nil
  <2>1. T \subseteq Nat \ {0} /\ IsFiniteSet(T)
    BY FreeListAssumption, FS_Subset
  <2> QED BY <2>1 DEF Nil
<1>2. PICK M \in Nat : \A x \in T : x <= M
  BY <1>1, FiniteBounded
<1>3. T # {} => h.head = Min(T) /\ Min(T) \in T /\ \A x \in T : Min(T) <= x
  BY <1>1, MinIs DEF Ascending
<1>4. T = {} => h.head = Nil
  BY DEF Ascending
<1> DEFINE above(b) == {c \in T : c > b}
<1>5. \A b \in T : /\ above(b) = {} => h.next[b] = Nil
                   /\ above(b) # {} => /\ h.next[b] \in T /\ h.next[b] > b
                                       /\ \A x \in above(b) : h.next[b] <= x
  <2> TAKE b \in T
  <2>1. h.next[b] = IF above(b) = {} THEN Nil ELSE Min(above(b))
    BY DEF Ascending
  <2>2. above(b) # {} => Min(above(b)) \in above(b) /\ \A x \in above(b) : Min(above(b)) <= x
    BY <1>1, MinIs
  <2> QED BY <2>1, <2>2
<1> DEFINE S == {k \in Nat : Walk(h, k) # Nil => Walk(h, k) \in T /\ Walk(h, k) > k}
<1>6. 0 \in S
  <2>1. Walk(h, 0) = h.head
    BY WalkIs
  <2>2. T # {} => h.head \in T /\ h.head > 0
    BY <1>1, <1>3
  <2> QED BY <1>4, <2>1, <2>2
<1>7. ASSUME NEW k \in Nat, k \in S PROVE k + 1 \in S
  <2> SUFFICES ASSUME Walk(h, k + 1) # Nil PROVE Walk(h, k + 1) \in T /\ Walk(h, k + 1) > k + 1
    OBVIOUS
  <2>1. Walk(h, k) # Nil /\ Walk(h, k + 1) = h.next[Walk(h, k)]
    BY WalkIs
  <2>2. Walk(h, k) \in T /\ Walk(h, k) > k
    BY <1>7, <2>1
  <2>3. h.next[Walk(h, k)] \in T /\ h.next[Walk(h, k)] > Walk(h, k)
    BY <1>5, <2>1, <2>2
  <2>4. h.next[Walk(h, k)] \in Nat /\ Walk(h, k) \in Nat
    BY <1>1, <2>2, <2>3
  <2>5. h.next[Walk(h, k)] > k + 1
    BY <2>2, <2>3, <2>4
  <2> QED BY <2>1, <2>3, <2>5
<1>8. \A k \in Nat : Walk(h, k) # Nil => Walk(h, k) \in T /\ Walk(h, k) > k
  <2>1. \A k \in Nat : k \in S
    <3> HIDE DEF S
    <3> QED BY <1>6, <1>7, SetInduction
  <2> QED BY <2>1
<1> HIDE DEF S
<1>9. Walk(h, M) = Nil
  <2>1. Walk(h, M) # Nil => Walk(h, M) \in Nat /\ Walk(h, M) <= M /\ Walk(h, M) > M
    BY <1>1, <1>2, <1>8
  <2> QED BY <2>1
<1>10. PICK n \in 0..M : \E p : Linked(h, n, p)
  BY <1>9, EndedPath
<1>11. PICK p : Linked(h, n, p)
  BY <1>10
<1>12. n \in Nat /\ n <= M + 1
  BY <1>10
<1>13. OnPath(n, p) \subseteq T
  <2>1. Within(h, M) = OnPath(n, p)
    BY <1>11, <1>12, PathWithin
  <2> QED BY <1>8, <2>1 DEF Within
<1>14. ASSUME NEW b \in T, b \notin OnPath(n, p), \A x \in T : x \notin OnPath(n, p) => b <= x
       PROVE  FALSE
  <2> DEFINE C == {c \in T : c < b}
  <2>1. b \in Nat /\ b > 0 /\ b # Nil
    BY <1>1
  <2>2. CASE C = {}
    <3>1. \A x \in T : b <= x
      BY <1>1, <2>2
    <3>2. h.head = b
      <4>1. h.head \in T /\ h.head <= b /\ b <= h.head
        BY <1>3, <3>1
      <4>2. h.head \in Nat /\ b \in Nat
        BY <1>1, <2>1, <4>1
      <4> QED BY <4>1, <4>2
    <3>3. n # 0 /\ p[1] = b
      BY <1>11, <2>1, <3>2 DEF Linked
    <3> QED BY <1>12, <1>14, <3>3 DEF OnPath
  <2>3. CASE C # {}
    <3>1. C \subseteq 0..b
      <4>1. \A c \in C : c \in Nat /\ c < b
        BY <1>1
      <4> HIDE DEF C
      <4> QED BY <2>1, <4>1
    <3>2. PICK c \in C : \A x \in C : x <= c
      BY <2>1, <2>3, <3>1, GreatestBelow
    <3>3. c \in T /\ c < b /\ c \in Nat
      BY <1>1, <3>2
    <3>4. c \in OnPath(n, p)
      BY <1>14, <2>1, <3>3
    <3>5. b \in above(c)
      BY <2>1, <3>3
    <3>6. /\ h.next[c] \in T /\ h.next[c] > c /\ h.next[c] <= b
      BY <1>5, <3>3, <3>5
    <3>7. h.next[c] = b
      <4>1. h.next[c] \in Nat
        BY <1>1, <3>6
      <4>2. h.next[c] < b => h.next[c] \in C
        BY <3>6
      <4> QED BY <2>1, <3>2, <3>3, <3>6, <4>1, <4>2
    <3>8. PICK i \in 1..n : c = p[i]
      BY <3>4 DEF OnPath
    <3>9. i < n /\ p[i + 1] = b
      BY <1>11, <2>1, <3>7, <3>8 DEF Linked
    <3>10. i + 1 \in 1..n
      BY <1>12, <3>9
    <3> QED BY <1>14, <3>9, <3>10 DEF OnPath
  <2> QED BY <2>2, <2>3
<1>15. T \subseteq OnPath(n, p)
  <2> SUFFICES ASSUME T \ OnPath(n, p) # {} PROVE FALSE
    OBVIOUS
  <2>1. PICK b \in T \ OnPath(n, p) : \A x \in T \ OnPath(n, p) : b <= x
    BY <1>1, LeastNatural
  <2> QED BY <1>14, <2>1
<1>16. OnPath(n, p) = T
  BY <1>13, <1>15
<1>17. h.count = n
  BY <1>11, <1>12, <1>16, PathSize
<1>18. \A i \in 1..n : ~h.used[p[i]]
  BY <1>16 DEF OnPath
<1> QED BY <1>11, <1>12, <1>17, <1>18 DEF Good

(* rebuild_free_list_from_pool makes the chain good, whatever it was.       *)
LEMMA RebuiltIs ==
  ASSUME NEW h \in Heap
  PROVE  /\ Rebuilt(h) \in Heap /\ Good(Rebuilt(h))
         /\ Rebuilt(h).used = h.used /\ Rebuilt(h).owned = h.owned
<1> DEFINE T == {b \in Nodes : ~h.used[b]}
           following(b) == {c \in T : c > b}
           links == [b \in Nodes |-> IF b \notin T THEN h.next[b]
                                     ELSE IF following(b) = {} THEN Nil ELSE Min(following(b))]
           first == IF T = {} THEN Nil ELSE Min(T)
           g == Rebuilt(h)
<1>1. T \subseteq Nodes /\ T \subseteq Nat /\ Cardinality(T) \in Nat
  BY NodesAre, FS_Subset, FS_CardinalityType
<1>2. first \in Nodes \cup {Nil}
  BY <1>1, MinIs
<1>3. links \in [Nodes -> Nodes \cup {Nil}]
  <2>1. \A b \in Nodes : following(b) # {} => Min(following(b)) \in Nodes
    BY <1>1, MinIs
  <2>2. \A b \in Nodes : h.next[b] \in Nodes \cup {Nil}
    BY DEF Heap
  <2> QED BY <2>1, <2>2
<1>4. \A b \in T : links[b] = IF following(b) = {} THEN Nil ELSE Min(following(b))
  BY <1>1
<1>5. g = [h EXCEPT !.head = first, !.count = Cardinality(T), !.next = links]
  BY DEF Rebuilt, Heap
<1>6. ASSUME NEW f, NEW l, NEW n
      PROVE  LET r == [h EXCEPT !.head = f, !.count = n, !.next = l]
             IN  /\ r.head = f /\ r.count = n /\ r.next = l
                 /\ r.used = h.used /\ r.owned = h.owned
                 /\ f \in Nodes \cup {Nil} /\ n \in Nat /\ l \in [Nodes -> Nodes \cup {Nil}]
                      => r \in Heap
  BY DEF Heap
<1>7. /\ g.head = first /\ g.count = Cardinality(T) /\ g.next = links
      /\ g.used = h.used /\ g.owned = h.owned /\ g \in Heap
  <2> HIDE DEF first, links, g, T
  <2>1. LET r == [h EXCEPT !.head = first, !.count = Cardinality(T), !.next = links]
        IN  /\ r.head = first /\ r.count = Cardinality(T) /\ r.next = links
            /\ r.used = h.used /\ r.owned = h.owned
            /\ first \in Nodes \cup {Nil} /\ Cardinality(T) \in Nat /\ links \in [Nodes -> Nodes \cup {Nil}]
                 => r \in Heap
    BY <1>6
  <2> QED BY <1>1, <1>2, <1>3, <1>5, <2>1
<1>8. Ascending(g, T)
  <2> HIDE DEF links, g
  <2> QED BY <1>4, <1>7 DEF Ascending
<1>9. \A b \in T : ~g.used[b]
  BY <1>7
<1> HIDE DEF T, g, links, first
<1>10. Good(g)
  BY <1>1, <1>7, <1>8, <1>9, AscendingGood
<1> QED BY <1>7, <1>10 DEF g

LEMMA AllFreeIs == AllFree \in Heap /\ Good(AllFree)
<1> DEFINE following(b) == {c \in Nodes : c > b}
           links == [b \in Nodes |-> IF following(b) = {} THEN Nil ELSE Min(following(b))]
<1>1. Min(Nodes) \in Nodes
  BY NodesAre, MinIs
<1>2. links \in [Nodes -> Nodes \cup {Nil}]
  <2>1. \A b \in Nodes : following(b) # {} => Min(following(b)) \in Nodes
    BY NodesAre, MinIs
  <2> QED BY <2>1
<1>3. \A b \in Nodes : links[b] = IF following(b) = {} THEN Nil ELSE Min(following(b))
  OBVIOUS
<1>4. AllFree = [head |-> Min(Nodes), count |-> Cardinality(Nodes), next |-> links,
                 used |-> [b \in Nodes |-> FALSE], owned |-> {}]
  BY DEF AllFree
<1> HIDE DEF links
<1>5. AllFree \in Heap
  BY <1>1, <1>2, <1>4, NodesAre DEF Heap
<1>6. Ascending(AllFree, Nodes)
  BY <1>3, <1>4, NodesAre DEF Ascending
<1>7. AllFree.count = Cardinality(Nodes) /\ \A b \in Nodes : ~AllFree.used[b]
  BY <1>4
<1> QED BY <1>5, <1>6, <1>7, AscendingGood

OwnedInUse(h) == \A b \in h.owned : h.used[b]

(* A unit that is valid captured a good chain, with its own descriptor.     *)
UnitOK(u) ==
  /\ u.heap \in Heap /\ u.head \in Nodes \cup {Nil} /\ u.count \in Nat
  /\ u.valid \in BOOLEAN
  /\ u.valid => Good(u.heap) /\ u.head = u.heap.head /\ u.count = u.heap.count
  /\ u.alist => u.valid

ListsOK(h, saved, lost, apart) ==
  /\ h \in Heap /\ lost \in BOOLEAN /\ apart \in BOOLEAN
  /\ \A f \in DOMAIN saved : UnitOK(saved[f])
  /\ ~lost => Good(h)
  /\ ~apart => OwnedInUse(h) /\ \A f \in DOMAIN saved : OwnedInUse(saved[f].heap)

ListInv == ListsOK(heap, units, drifted, unpaired)

LEMMA ListInitially == WorldInit => ListInv
<1> SUFFICES ASSUME WorldInit PROVE ListInv
  OBVIOUS
<1>1. ListInit
  BY DEF WorldInit
<1>2. AllFree \in Heap /\ Good(AllFree) /\ OwnedInUse(AllFree)
  BY AllFreeIs DEF OwnedInUse, AllFree
<1>3. ASSUME NEW b \in Nodes, heap = Carved(AllFree, b, Nil)
      PROVE  heap \in Heap /\ Good(heap) /\ OwnedInUse(heap)
  <2>1. b \in Chain(AllFree)
    <3>1. AllFree.count = Cardinality(Nodes)
      BY DEF AllFree
    <3>2. Cardinality(Chain(AllFree)) = Cardinality(Nodes)
      BY <1>2, <3>1, GoodChain DEF Length
    <3>3. Chain(AllFree) \subseteq Nodes
      BY <1>2, ChainTyped
    <3>4. Chain(AllFree) = Nodes
      BY <3>2, <3>3, NodesAre, FS_Subset
    <3> QED BY <3>4
  <2>2. heap \in Heap /\ heap.used = [AllFree.used EXCEPT ![b] = TRUE]
        /\ heap.owned = AllFree.owned \cup {b}
    BY <1>2, <1>3, CarvedIs
  <2>3. Good(heap)
    BY <1>2, <1>3, <2>1, CarvedGood
  <2> QED BY <1>2, <2>2, <2>3 DEF OwnedInUse, Heap
<1>4. heap \in Heap /\ Good(heap) /\ OwnedInUse(heap)
  BY <1>1, <1>2, <1>3 DEF ListInit
<1>5. drifted = FALSE /\ unpaired = FALSE /\ DOMAIN units = {}
  BY <1>1 DEF ListInit
<1> QED BY <1>4, <1>5, Zenon DEF ListInv, ListsOK

(* The save captures a good chain, or nothing it calls valid.               *)
LEMMA LockedSaveIs ==
  ASSUME NEW h \in Heap, NEW alist \in BOOLEAN
  PROVE  /\ UnitOK(LockedSave(h, alist))
         /\ LockedSave(h, alist).valid = FALSE => LockedSave(h, alist).heap = h
         /\ OwnedInUse(h) => OwnedInUse(LockedSave(h, alist).heap)
<1> DEFINE good == IF Walkable(h) THEN Healed(h) ELSE IF Declines(h) THEN h ELSE Rebuilt(h)
           u == LockedSave(h, alist)
<1>1. /\ good \in Heap /\ good.used = h.used /\ good.owned = h.owned
      /\ Walkable(h) \/ ~Declines(h) => Good(good)
      /\ ~(Walkable(h) \/ ~Declines(h)) => good = h
  BY HealedIs, RebuiltIs
<1>2. /\ u.heap = good /\ u.head = good.head /\ u.count = good.count
      /\ u.valid = (Walkable(h) \/ ~Declines(h)) /\ u.alist = (alist /\ Walkable(h))
  BY DEF LockedSave
<1> HIDE DEF good, u
<1>3. good.head \in Nodes \cup {Nil} /\ good.count \in Nat
  BY <1>1 DEF Heap
<1>4. UnitOK(u)
  BY <1>1, <1>2, <1>3 DEF UnitOK
<1>5. u.valid = FALSE => u.heap = h
  BY <1>1, <1>2
<1>6. OwnedInUse(h) => OwnedInUse(u.heap)
  BY <1>1, <1>2 DEF OwnedInUse
<1> QED BY <1>4, <1>5, <1>6 DEF u

LEMMA SaveKeeps ==
  ASSUME ListInv, NEW unit, Save(unit), UnitOK(unit),
         ~unit.valid => (Good(heap) => Good(unit.heap)),
         OwnedInUse(heap) => OwnedInUse(unit.heap)
  PROVE  ListInv'
<1>1. /\ heap' = unit.heap /\ drifted' = (drifted /\ ~unit.valid) /\ unpaired' = unpaired
      /\ \A f \in DOMAIN units' : units'[f] = unit \/ (f \in DOMAIN units /\ units'[f] = units[f])
  BY DEF Save
<1>2. heap' \in Heap
  BY <1>1 DEF UnitOK
<1>3. drifted' \in BOOLEAN /\ unpaired' \in BOOLEAN
  BY <1>1, Zenon DEF ListInv, ListsOK
<1>4. \A f \in DOMAIN units' : UnitOK(units'[f])
  BY <1>1, Zenon DEF ListInv, ListsOK
<1>5. ~drifted' => Good(heap')
  BY <1>1, Zenon DEF ListInv, ListsOK, UnitOK
<1>6. ~unpaired' => OwnedInUse(heap') /\ \A f \in DOMAIN units' : OwnedInUse(units'[f].heap)
  BY <1>1, Zenon DEF ListInv, ListsOK
<1> QED BY <1>2, <1>3, <1>4, <1>5, <1>6, Zenon DEF ListInv, ListsOK

LEMMA ListFrameKeeps ==
  ASSUME ListInv, ListFrame PROVE ListInv'
<1>1. CASE \E alist \in BOOLEAN : Save(LockedSave(heap, alist))
  <2>1. PICK alist \in BOOLEAN : Save(LockedSave(heap, alist))
    BY <1>1
  <2>2. heap \in Heap
    BY DEF ListInv, ListsOK
  <2>3. LockedSave(heap, alist).valid \in BOOLEAN
    BY <2>2, LockedSaveIs DEF UnitOK
  <2>4. ~LockedSave(heap, alist).valid => LockedSave(heap, alist).heap = heap
    BY <2>2, <2>3, LockedSaveIs
  <2> QED BY <2>1, <2>2, <2>4, LockedSaveIs, SaveKeeps
<1>2. ASSUME NEW later, later \in Heap, Good(heap) => Good(later),
             OwnedInUse(heap) => OwnedInUse(later), Save(TornSave(heap, later))
      PROVE  ListInv'
  <2>1. /\ TornSave(heap, later).heap = later /\ TornSave(heap, later).valid = FALSE
        /\ TornSave(heap, later).alist = FALSE
        /\ TornSave(heap, later).head = heap.head /\ TornSave(heap, later).count = heap.count
    BY DEF TornSave
  <2>2. UnitOK(TornSave(heap, later))
    BY <1>2, <2>1 DEF UnitOK, ListInv, ListsOK, Heap
  <2> QED BY <1>2, <2>1, <2>2, SaveKeeps
<1>3. heap \in Heap
  BY DEF ListInv, ListsOK
<1>4. CASE Save(TornSave(heap, heap))
  BY <1>2, <1>3, <1>4
<1>5. CASE \E later \in Spliced(heap) : Save(TornSave(heap, later))
  <2>1. PICK later \in Spliced(heap) : Save(TornSave(heap, later))
    BY <1>5
  <2>2. later \in Heap /\ (Good(heap) => Good(later))
        /\ (OwnedInUse(heap) => OwnedInUse(later))
    BY <1>3, SplicedIs DEF OwnedInUse
  <2> QED BY <1>2, <2>1, <2>2
<1> QED BY <1>1, <1>4, <1>5 DEF ListFrame

LEMMA ListGameKeeps ==
  ASSUME ListInv, ListGame PROVE ListInv'
<1>1. /\ heap \in Heap /\ units' = units /\ unpaired' = unpaired
  BY DEF ListInv, ListsOK, ListGame
<1>2. CASE heap' \in Spliced(heap) /\ UNCHANGED drifted
  <2>1. heap' \in Heap /\ (Good(heap) => Good(heap'))
        /\ (OwnedInUse(heap) => OwnedInUse(heap'))
    BY <1>1, <1>2, SplicedIs DEF OwnedInUse
  <2>2. drifted' = drifted
    BY <1>2
  <2> QED BY <1>1, <2>1, <2>2, Zenon DEF ListInv, ListsOK
<1>3. CASE heap.count > 0 /\ heap' = [heap EXCEPT !.count = @ - 1] /\ drifted' = TRUE
  <2>1. heap' \in Heap /\ heap'.used = heap.used /\ heap'.owned = heap.owned
    BY <1>1, <1>3 DEF Heap
  <2>2. OwnedInUse(heap) => OwnedInUse(heap')
    BY <2>1 DEF OwnedInUse
  <2>3. drifted' = TRUE
    BY <1>3
  <2> QED BY <1>1, <2>1, <2>2, <2>3, Zenon DEF ListInv, ListsOK
<1> QED BY <1>2, <1>3 DEF ListGame

(* What a rollback makes of a capture: a chain that was captured is whole   *)
(* again, whatever the pages under it have become.                          *)
LEMMA RevertedIs ==
  ASSUME heap \in Heap, NEW u, UnitOK(u), NEW left
  PROVE  /\ Reverted(u, left) \in Heap
         /\ u.valid => Good(Reverted(u, left))
         /\ u.alist /\ OwnedInUse(u.heap) => OwnedInUse(Reverted(u, left))
<1> DEFINE live == left \ Replayed(u)
           h == u.heap
           r == Reverted(u, left)
           links == [b \in Nodes |-> IF b \in live THEN heap.next[b] ELSE h.next[b]]
           bits == [b \in Nodes |-> IF b \in live THEN heap.used[b] ELSE h.used[b]]
<1>1. h \in Heap /\ u.head \in Nodes \cup {Nil} /\ u.count \in Nat
  BY DEF UnitOK
<1>2. links \in [Nodes -> Nodes \cup {Nil}] /\ bits \in [Nodes -> BOOLEAN]
  BY <1>1 DEF Heap
<1>3. \A b \in Nodes : b \notin live => links[b] = h.next[b] /\ bits[b] = h.used[b]
  OBVIOUS
<1>4. r = [h EXCEPT !.head = u.head, !.count = u.count, !.next = links, !.used = bits]
  BY DEF Reverted
<1> HIDE DEF r, links, bits, live
<1>5. /\ r.head = u.head /\ r.count = u.count /\ r.next = links /\ r.used = bits
      /\ r.owned = h.owned /\ r \in Heap
  <2> HIDE DEF h
  <2> QED BY <1>1, <1>2, <1>4 DEF Heap
<1>6. ASSUME u.valid PROVE Good(r)
  <2>1. Good(h) /\ u.head = h.head /\ u.count = h.count
    BY <1>6 DEF UnitOK
  <2> HIDE DEF h
  <2>2. PICK n \in Nat : \E p : /\ Linked(h, n, p) /\ h.count = n
                                /\ \A i \in 1..n : ~h.used[p[i]]
    BY <2>1 DEF Good
  <2>3. PICK p : /\ Linked(h, n, p) /\ h.count = n
                 /\ \A i \in 1..n : ~h.used[p[i]]
    BY <2>2
  <2>4. Chain(h) = OnPath(n, p)
    BY <2>3, PathChain
  <2>5. \A i \in 1..n : p[i] \in Nodes /\ p[i] \notin live
    BY <1>6, <2>3, <2>4 DEF live, h, Replayed, OnPath, Linked
  <2>6. Linked(r, n, p)
    BY <1>3, <1>5, <2>1, <2>3, <2>5 DEF Linked
  <2>7. \A i \in 1..n : ~r.used[p[i]]
    BY <1>3, <1>5, <2>3, <2>5
  <2> QED BY <1>5, <2>1, <2>3, <2>6, <2>7 DEF Good
<1>7. ASSUME u.alist, OwnedInUse(h) PROVE OwnedInUse(r)
  <2>1. u.valid /\ h.owned \subseteq Nodes
    BY <1>1, <1>7 DEF UnitOK, Heap
  <2>2. \A b \in h.owned : h.used[b] /\ b \notin live
    BY <1>7, <2>1 DEF live, Replayed, OwnedInUse
  <2> QED BY <1>3, <1>5, <2>1, <2>2 DEF OwnedInUse
<1> QED BY <1>5, <1>6, <1>7 DEF r

LEMMA ListRollbackKeeps ==
  ASSUME ListInv, NEW target, ListRollback(target) PROVE ListInv'
<1> DEFINE u == units[target]
<1>1. /\ target \in DOMAIN units /\ UnitOK(u) /\ heap \in Heap /\ units' = units
      /\ drifted' = ~u.valid /\ unpaired' = (unpaired \/ ~u.alist)
  BY Zenon DEF ListRollback, ListInv, ListsOK
<1>2. PICK left : heap' = Repaired(Reverted(u, left))
  BY DEF ListRollback
<1> DEFINE r == Reverted(u, left)
<1>3. /\ r \in Heap
      /\ u.valid => Good(r)
      /\ u.alist /\ OwnedInUse(u.heap) => OwnedInUse(r)
  BY <1>1, RevertedIs
<1> HIDE DEF r
<1>4. heap' = Repaired(r)
  BY <1>2 DEF r
<1>5. /\ heap' \in Heap
      /\ Good(r) => Good(heap')
      /\ heap'.used = r.used /\ heap'.owned = r.owned
  BY <1>3, <1>4, RepairedIs
<1>6. OwnedInUse(r) => OwnedInUse(heap')
  BY <1>5 DEF OwnedInUse
<1>7. ~drifted' => Good(heap')
  BY <1>1, <1>3, <1>5, Zenon
<1> HIDE DEF u
<1>8. ~unpaired' => ~unpaired /\ u.alist
  BY <1>1, Zenon
<1>9. ~unpaired => OwnedInUse(u.heap) /\ \A f \in DOMAIN units : OwnedInUse(units[f].heap)
  BY <1>1, Zenon DEF ListInv, ListsOK, u
<1>10. ~unpaired' => OwnedInUse(heap') /\ \A f \in DOMAIN units' : OwnedInUse(units'[f].heap)
  BY <1>1, <1>3, <1>6, <1>8, <1>9, Zenon
<1>11. drifted' \in BOOLEAN /\ unpaired' \in BOOLEAN
  BY <1>1, Zenon
<1>12. \A f \in DOMAIN units' : UnitOK(units'[f])
  BY <1>1, Zenon DEF ListInv, ListsOK
<1> QED BY <1>5, <1>7, <1>10, <1>11, <1>12, Zenon DEF ListInv, ListsOK

LEMMA ListResumeKeeps ==
  ASSUME ListInv, ListResume PROVE ListInv'
<1>1. heap' = Repaired(heap) /\ units' = units /\ drifted' = drifted /\ unpaired' = unpaired
  BY DEF ListResume
<1>2. heap \in Heap
  BY DEF ListInv, ListsOK
<1>3. /\ heap' \in Heap
      /\ Good(heap) => Good(heap')
      /\ heap'.used = heap.used /\ heap'.owned = heap.owned
  BY <1>1, <1>2, RepairedIs
<1>4. OwnedInUse(heap) => OwnedInUse(heap')
  BY <1>3 DEF OwnedInUse
<1> QED BY <1>1, <1>3, <1>4, Zenon DEF ListInv, ListsOK

LEMMA ListSwitchKeeps ==
  ASSUME ListInv, ListSwitch PROVE ListInv'
<1>1. heap' = heap /\ DOMAIN units' = {} /\ drifted' = drifted /\ unpaired' = unpaired
  BY DEF ListSwitch
<1> QED BY <1>1, Zenon DEF ListInv, ListsOK

(* What a step does to the free lists.                                      *)
LEMMA ListsFollowed ==
  ASSUME [WorldNext]_worldVars
  PROVE  \/ ListGame \/ ListFrame \/ ListResume \/ ListSwitch \/ UNCHANGED listVars
         \/ \E target \in Nat : ListRollback(target)
<1>1. CASE UNCHANGED worldVars
  BY <1>1 DEF worldVars
<1>2. CASE Game
  BY <1>2 DEF Game, Lists
<1>3. CASE ArmWorld
  BY <1>3 DEF ArmWorld, Lists
<1>4. CASE DisarmWorld
  BY <1>4 DEF DisarmWorld, Lists
<1>5. CASE NextFrame
  BY <1>5 DEF NextFrame, Lists
<1>6. CASE ReplayedFrame
  BY <1>6 DEF ReplayedFrame, Lists
<1>7. CASE \E target \in (frame - MaxDepth)..(frame - 1) : GoBack(target)
  BY <1>7 DEF GoBack, Rollback, Lists
<1> QED BY <1>1, <1>2, <1>3, <1>4, <1>5, <1>6, <1>7 DEF WorldNext

LEMMA ListsKept == ASSUME ListInv, [WorldNext]_worldVars PROVE ListInv'
<1>1. CASE UNCHANGED listVars
  <2>1. heap' = heap /\ units' = units /\ drifted' = drifted /\ unpaired' = unpaired
    BY <1>1 DEF listVars
  <2> QED BY <2>1, Zenon DEF ListInv
<1>2. CASE \E target \in Nat : ListRollback(target)
  BY <1>2, ListRollbackKeeps
<1> QED BY <1>1, <1>2, ListsFollowed, ListGameKeeps, ListFrameKeeps, ListResumeKeeps,
           ListSwitchKeeps

(* THEOREM.  Unless the engine lost a count or a rollback had no unit since *)
(* the last good save, the chain of free blocks ends, no block of it is in  *)
(* use, and the count is its length, for any number of blocks and whatever  *)
(* is carved, freed, saved, rebuilt, reverted over torn pages and repaired  *)
(* (save_freelists, restore_freelists, repair_freelists of resim.cpp).      *)
THEOREM ChainEndsFree == Spec => []ChainIsFree
<1>1. ListInv => ChainIsFree
  <2> SUFFICES ASSUME ListInv, ~drifted
               PROVE  EndsWithin(heap, Cardinality(Nodes)) /\ heap.count = Length(heap)
    BY DEF ChainIsFree
  <2>1. Good(heap)
    BY Zenon DEF ListInv, ListsOK
  <2> QED BY <2>1, GoodChain
<1> QED BY <1>1, ListInitially, ListsKept, PTL DEF Spec

(* THEOREM.  With both lists replayed as one unit no block the game owns is *)
(* on the chain of free blocks, so none is handed out twice: what the game  *)
(* owns is marked in use, which a rebuild from the blocks' bits respects    *)
(* (rebuild_free_list_from_pool, restore_freelists).                        *)
THEOREM NoBlockHandedOutTwice == Spec => []NoDoubleMember
<1>1. ListInv => NoDoubleMember
  <2> SUFFICES ASSUME ListInv, ~drifted, ~unpaired PROVE Chain(heap) \cap heap.owned = {}
    BY DEF NoDoubleMember
  <2>1. Good(heap) /\ OwnedInUse(heap)
    BY Zenon DEF ListInv, ListsOK
  <2> QED BY <2>1, GoodChain DEF OwnedInUse
<1> QED BY <1>1, ListInitially, ListsKept, PTL DEF Spec

----------------------------------------------------------------------------
(* HuskSet.  First the functions its folds are made of.                     *)

(* A value is carried from place to place by functions of values.           *)
LEMMA IterateExists ==
  ASSUME NEW S, NEW base \in S, NEW n \in Nat, NEW F \in [1..n -> [S -> S]]
  PROVE  \E g \in [0..n -> S] : g[0] = base /\ \A i \in 1..n : g[i] = F[i][g[i - 1]]
<1> DEFINE Upto(k, g) == g[0] = base /\ \A i \in 1..k : g[i] = F[i][g[i - 1]]
           T == {k \in Nat : k <= n => \E g \in [0..k -> S] : Upto(k, g)}
<1>1. 0 \in T
  <2> DEFINE g == [i \in 0..0 |-> base]
  <2>1. g \in [0..0 -> S] /\ Upto(0, g)
    OBVIOUS
  <2> QED BY <2>1
<1>2. ASSUME NEW k \in Nat, k \in T PROVE k + 1 \in T
  <2> SUFFICES ASSUME k + 1 <= n PROVE \E g \in [0..(k + 1) -> S] : Upto(k + 1, g)
    OBVIOUS
  <2>1. PICK g \in [0..k -> S] : Upto(k, g)
    BY <1>2
  <2> DEFINE last == F[k + 1][g[k]]
             f == [i \in 0..(k + 1) |-> IF i = k + 1 THEN last ELSE g[i]]
  <2>2. last \in S
    OBVIOUS
  <2> HIDE DEF last
  <2>3. f \in [0..(k + 1) -> S]
    BY <2>2
  <2>4. f[k + 1] = last /\ \A i \in 0..k : f[i] = g[i]
    OBVIOUS
  <2> HIDE DEF f
  <2>5. f[0] = base
    BY <2>1, <2>4
  <2>6. ASSUME NEW i \in 1..(k + 1) PROVE f[i] = F[i][f[i - 1]]
    <3>1. CASE i = k + 1
      <4>1. i - 1 = k /\ f[k] = g[k]
        BY <2>4, <3>1
      <4> QED BY <2>4, <3>1, <4>1 DEF last
    <3>2. CASE i \in 1..k
      <4>1. i \in 0..k /\ i - 1 \in 0..k
        BY <3>2
      <4> QED BY <2>1, <2>4, <3>2, <4>1
    <3> QED BY <3>1, <3>2
  <2> QED BY <2>3, <2>5, <2>6
<1>3. \A k \in Nat : k \in T
  <2> HIDE DEF T
  <2> QED BY <1>1, <1>2, SetInduction
<1>4. \E g \in [0..n -> S] : Upto(n, g)
  BY <1>3
<1> QED BY <1>4

Marks == {"empty", "tombstone"}
Hash == [0..(HuskCap - 1) -> Objects \cup Marks]
HuskEntry == [user : Objects, frame : 0..MaxFrame]

LEMMA HuskSizes ==
  /\ HuskCap \in Nat /\ HuskCap > 0 /\ Probes \in Nat
  /\ \A u \in Objects : Home[u] \in 0..(HuskCap - 1) /\ u # "empty" /\ u # "tombstone"
BY HuskAssumption

At(u, i) == (Home[u] + i) % HuskCap

LEMMA AtTyped == \A u \in Objects, i \in Nat : At(u, i) \in 0..(HuskCap - 1)
<1> SUFFICES ASSUME NEW u \in Objects, NEW i \in Nat PROVE At(u, i) \in 0..(HuskCap - 1)
  OBVIOUS
<1> DEFINE x == Home[u] + i
<1>1. x \in Int /\ HuskCap \in Nat /\ HuskCap > 0
  BY HuskSizes
<1> HIDE DEF x
<1>2. x % HuskCap \in 0..(HuskCap - 1)
  BY <1>1
<1> QED BY <1>2 DEF x, At

(* A walk that stops does so at the first of its stops.                     *)
LEMMA SlotIs ==
  ASSUME NEW a, NEW u, Stops(a, u) # {}
  PROVE  \E i \in Stops(a, u) : Slot(a, u) = At(u, i) /\ \A j \in Stops(a, u) : i <= j
<1> DEFINE i == CHOOSE i \in Stops(a, u) : \A j \in Stops(a, u) : i <= j
<1>1. Stops(a, u) \in SUBSET Nat
  BY HuskSizes DEF Stops
<1>2. \E k \in Stops(a, u) : \A j \in Stops(a, u) : k <= j
  BY <1>1, LeastNatural
<1>3. i \in Stops(a, u) /\ \A j \in Stops(a, u) : i <= j
  BY <1>2
<1>4. Slot(a, u) = At(u, i)
  BY DEF Slot, At
<1> QED BY <1>3, <1>4

LEMMA SlotIsFirst ==
  ASSUME NEW a, NEW u, NEW i \in Stops(a, u), \A j \in Stops(a, u) : i <= j
  PROVE  Slot(a, u) = At(u, i)
<1>1. PICK k \in Stops(a, u) : Slot(a, u) = At(u, k) /\ \A j \in Stops(a, u) : k <= j
  BY SlotIs
<1>2. k \in Nat /\ i \in Nat
  BY HuskSizes DEF Stops
<1>3. k <= i /\ i <= k
  BY <1>1
<1>4. k = i
  BY <1>2, <1>3
<1> QED BY <1>1, <1>4

(* Where a walk stops there is its object, or nothing.                      *)
LEMMA StopHolds ==
  ASSUME NEW a, NEW u \in Objects, Stops(a, u) # {}
  PROVE  Slot(a, u) \in 0..(HuskCap - 1) /\ a[Slot(a, u)] \in {u, "empty"}
<1>1. PICK i \in Stops(a, u) : Slot(a, u) = At(u, i)
  BY SlotIs
<1>2. i \in Nat /\ a[At(u, i)] \in {u, "empty"}
  BY HuskSizes DEF Stops, At
<1> QED BY <1>1, <1>2, AtTyped

(* Every object in the hash is one of M, and a walk for it stops at it.     *)
HuskOK(a, M) ==
  /\ a \in Hash
  /\ \A k \in 0..(HuskCap - 1) :
       a[k] \in Objects => a[k] \in M /\ IsHusk(a, a[k]) /\ Slot(a, a[k]) = k

LEMMA HuskIsOne ==
  ASSUME NEW a, NEW M, HuskOK(a, M), NEW u \in Objects, IsHusk(a, u) PROVE u \in M
BY StopHolds, Zenon DEF HuskOK, IsHusk

LEMMA ClearedIs == HuskOK(Cleared, {})
BY HuskSizes DEF HuskOK, Hash, Marks, Cleared

(* A walk that stops at its object goes on doing so where a slot that held  *)
(* neither changes, to neither, or from empty.                              *)
LEMMA WalkStays ==
  ASSUME NEW a, NEW b, NEW v \in Objects, IsHusk(a, v),
         \A i \in 0..(Probes - 1) :
           \/ b[At(v, i)] = a[At(v, i)]
           \/ a[At(v, i)] # v /\ b[At(v, i)] \notin {v, "empty"}
  PROVE  IsHusk(b, v) /\ Slot(b, v) = Slot(a, v)
<1>1. Stops(a, v) # {} /\ a[Slot(a, v)] = v
  BY DEF IsHusk
<1>2. PICK i \in Stops(a, v) : Slot(a, v) = At(v, i) /\ \A j \in Stops(a, v) : i <= j
  BY <1>1, SlotIs
<1>3. /\ \A x : Stops(x, v) = {j \in 0..(Probes - 1) : x[At(v, j)] \in {v, "empty"}}
      /\ i \in 0..(Probes - 1)
  BY DEF Stops, At
<1>4. b[At(v, i)] = v /\ i \in Stops(b, v)
  BY <1>1, <1>2, <1>3
<1>5. Stops(b, v) \subseteq Stops(a, v)
  BY <1>3
<1>6. Slot(b, v) = At(v, i)
  BY <1>2, <1>4, <1>5, SlotIsFirst
<1> QED BY <1>2, <1>4, <1>6 DEF IsHusk

(* husk_add: the object is found where there was a slot, and so are those   *)
(* that were there.                                                         *)
LEMMA AddedIs ==
  ASSUME NEW a, NEW M, HuskOK(a, M), NEW u \in Objects
  PROVE  /\ HuskOK(Added(a, u), M \cup {u})
         /\ \A v \in Objects : IsHusk(a, v) => IsHusk(Added(a, u), v)
         /\ Stops(a, u) # {} => IsHusk(Added(a, u), u)
<1> DEFINE b == Added(a, u)
           k == Slot(a, u)
<1>1. CASE Stops(a, u) = {}
  <2>1. b = a
    BY <1>1 DEF Added
  <2> QED BY <1>1, <2>1 DEF HuskOK
<1>2. CASE Stops(a, u) # {} /\ a[k] = u
  <2>1. a \in Hash /\ b = [a EXCEPT ![k] = u] /\ k \in 0..(HuskCap - 1)
    BY <1>2, StopHolds DEF Added, HuskOK
  <2>2. b = a
    BY <1>2, <2>1 DEF Hash
  <2>3. IsHusk(a, u)
    BY <1>2 DEF IsHusk
  <2> QED BY <2>2, <2>3 DEF HuskOK
<1>3. CASE Stops(a, u) # {} /\ a[k] = "empty"
  <2>1. a \in Hash /\ b = [a EXCEPT ![k] = u] /\ k \in 0..(HuskCap - 1)
    BY <1>3, StopHolds DEF Added, HuskOK
  <2>2. b \in Hash /\ b[k] = u /\ \A j \in 0..(HuskCap - 1) : j # k => b[j] = a[j]
    BY <2>1 DEF Hash
  <2> HIDE DEF b
  <2>3. ASSUME NEW v \in Objects, IsHusk(a, v) PROVE IsHusk(b, v) /\ Slot(b, v) = Slot(a, v)
    <3>1. v # u
      BY <1>3, <2>3, HuskSizes DEF IsHusk
    <3>2. \A i \in 0..(Probes - 1) : At(v, i) \in 0..(HuskCap - 1)
      BY AtTyped, HuskSizes
    <3>3. u # "empty" /\ v # "empty"
      BY HuskSizes
    <3>4. \A i \in 0..(Probes - 1) :
            \/ b[At(v, i)] = a[At(v, i)]
            \/ a[At(v, i)] # v /\ b[At(v, i)] \notin {v, "empty"}
      BY <1>3, <2>2, <3>1, <3>2, <3>3
    <3> QED BY <2>3, <3>4, WalkStays
  <2>4. IsHusk(b, u) /\ Slot(b, u) = k
    <3>1. PICK i \in Stops(a, u) : k = At(u, i) /\ \A j \in Stops(a, u) : i <= j
      BY <1>3, SlotIs
    <3>2. \A x : Stops(x, u) = {j \in 0..(Probes - 1) : x[At(u, j)] \in {u, "empty"}}
      BY DEF Stops, At
    <3>3. \A j \in 0..(Probes - 1) : At(u, j) \in 0..(HuskCap - 1)
      BY AtTyped, HuskSizes
    <3>4. Stops(b, u) = Stops(a, u)
      BY <1>3, <2>2, <3>2, <3>3
    <3>5. Slot(b, u) = k
      BY <3>1, <3>4, SlotIsFirst
    <3> HIDE DEF k
    <3> QED BY <1>3, <2>2, <3>4, <3>5 DEF IsHusk
  <2>5. ASSUME NEW j \in 0..(HuskCap - 1), b[j] \in Objects
        PROVE  b[j] \in M \cup {u} /\ IsHusk(b, b[j]) /\ Slot(b, b[j]) = j
    <3>1. CASE j = k
      BY <2>2, <2>4, <3>1
    <3>2. CASE j # k
      <4>1. b[j] = a[j]
        BY <2>2, <3>2
      <4>2. a[j] \in M /\ IsHusk(a, a[j]) /\ Slot(a, a[j]) = j
        BY <2>5, <4>1 DEF HuskOK
      <4> QED BY <2>3, <2>5, <4>1, <4>2
    <3> QED BY <3>1, <3>2
  <2> QED BY <2>2, <2>3, <2>4, <2>5 DEF HuskOK, b
<1> QED BY <1>1, <1>2, <1>3, StopHolds

(* husk_del: the object is gone, and nobody else.                           *)
LEMMA DeletedIs ==
  ASSUME NEW a, NEW M, HuskOK(a, M), NEW u \in Objects
  PROVE  /\ HuskOK(Deleted(a, u), M \ {u})
         /\ \A v \in Objects \ {u} : IsHusk(a, v) => IsHusk(Deleted(a, u), v)
<1> DEFINE b == Deleted(a, u)
           k == Slot(a, u)
<1>1. CASE ~IsHusk(a, u)
  <2>1. b = a
    BY <1>1 DEF Deleted
  <2>2. \A j \in 0..(HuskCap - 1) : a[j] \in Objects => a[j] # u
    BY <1>1 DEF HuskOK
  <2> QED BY <2>1, <2>2 DEF HuskOK
<1>2. CASE IsHusk(a, u)
  <2>1. a \in Hash /\ b = [a EXCEPT ![k] = "tombstone"] /\ k \in 0..(HuskCap - 1) /\ a[k] = u
    BY <1>2, StopHolds DEF Deleted, HuskOK, IsHusk
  <2>2. b \in Hash /\ b[k] = "tombstone" /\ \A j \in 0..(HuskCap - 1) : j # k => b[j] = a[j]
    BY <2>1 DEF Hash, Marks
  <2> HIDE DEF b
  <2>3. ASSUME NEW v \in Objects \ {u}, IsHusk(a, v)
        PROVE  IsHusk(b, v) /\ Slot(b, v) = Slot(a, v)
    <3>1. v # "tombstone"
      BY HuskSizes
    <3>2. \A i \in 0..(Probes - 1) : At(v, i) \in 0..(HuskCap - 1)
      BY AtTyped, HuskSizes
    <3>3. \A i \in 0..(Probes - 1) :
            \/ b[At(v, i)] = a[At(v, i)]
            \/ a[At(v, i)] # v /\ b[At(v, i)] \notin {v, "empty"}
      BY <2>1, <2>2, <3>1, <3>2
    <3> QED BY <2>3, <3>3, WalkStays
  <2>4. ASSUME NEW j \in 0..(HuskCap - 1), b[j] \in Objects
        PROVE  b[j] \in M \ {u} /\ IsHusk(b, b[j]) /\ Slot(b, b[j]) = j
    <3>1. j # k
      BY <2>2, <2>4, HuskSizes
    <3>2. b[j] = a[j]
      BY <2>2, <3>1
    <3>3. a[j] \in M /\ IsHusk(a, a[j]) /\ Slot(a, a[j]) = j
      BY <2>4, <3>2 DEF HuskOK
    <3>4. a[j] # u
      BY <3>1, <3>3
    <3> QED BY <2>3, <2>4, <3>2, <3>3, <3>4
  <2> QED BY <2>2, <2>3, <2>4 DEF HuskOK, b
<1> QED BY <1>1, <1>2

(* The objects of the first n entries of a table, no two the same.          *)
Of(s, n) == {s[i].user : i \in 1..n}
Sound(s) ==
  s \in Seq(HuskEntry) /\ \A i, j \in DOMAIN s : i # j => s[i].user # s[j].user

LEMMA SoundIs ==
  ASSUME NEW s, Sound(s)
  PROVE  /\ Len(s) \in Nat /\ DOMAIN s = 1..Len(s)
         /\ \A i \in 1..Len(s) : s[i] \in HuskEntry /\ s[i].user \in Objects
<1>1. s \in Seq(HuskEntry)
  BY DEF Sound
<1> DEFINE E == HuskEntry
<1>2. s \in Seq(E)
  BY <1>1
<1> HIDE DEF E
<1>3. Len(s) \in Nat /\ DOMAIN s = 1..Len(s) /\ \A i \in 1..Len(s) : s[i] \in E
  BY <1>2
<1>4. \A e \in E : e.user \in Objects
  BY DEF E, HuskEntry
<1> QED BY <1>3, <1>4 DEF E

LEMMA OfGrows ==
  ASSUME NEW s, NEW n \in Nat
  PROVE  Of(s, n + 1) = Of(s, n) \cup {s[n + 1].user} /\ Of(s, 0) = {}
<1>1. 1..(n + 1) = (1..n) \cup {n + 1}
  OBVIOUS
<1> QED BY <1>1 DEF Of

(* A new entry, of an object no entry is of.                                *)
LEMMA AppendIs ==
  ASSUME NEW s, Sound(s), NEW e \in HuskEntry, e.user \notin Of(s, Len(s))
  PROVE  /\ Sound(Append(s, e))
         /\ Of(Append(s, e), Len(Append(s, e))) = Of(s, Len(s)) \cup {e.user}
<1> DEFINE E == HuskEntry
           t == Append(s, e)
           n == Len(s)
<1>1. s \in Seq(E) /\ e \in E
  BY DEF Sound
<1> HIDE DEF E
<1>2. /\ t \in Seq(E) /\ Len(t) = n + 1 /\ n \in Nat /\ DOMAIN t = 1..(n + 1)
      /\ \A i \in 1..n : t[i] = s[i]
      /\ t[n + 1] = e
  BY <1>1
<1>3. /\ DOMAIN s = 1..n
      /\ \A i, j \in 1..n : i # j => s[i].user # s[j].user
      /\ \A i \in 1..n : s[i].user # e.user
  BY <1>1 DEF Sound, Of
<1> HIDE DEF t, n
<1>4. 1..(n + 1) = (1..n) \cup {n + 1} /\ n + 1 \notin 1..n
  BY <1>2
<1>5. \A i, j \in 1..(n + 1) : i # j => t[i].user # t[j].user
  BY <1>2, <1>3, <1>4
<1>6. Sound(t)
  BY <1>2, <1>5 DEF Sound, E
<1>7. {t[i].user : i \in 1..(n + 1)} = {s[i].user : i \in 1..n} \cup {e.user}
  BY <1>2, <1>4
<1> QED BY <1>2, <1>6, <1>7 DEF Of, t, n

(* The functions of HusksOf, AllDeleted and Picked.                         *)
AddedTo(s, g) ==
  g = [i \in 0..Len(s) |-> IF i = 0 THEN Cleared ELSE Added(g[i - 1], s[i].user)]
DeletedFrom(s, g) ==
  g = [i \in 0..Len(s) |-> IF i = 0 THEN husks ELSE Deleted(g[i - 1], s[i].user)]
PickedFrom(s, I, g) ==
  g = [i \in 0..Len(s) |->
         IF i = 0 THEN <<>>
         ELSE IF i \in I THEN Append(g[i - 1], s[i]) ELSE g[i - 1]]

LEMMA HashTyped ==
  ASSUME NEW a \in Hash, NEW u \in Objects
  PROVE  Added(a, u) \in Hash /\ Deleted(a, u) \in Hash
BY StopHolds DEF Added, Deleted, IsHusk, Hash, Marks

LEMMA AddedToExists ==
  ASSUME NEW s, Sound(s)
  PROVE  \E g : AddedTo(s, g)
<1> DEFINE n == Len(s)
           F == [i \in 1..n |-> [a \in Hash |-> Added(a, s[i].user)]]
<1>1. n \in Nat /\ \A i \in 1..n : s[i].user \in Objects
  BY SoundIs
<1> HIDE DEF n
<1>2. F \in [1..n -> [Hash -> Hash]]
  BY <1>1, HashTyped
<1>3. \A i \in 1..n, a \in Hash : F[i][a] = Added(a, s[i].user)
  OBVIOUS
<1>4. Cleared \in Hash
  BY ClearedIs DEF HuskOK
<1> HIDE DEF F
<1>5. PICK g \in [0..n -> Hash] : g[0] = Cleared /\ \A i \in 1..n : g[i] = F[i][g[i - 1]]
  BY <1>1, <1>2, <1>4, IterateExists
<1>6. \A i \in 0..n : g[i] = IF i = 0 THEN Cleared ELSE Added(g[i - 1], s[i].user)
  <2> TAKE i \in 0..n
  <2>1. CASE i = 0
    BY <1>5, <2>1
  <2>2. CASE i # 0
    <3>1. i \in 1..n /\ i - 1 \in 0..n
      BY <1>1, <2>2
    <3>2. g[i - 1] \in Hash
      BY <3>1
    <3> QED BY <1>3, <1>5, <2>2, <3>1, <3>2
  <2> QED BY <2>1, <2>2
<1>7. g = [i \in 0..n |-> IF i = 0 THEN Cleared ELSE Added(g[i - 1], s[i].user)]
  BY <1>6
<1> QED BY <1>7 DEF AddedTo, n

LEMMA DeletedFromExists ==
  ASSUME NEW s, Sound(s), husks \in Hash
  PROVE  \E g : DeletedFrom(s, g)
<1> DEFINE n == Len(s)
           F == [i \in 1..n |-> [a \in Hash |-> Deleted(a, s[i].user)]]
<1>1. n \in Nat /\ \A i \in 1..n : s[i].user \in Objects
  BY SoundIs
<1> HIDE DEF n
<1>2. F \in [1..n -> [Hash -> Hash]]
  BY <1>1, HashTyped
<1>3. \A i \in 1..n, a \in Hash : F[i][a] = Deleted(a, s[i].user)
  OBVIOUS
<1> HIDE DEF F
<1>5. PICK g \in [0..n -> Hash] : g[0] = husks /\ \A i \in 1..n : g[i] = F[i][g[i - 1]]
  BY <1>1, <1>2, IterateExists
<1>6. \A i \in 0..n : g[i] = IF i = 0 THEN husks ELSE Deleted(g[i - 1], s[i].user)
  <2> TAKE i \in 0..n
  <2>1. CASE i = 0
    BY <1>5, <2>1
  <2>2. CASE i # 0
    <3>1. i \in 1..n /\ i - 1 \in 0..n
      BY <1>1, <2>2
    <3>2. g[i - 1] \in Hash
      BY <3>1
    <3> QED BY <1>3, <1>5, <2>2, <3>1, <3>2
  <2> QED BY <2>1, <2>2
<1>7. g = [i \in 0..n |-> IF i = 0 THEN husks ELSE Deleted(g[i - 1], s[i].user)]
  BY <1>6
<1> QED BY <1>7 DEF DeletedFrom, n

LEMMA PickedFromExists ==
  ASSUME NEW s, Sound(s), NEW I
  PROVE  \E g : PickedFrom(s, I, g)
<1> DEFINE n == Len(s)
           E == HuskEntry
           Q == Seq(E)
           F == [i \in 1..n |-> [q \in Q |-> IF i \in I THEN Append(q, s[i]) ELSE q]]
<1>1. n \in Nat /\ \A i \in 1..n : s[i] \in E
  BY SoundIs
<1> HIDE DEF n, E
<1>2. \A i \in 1..n, q \in Q : Append(q, s[i]) \in Q
  BY <1>1
<1>4. <<>> \in Q
  OBVIOUS
<1> HIDE DEF Q
<1>3. \A i \in 1..n, q \in Q : F[i][q] = IF i \in I THEN Append(q, s[i]) ELSE q
  OBVIOUS
<1>9. F \in [1..n -> [Q -> Q]]
  BY <1>2
<1> HIDE DEF F
<1>5. PICK g \in [0..n -> Q] : g[0] = <<>> /\ \A i \in 1..n : g[i] = F[i][g[i - 1]]
  BY <1>1, <1>4, <1>9, IterateExists
<1>6. \A i \in 0..n : g[i] = IF i = 0 THEN <<>>
                             ELSE IF i \in I THEN Append(g[i - 1], s[i]) ELSE g[i - 1]
  <2> TAKE i \in 0..n
  <2>1. CASE i = 0
    BY <1>5, <2>1
  <2>2. CASE i # 0
    <3>1. i \in 1..n /\ i - 1 \in 0..n
      BY <1>1, <2>2
    <3>2. g[i - 1] \in Q
      BY <3>1
    <3> QED BY <1>3, <1>5, <2>2, <3>1, <3>2
  <2> QED BY <2>1, <2>2
<1>7. g = [i \in 0..n |-> IF i = 0 THEN <<>>
                          ELSE IF i \in I THEN Append(g[i - 1], s[i]) ELSE g[i - 1]]
  BY <1>6
<1> QED BY <1>7 DEF PickedFrom, n

(* A rebuild has all it was built from, and nothing else.                   *)
LEMMA HusksOfIs ==
  ASSUME NEW s, Sound(s)
  PROVE  HuskOK(HusksOf(s), Of(s, Len(s)))
<1> DEFINE n == Len(s)
           g == CHOOSE g : AddedTo(s, g)
<1>1. AddedTo(s, g)
  BY AddedToExists
<1>2. HusksOf(s) = g[n]
  BY DEF HusksOf, AddedTo
<1>3. n \in Nat /\ \A i \in 1..n : s[i].user \in Objects
  BY SoundIs
<1> HIDE DEF g
<1>4. \A i \in 0..n : g[i] = IF i = 0 THEN Cleared ELSE Added(g[i - 1], s[i].user)
  BY <1>1, Zenon DEF AddedTo
<1> HIDE DEF n
<1> DEFINE S == {i \in Nat : i <= n => HuskOK(g[i], Of(s, i))}
<1>5. 0 \in S
  <2>1. g[0] = Cleared
    BY <1>3, <1>4
  <2> QED BY <2>1, ClearedIs, OfGrows
<1>6. ASSUME NEW i \in Nat, i \in S PROVE i + 1 \in S
  <2> SUFFICES ASSUME i + 1 <= n PROVE HuskOK(g[i + 1], Of(s, i + 1))
    OBVIOUS
  <2>1. i + 1 \in 0..n /\ i + 1 \in 1..n /\ i + 1 # 0 /\ (i + 1) - 1 = i /\ HuskOK(g[i], Of(s, i))
    BY <1>3, <1>6
  <2>2. g[i + 1] = Added(g[i], s[i + 1].user)
    BY <1>4, <2>1
  <2> QED BY <1>3, <2>1, <2>2, AddedIs, OfGrows
<1>7. \A i \in Nat : i \in S
  <2> HIDE DEF S
  <2> QED BY <1>5, <1>6, SetInduction
<1>8. HuskOK(g[n], Of(s, n))
  BY <1>3, <1>7
<1> QED BY <1>2, <1>8 DEF n

(* The deletions take what they are asked to, and nothing else.             *)
LEMMA AllDeletedIs ==
  ASSUME NEW s, Sound(s), NEW M, HuskOK(husks, M)
  PROVE  /\ HuskOK(AllDeleted(s), M \ Of(s, Len(s)))
         /\ \A v \in Objects \ Of(s, Len(s)) : IsHusk(husks, v) => IsHusk(AllDeleted(s), v)
<1> DEFINE n == Len(s)
           g == CHOOSE g : DeletedFrom(s, g)
           Spared(i) == \A v \in Objects \ Of(s, i) : IsHusk(husks, v) => IsHusk(g[i], v)
<1>1. DeletedFrom(s, g)
  BY DeletedFromExists DEF HuskOK
<1>2. AllDeleted(s) = g[n]
  BY DEF AllDeleted, DeletedFrom
<1>3. n \in Nat /\ \A i \in 1..n : s[i].user \in Objects
  BY SoundIs
<1> HIDE DEF g
<1>4. \A i \in 0..n : g[i] = IF i = 0 THEN husks ELSE Deleted(g[i - 1], s[i].user)
  BY <1>1, Zenon DEF DeletedFrom
<1> HIDE DEF n
<1> DEFINE S == {i \in Nat : i <= n => HuskOK(g[i], M \ Of(s, i)) /\ Spared(i)}
<1>5. 0 \in S
  <2>1. g[0] = husks
    BY <1>3, <1>4
  <2>2. M \ Of(s, 0) = M
    BY OfGrows
  <2> QED BY <2>1, <2>2
<1>6. ASSUME NEW i \in Nat, i \in S PROVE i + 1 \in S
  <2> SUFFICES ASSUME i + 1 <= n PROVE HuskOK(g[i + 1], M \ Of(s, i + 1)) /\ Spared(i + 1)
    OBVIOUS
  <2> DEFINE u == s[i + 1].user
  <2>1. i + 1 \in 0..n /\ i + 1 \in 1..n /\ i + 1 # 0 /\ (i + 1) - 1 = i
        /\ HuskOK(g[i], M \ Of(s, i)) /\ Spared(i)
    BY <1>3, <1>6
  <2>2. g[i + 1] = Deleted(g[i], u) /\ u \in Objects
    BY <1>3, <1>4, <2>1
  <2>3. Of(s, i + 1) = Of(s, i) \cup {u}
    BY OfGrows
  <2> HIDE DEF u
  <2>4. /\ HuskOK(Deleted(g[i], u), (M \ Of(s, i)) \ {u})
        /\ \A v \in Objects \ {u} : IsHusk(g[i], v) => IsHusk(Deleted(g[i], u), v)
    BY <2>1, <2>2, DeletedIs
  <2>5. (M \ Of(s, i)) \ {u} = M \ Of(s, i + 1)
    BY <2>3
  <2> QED BY <2>1, <2>2, <2>3, <2>4, <2>5
<1>7. \A i \in Nat : i \in S
  <2> HIDE DEF S
  <2> QED BY <1>5, <1>6, SetInduction
<1>8. HuskOK(g[n], M \ Of(s, n)) /\ Spared(n)
  BY <1>3, <1>7
<1> QED BY <1>2, <1>8 DEF n

(* The entries picked are those at the places, and a table still.           *)
LEMMA PickedIs ==
  ASSUME NEW s, Sound(s), NEW I \in SUBSET DOMAIN s
  PROVE  /\ Sound(Picked(s, I))
         /\ Of(Picked(s, I), Len(Picked(s, I))) = {s[i].user : i \in I}
<1> DEFINE n == Len(s)
           g == CHOOSE g : PickedFrom(s, I, g)
<1>1. PickedFrom(s, I, g)
  BY PickedFromExists
<1>2. Picked(s, I) = g[n]
  BY DEF Picked, PickedFrom
<1>3. n \in Nat /\ DOMAIN s = 1..n /\ \A i \in 1..n : s[i] \in HuskEntry
  BY SoundIs
<1>9. \A i, j \in 1..n : i # j => s[i].user # s[j].user
  BY <1>3 DEF Sound
<1> HIDE DEF g
<1>4. \A i \in 0..n : g[i] = IF i = 0 THEN <<>>
                             ELSE IF i \in I THEN Append(g[i - 1], s[i]) ELSE g[i - 1]
  BY <1>1, Zenon DEF PickedFrom
<1> HIDE DEF n
<1> DEFINE Right(i) == Sound(g[i]) /\ Of(g[i], Len(g[i])) = {s[j].user : j \in I \cap 1..i}
           S == {i \in Nat : i <= n => Right(i)}
<1>5. 0 \in S
  <2>1. g[0] = <<>>
    BY <1>3, <1>4
  <2>2. Sound(<<>>) /\ Of(<<>>, Len(<<>>)) = {}
    <3> DEFINE E == HuskEntry
    <3>1. <<>> \in Seq(E) /\ DOMAIN <<>> = {} /\ Len(<<>>) = 0
      OBVIOUS
    <3> QED BY <3>1 DEF Sound, Of
  <2> QED BY <2>1, <2>2
<1>6. ASSUME NEW i \in Nat, i \in S PROVE i + 1 \in S
  <2> SUFFICES ASSUME i + 1 <= n PROVE Right(i + 1)
    OBVIOUS
  <2>1. i + 1 \in 0..n /\ i + 1 \in 1..n /\ i + 1 # 0 /\ (i + 1) - 1 = i /\ Right(i)
    BY <1>3, <1>6
  <2> DEFINE q == g[i]
             e == s[i + 1]
  <2>2. g[i + 1] = IF i + 1 \in I THEN Append(q, e) ELSE q
    BY <1>4, <2>1
  <2>3. 1..(i + 1) = (1..i) \cup {i + 1}
    OBVIOUS
  <2>4. CASE i + 1 \notin I
    <3>1. I \cap 1..(i + 1) = I \cap 1..i
      BY <2>3, <2>4
    <3> HIDE DEF q, e
    <3> QED BY <2>1, <2>2, <2>4, <3>1 DEF q
  <2>5. CASE i + 1 \in I
    <3>1. g[i + 1] = Append(q, e)
      BY <2>2, <2>5
    <3>2. Sound(q) /\ Of(q, Len(q)) = {s[j].user : j \in I \cap 1..i}
      BY <2>1
    <3>3. e \in HuskEntry
      BY <1>3, <2>1
    <3>4. e.user \notin Of(q, Len(q))
      <4>1. \A j \in I \cap 1..i : j \in 1..n /\ j # i + 1
        BY <1>3, <2>1
      <4>2. \A j \in I \cap 1..i : s[j].user # e.user
        BY <1>9, <2>1, <4>1
      <4> QED BY <3>2, <4>2
    <3>5. {s[j].user : j \in I \cap 1..(i + 1)} = {s[j].user : j \in I \cap 1..i} \cup {e.user}
      BY <2>3, <2>5
    <3> HIDE DEF q, e
    <3>6. Sound(Append(q, e)) /\ Of(Append(q, e), Len(Append(q, e))) = Of(q, Len(q)) \cup {e.user}
      BY <3>2, <3>3, <3>4, AppendIs
    <3> QED BY <3>1, <3>2, <3>5, <3>6
  <2> QED BY <2>4, <2>5
<1>7. \A i \in Nat : i \in S
  <2> HIDE DEF S
  <2> QED BY <1>5, <1>6, SetInduction
<1>8. Right(n)
  <2>1. n \in S
    BY <1>3, <1>7
  <2> HIDE DEF Right
  <2>2. n <= n
    BY <1>3
  <2> QED BY <2>1, <2>2
<1>10. I \cap 1..n = I
  BY <1>3
<1> QED BY <1>2, <1>8, <1>10

Mourns(s) == Of(s, Len(s))

HusksOK(s, h, saved, full) ==
  /\ Sound(s) /\ full \in BOOLEAN
  /\ \A f \in DOMAIN saved : Sound(saved[f])
  /\ HuskOK(h, Mourns(s))
  /\ ~full => \A u \in Mourns(s) : IsHusk(h, u)

HuskInv == HusksOK(dead, husks, deadSlots, crowded)

LEMMA MournedIs == ASSUME NEW s, Sound(s) PROVE Mourns(s) = {s[i].user : i \in DOMAIN s}
BY SoundIs DEF Mourns, Of

ClockBounded ==
  /\ frame \in 0..MaxFrame /\ at \in {Live} \cup 0..MaxFrame
  /\ at # Live => at < frame

LEMMA ClockBoundedKept == ASSUME ClockBounded, [WorldNext]_worldVars PROVE ClockBounded'
<1> USE WorldAssumption
<1>1. CASE UNCHANGED worldVars
  BY <1>1 DEF worldVars, clockVars, ClockBounded
<1>2. CASE Game
  BY <1>2 DEF Game, clockVars, ClockBounded
<1>3. CASE ArmWorld
  BY <1>3 DEF ArmWorld, Arm, ClockBounded
<1>4. CASE DisarmWorld
  BY <1>4 DEF DisarmWorld, Disarm, ClockBounded
<1>5. CASE NextFrame
  BY <1>5 DEF NextFrame, Forward, ClockBounded
<1>6. CASE ReplayedFrame
  BY <1>6 DEF ReplayedFrame, Replay, ClockBounded, Live
<1>7. CASE \E target \in (frame - MaxDepth)..(frame - 1) : GoBack(target)
  BY <1>7 DEF GoBack, Rollback, ClockBounded, Live
<1> QED BY <1>1, <1>2, <1>3, <1>4, <1>5, <1>6, <1>7 DEF WorldNext

LEMMA ClockBoundedInitially == WorldInit => ClockBounded
  BY WorldAssumption DEF WorldInit, ClockInit, ClockBounded, Live

LEMMA HuskInitially == WorldInit => HuskInv
<1> SUFFICES ASSUME WorldInit PROVE HuskInv
  OBVIOUS
<1>1. dead = <<>> /\ husks = Cleared /\ deadSlots = <<>> /\ crowded = FALSE
  BY DEF WorldInit, HuskInit
<1>2. Sound(<<>>) /\ Mourns(<<>>) = {} /\ DOMAIN deadSlots = {}
  <2> DEFINE E == HuskEntry
  <2>1. <<>> \in Seq(E) /\ DOMAIN <<>> = {} /\ Len(<<>>) = 0
    OBVIOUS
  <2> QED BY <1>1, <2>1 DEF Sound, Mourns, Of
<1> QED BY <1>1, <1>2, ClearedIs, Zenon DEF HuskInv, HusksOK

LEMMA HuskGameKeeps == ASSUME HuskInv, ClockBounded, HuskGame PROVE HuskInv'
<1>1. PICK u \in Objects \ Mourned :
        /\ dead' = Append(dead, [user |-> u, frame |-> Effective])
        /\ husks' = Added(husks, u)
        /\ crowded' = (crowded \/ Stops(husks, u) = {})
        /\ deadSlots' = deadSlots
  BY DEF HuskGame
<1>2. Sound(dead) /\ HuskOK(husks, Mourns(dead)) /\ Mourned = Mourns(dead)
  BY MournedIs, Zenon DEF HuskInv, HusksOK, Mourned
<1> DEFINE e == [user |-> u, frame |-> Effective]
<1>3. e \in HuskEntry /\ e.user = u /\ u \notin Of(dead, Len(dead))
  BY <1>2 DEF HuskEntry, Effective, ClockBounded, Mourns
<1> HIDE DEF e
<1>4. Sound(dead') /\ Mourns(dead') = Mourns(dead) \cup {u}
  BY <1>1, <1>2, <1>3, AppendIs DEF Mourns, e
<1>5. /\ HuskOK(husks', Mourns(dead'))
      /\ \A v \in Objects : IsHusk(husks, v) => IsHusk(husks', v)
      /\ Stops(husks, u) # {} => IsHusk(husks', u)
  BY <1>1, <1>2, <1>4, AddedIs
<1>6. \A v \in Mourns(dead) : v \in Objects
  BY <1>2, SoundIs DEF Mourns, Of
<1>7. ~crowded' => \A v \in Mourns(dead') : IsHusk(husks', v)
  BY <1>1, <1>4, <1>5, <1>6, Zenon DEF HuskInv, HusksOK
<1>8. crowded' \in BOOLEAN
  BY <1>1, Zenon
<1>9. \A f \in DOMAIN deadSlots' : Sound(deadSlots'[f])
  BY <1>1, Zenon DEF HuskInv, HusksOK
<1> QED BY <1>4, <1>5, <1>7, <1>8, <1>9, Zenon DEF HuskInv, HusksOK

(* A flush takes the due ones from the table and from the hash alike.       *)
LEMMA HuskFrameKeeps == ASSUME HuskInv, HuskFrame PROVE HuskInv'
<1> DEFINE due == {i \in DOMAIN dead : frame - dead[i].frame > HuskGrace}
           kept == Picked(dead, DOMAIN dead \ due)
           freed == Picked(dead, due)
           saved == [f \in {g \in DOMAIN deadSlots : g > frame - HuskSlots} \cup {frame} |->
                       IF f = frame THEN kept ELSE deadSlots[f]]
<1>1. dead' = kept /\ husks' = AllDeleted(freed) /\ deadSlots' = saved /\ crowded' = crowded
  BY Zenon DEF HuskFrame
<1>2. Sound(dead) /\ HuskOK(husks, Mourns(dead))
  BY Zenon DEF HuskInv, HusksOK
<1>3. /\ Sound(kept) /\ Mourns(kept) = {dead[i].user : i \in DOMAIN dead \ due}
      /\ Sound(freed) /\ Mourns(freed) = {dead[i].user : i \in due}
  BY <1>2, PickedIs DEF Mourns
<1>4. Mourns(kept) = Mourns(dead) \ Mourns(freed)
  <2>1. \A i, j \in DOMAIN dead : i # j => dead[i].user # dead[j].user
    BY <1>2 DEF Sound
  <2>2. due \subseteq DOMAIN dead
    OBVIOUS
  <2>3. Mourns(dead) = {dead[i].user : i \in DOMAIN dead}
    BY <1>2, MournedIs
  <2> HIDE DEF due, kept, freed
  <2> QED BY <1>3, <2>1, <2>2, <2>3
<1>5. \A f \in DOMAIN deadSlots' : Sound(deadSlots'[f])
  <2> HIDE DEF kept
  <2>1. \A f \in DOMAIN deadSlots : Sound(deadSlots[f])
    BY Zenon DEF HuskInv, HusksOK
  <2>2. ASSUME NEW f \in DOMAIN saved PROVE Sound(saved[f])
    <3>1. saved[f] = IF f = frame THEN kept ELSE deadSlots[f]
      OBVIOUS
    <3>2. f = frame \/ f \in DOMAIN deadSlots
      OBVIOUS
    <3> QED BY <1>3, <2>1, <3>1, <3>2
  <2> QED BY <1>1, <2>2
<1> HIDE DEF kept, freed, due
<1>6. /\ HuskOK(husks', Mourns(kept))
      /\ \A v \in Objects \ Mourns(freed) : IsHusk(husks, v) => IsHusk(husks', v)
  BY <1>1, <1>2, <1>3, <1>4, AllDeletedIs DEF Mourns
<1>7. \A v \in Mourns(kept) : v \in Objects \ Mourns(freed) /\ v \in Mourns(dead)
  BY <1>2, <1>4, SoundIs DEF Mourns, Of
<1>8. ~crowded' => \A u \in Mourns(kept) : IsHusk(husks', u)
  BY <1>1, <1>6, <1>7, Zenon DEF HuskInv, HusksOK
<1>9. crowded' \in BOOLEAN
  BY <1>1, Zenon DEF HuskInv, HusksOK
<1> QED BY <1>1, <1>3, <1>5, <1>6, <1>8, <1>9, Zenon DEF HuskInv, HusksOK

(* The rebuild says itself whether it found room for all.                   *)
LEMMA HuskRollbackKeeps ==
  ASSUME HuskInv, NEW target, HuskRollback(target) PROVE HuskInv'
<1>1. /\ target \in DOMAIN deadSlots
      /\ dead' = deadSlots[target] \/ dead' = Reconciled(target)
      /\ husks' = HusksOf(dead') /\ deadSlots' = deadSlots
      /\ crowded' = \E i \in DOMAIN dead' : ~IsHusk(husks', dead'[i].user)
  BY DEF HuskRollback
<1>2. Sound(dead) /\ Sound(deadSlots[target])
  BY <1>1, Zenon DEF HuskInv, HusksOK
<1>3. Sound(Reconciled(target))
  BY <1>2, PickedIs DEF Reconciled
<1>4. Sound(dead')
  BY <1>1, <1>2, <1>3, Zenon
<1>5. HuskOK(husks', Mourns(dead'))
  BY <1>1, <1>4, HusksOfIs DEF Mourns
<1>6. crowded' \in BOOLEAN
  BY <1>1, Zenon
<1>7. ~crowded' => \A u \in Mourns(dead') : IsHusk(husks', u)
  <2>1. Mourns(dead') = {dead'[i].user : i \in DOMAIN dead'}
    BY <1>4, MournedIs
  <2> SUFFICES ASSUME ~crowded', NEW u \in Mourns(dead') PROVE IsHusk(husks', u)
    OBVIOUS
  <2>2. PICK i \in DOMAIN dead' : u = dead'[i].user
    BY <2>1
  <2> QED BY <1>1, <2>2, Zenon
<1>8. \A f \in DOMAIN deadSlots' : Sound(deadSlots'[f])
  BY <1>1, Zenon DEF HuskInv, HusksOK
<1> QED BY <1>4, <1>5, <1>6, <1>7, <1>8, Zenon DEF HuskInv, HusksOK

LEMMA HuskArmKeeps == ASSUME HuskInv, HuskArm PROVE HuskInv'
<1>1. dead' = dead /\ husks' = husks /\ crowded' = crowded /\ DOMAIN deadSlots' = {}
  BY DEF HuskArm
<1> QED BY <1>1, Zenon DEF HuskInv, HusksOK

LEMMA HuskDisarmKeeps == ASSUME HuskInv, HuskDisarm PROVE HuskInv'
<1>1. dead' = <<>> /\ husks' = AllDeleted(dead) /\ crowded' = crowded /\ DOMAIN deadSlots' = {}
  BY DEF HuskDisarm
<1>2. Sound(dead) /\ HuskOK(husks, Mourns(dead)) /\ crowded \in BOOLEAN
  BY Zenon DEF HuskInv, HusksOK
<1>3. HuskOK(husks', Mourns(dead) \ Mourns(dead))
  BY <1>1, <1>2, AllDeletedIs DEF Mourns
<1>4. Mourns(dead) \ Mourns(dead) = {}
  OBVIOUS
<1>5. Sound(<<>>) /\ Mourns(<<>>) = {}
  <2> DEFINE E == HuskEntry
  <2>1. <<>> \in Seq(E) /\ DOMAIN <<>> = {} /\ Len(<<>>) = 0
    OBVIOUS
  <2> QED BY <2>1 DEF Sound, Mourns, Of
<1> QED BY <1>1, <1>2, <1>3, <1>4, <1>5, Zenon DEF HuskInv, HusksOK

(* What a step does to the husks.                                           *)
LEMMA HusksFollowed ==
  ASSUME [WorldNext]_worldVars
  PROVE  \/ HuskGame \/ HuskFrame \/ HuskArm \/ HuskDisarm \/ UNCHANGED huskVars
         \/ \E target \in Nat : HuskRollback(target)
<1>1. CASE UNCHANGED worldVars
  BY <1>1 DEF worldVars
<1>2. CASE Game
  BY <1>2 DEF Game, Mourning
<1>3. CASE ArmWorld
  BY <1>3 DEF ArmWorld, Mourning
<1>4. CASE DisarmWorld
  BY <1>4 DEF DisarmWorld, Mourning
<1>5. CASE NextFrame
  BY <1>5 DEF NextFrame, Mourning
<1>6. CASE ReplayedFrame
  BY <1>6 DEF ReplayedFrame
<1>7. CASE \E target \in (frame - MaxDepth)..(frame - 1) : GoBack(target)
  BY <1>7 DEF GoBack, Rollback, Mourning
<1> QED BY <1>1, <1>2, <1>3, <1>4, <1>5, <1>6, <1>7 DEF WorldNext

LEMMA HusksKept == ASSUME HuskInv, ClockBounded, [WorldNext]_worldVars PROVE HuskInv'
<1>1. CASE UNCHANGED huskVars
  <2>1. dead' = dead /\ husks' = husks /\ deadSlots' = deadSlots /\ crowded' = crowded
    BY <1>1 DEF huskVars
  <2> QED BY <2>1, Zenon DEF HuskInv
<1>2. CASE \E target \in Nat : HuskRollback(target)
  BY <1>2, HuskRollbackKeeps
<1> QED BY <1>1, <1>2, HusksFollowed, HuskGameKeeps, HuskFrameKeeps, HuskArmKeeps, HuskDisarmKeeps

(* THEOREM.  The set of the husks answers for exactly the objects in the    *)
(* quarantine's table, but for those a death found no slot for: whatever    *)
(* the home of an object, the length of a walk and the order in which       *)
(* objects are inserted over tombstones, deleted and rebuilt (husk_add,     *)
(* husk_del, husk_rebuild_locked and is_held_husk of quarantine.cpp).       *)
THEOREM HusksAnswerForTheHeld == Spec => []HusksAreHeld
<1>1. HuskInv => HusksAreHeld
  <2> SUFFICES ASSUME HuskInv, NEW u \in Objects
               PROVE  /\ IsHusk(husks, u) => u \in Mourned
                      /\ u \in Mourned => IsHusk(husks, u) \/ crowded
    BY DEF HusksAreHeld
  <2>1. Sound(dead) /\ HuskOK(husks, Mourns(dead))
    BY Zenon DEF HuskInv, HusksOK
  <2>2. Mourned = Mourns(dead)
    BY <2>1, MournedIs DEF Mourned
  <2>3. IsHusk(husks, u) => u \in Mourned
    BY <2>1, <2>2, HuskIsOne
  <2>4. u \in Mourned => IsHusk(husks, u) \/ crowded
    BY <2>2, Zenon DEF HuskInv, HusksOK
  <2> QED BY <2>3, <2>4
<1> QED BY <1>1, ClockBoundedInitially, ClockBoundedKept, HuskInitially, HusksKept, PTL DEF Spec

----------------------------------------------------------------------------
(***************************************************************************)
(* ArenaRegions: the users of the carver's regions are put back by a        *)
(* rollback, while the carver stays as it is.                               *)
(***************************************************************************)

USE RegionAssumption

Extent == [offset : Nat, size : Nat \ {0}]

Inside(x, u) == u.offset <= x.offset /\ x.offset + x.size <= u.offset + u.size
Parts(x, u)  == Apart(x, u) \/ Inside(x, u)

(* What the carver has on its lists does not overlap.                       *)
CarverInv ==
  /\ watermark \in Nat
  /\ \A x \in freeList \cup reservations : x \in Extent /\ x.offset + x.size <= watermark
  /\ \A b, c \in freeList : b # c => Apart(b, c)
  /\ \A s, t \in reservations : s # t => Apart(s, t)
  /\ \A b \in freeList, s \in reservations : Apart(b, s)

Below(us, limit) == \A u \in us : u \in Extent /\ u.offset + u.size <= limit

(* Users at one moment, now or in a save: the carver may have cut up what   *)
(* they use, but nothing on its lists lies across the border of a region.   *)
UsersApart(h, p, lists) ==
  /\ h \cap p = {}
  /\ \A r, s \in h \cup p : r # s => Apart(r, s)
  /\ \A x \in lists, u \in h \cup p : Parts(x, u)

RegionInv ==
  /\ CarverInv
  /\ Below(held \cup pooled, watermark)
  /\ \A f \in DOMAIN regionSlots : Below(regionSlots[f].held \cup regionSlots[f].pooled, watermark)
  /\ ~crossed =>
       /\ UsersApart(held, pooled, freeList \cup reservations)
       /\ \A f \in DOMAIN regionSlots :
            UsersApart(regionSlots[f].held, regionSlots[f].pooled, freeList \cup reservations)
       /\ \A u \in (held \cup pooled) \ stale, b \in freeList : Apart(u, b)

----------------------------------------------------------------------------
(* Intervals.                                                               *)

LEMMA ApartSymmetric ==
  ASSUME NEW x, NEW y, Apart(x, y)
  PROVE  Apart(y, x)
  BY DEF Apart

LEMMA InsideApart ==
  ASSUME NEW x \in Extent, NEW y \in Extent, NEW u \in Extent, Inside(x, y), Apart(y, u)
  PROVE  Apart(x, u) /\ Apart(u, x)
  BY DEF Extent, Inside, Apart

LEMMA InsideParts ==
  ASSUME NEW x \in Extent, NEW y \in Extent, NEW u \in Extent, Inside(x, y), Parts(y, u)
  PROVE  Parts(x, u)
  BY DEF Extent, Inside, Apart, Parts

LEMMA BelowApart ==
  ASSUME NEW x \in Extent, NEW u \in Extent, u.offset + u.size <= x.offset
  PROVE  Apart(x, u) /\ Apart(u, x)
  BY DEF Extent, Apart

LEMMA NotApartFromItself ==
  ASSUME NEW x \in Extent
  PROVE  ~Apart(x, x)
  BY DEF Extent, Apart

LEMMA RegionExtent ==
  ASSUME NEW o \in Nat, NEW n \in Nat \ {0}
  PROVE  Region(o, n) \in Extent /\ Region(o, n).offset = o /\ Region(o, n).size = n
  BY DEF Region, Extent

(* A carve, from a block or at the watermark: where the new region lies,    *)
(* and what the free list holds then.                                       *)
LEMMA FoundPlace ==
  ASSUME CarverInv, NEW o \in Nat, NEW n \in Nat \ {0}, Found(o, n)
  PROVE  /\ watermark' \in Nat /\ watermark' >= watermark /\ o + n <= watermark'
         /\ \A y \in freeList' : \E x \in freeList : y \in Extent /\ Inside(y, x)
         /\ \A y \in freeList' : Apart(y, Region(o, n))
         /\ \A y, z \in freeList' : y # z => Apart(y, z)
         /\ \/ \E b \in freeList : Inside(Region(o, n), b)
            \/ o = watermark
<1> DEFINE new == Region(o, n)
<1>0. new \in Extent /\ new.offset = o /\ new.size = n
  BY RegionExtent
<1> HIDE DEF new
<1>1. ASSUME NEW b \in Fitting(n), o = b.offset, freeList' = (freeList \ {b}) \cup Rest(b, n),
             UNCHANGED watermark
      PROVE  /\ watermark' \in Nat /\ watermark' >= watermark /\ o + n <= watermark'
             /\ \A y \in freeList' : \E x \in freeList : y \in Extent /\ Inside(y, x)
             /\ \A y \in freeList' : Apart(y, new)
             /\ \A y, z \in freeList' : y # z => Apart(y, z)
             /\ \E x \in freeList : Inside(new, x)
  <2>1. b \in freeList /\ b \in Extent /\ b.size >= n /\ b.offset + b.size <= watermark
    BY <1>1 DEF Fitting, CarverInv
  <2>2. \A y \in Rest(b, n) : y \in Extent /\ Inside(y, b) /\ Apart(y, new)
    <3> TAKE y \in Rest(b, n)
    <3>1. b.size # n /\ y = Region(b.offset + n, b.size - n)
      BY DEF Rest
    <3>2. b.offset + n \in Nat /\ b.size - n \in Nat \ {0}
      BY <2>1, <3>1 DEF Extent
    <3>3. y \in Extent /\ y.offset = b.offset + n /\ y.size = b.size - n
      BY <3>1, <3>2, RegionExtent
    <3> QED BY <1>0, <1>1, <2>1, <3>3 DEF Extent, Inside, Apart
  <2>3. Inside(new, b)
    BY <1>0, <1>1, <2>1 DEF Extent, Inside
  <2>4. \A x \in freeList : x \in Extent /\ Inside(x, x)
    BY DEF CarverInv, Extent, Inside
  <2>5. \A x \in freeList \ {b} : Apart(b, x) /\ Apart(x, b)
    BY <2>1 DEF CarverInv
  <2>6. watermark' \in Nat /\ watermark' >= watermark /\ o + n <= watermark'
    BY <1>1, <2>1 DEF CarverInv, Extent
  <2>7. \A y \in freeList' : \E x \in freeList : y \in Extent /\ Inside(y, x)
    BY <1>1, <2>1, <2>2, <2>4
  <2>8. \A y \in freeList' : Apart(y, new)
    BY <1>0, <1>1, <2>1, <2>2, <2>3, <2>4, <2>5, InsideApart
  <2>9. \A y, z \in freeList' : y # z => Apart(y, z)
    <3>1. \A y, z \in Rest(b, n) : y = z
      BY DEF Rest
    <3>2. \A y \in Rest(b, n), z \in freeList \ {b} : Apart(y, z) /\ Apart(z, y)
      BY <2>1, <2>2, <2>4, <2>5, InsideApart
    <3>3. \A y, z \in freeList \ {b} : y # z => Apart(y, z)
      BY DEF CarverInv
    <3> QED BY <1>1, <3>1, <3>2, <3>3
  <2> QED BY <2>1, <2>3, <2>6, <2>7, <2>8, <2>9
<1>2. ASSUME o = watermark, watermark' = o + n, UNCHANGED freeList
      PROVE  /\ watermark' \in Nat /\ watermark' >= watermark /\ o + n <= watermark'
             /\ \A y \in freeList' : \E x \in freeList : y \in Extent /\ Inside(y, x)
             /\ \A y \in freeList' : Apart(y, new)
             /\ \A y, z \in freeList' : y # z => Apart(y, z)
  <2>1. \A x \in freeList : x \in Extent /\ Inside(x, x) /\ Apart(x, new)
    BY <1>0, <1>2 DEF CarverInv, Extent, Inside, Apart
  <2>2. watermark' \in Nat /\ watermark' >= watermark /\ o + n <= watermark'
    BY <1>2
  <2> QED BY <1>2, <2>1, <2>2 DEF CarverInv
<1>3. \/ \E b \in Fitting(n) : /\ o = b.offset
                               /\ freeList' = (freeList \ {b}) \cup Rest(b, n)
                               /\ UNCHANGED watermark
      \/ o = watermark /\ watermark' = o + n /\ UNCHANGED freeList
  BY DEF Found
<1> QED BY <1>1, <1>2, <1>3 DEF new

(* After a carve the lists do not overlap, nothing on them lies across a    *)
(* border it did not lie across, and the new region is nobody's who is not  *)
(* on the free list.                                                        *)
LEMMA PlacedKeeps ==
  ASSUME CarverInv, NEW o \in Nat, NEW n \in Nat \ {0}, Placed(o, n)
  PROVE  /\ CarverInv' /\ watermark' >= watermark
         /\ Region(o, n) \in Extent
         /\ Region(o, n).offset + Region(o, n).size <= watermark'
         /\ \A x \in freeList' \cup reservations' : Parts(x, Region(o, n))
         /\ \A y \in freeList' : Apart(Region(o, n), y)
         /\ \A u \in Extent : u.offset + u.size <= watermark =>
              /\ (\A x \in freeList \cup reservations : Parts(x, u))
                    => \A x \in freeList' \cup reservations' : Parts(x, u)
              /\ (\A b \in freeList : Apart(u, b))
                    => /\ \A b \in freeList' : Apart(u, b)
                       /\ Apart(u, Region(o, n)) /\ Apart(Region(o, n), u)
<1> DEFINE new == Region(o, n)
<1>0. new \in Extent /\ new.offset = o /\ new.size = n
  BY RegionExtent
<1> HIDE DEF new
<1>1. /\ watermark \in Nat /\ watermark' \in Nat /\ watermark' >= watermark /\ o + n <= watermark'
      /\ \A y \in freeList' : \E x \in freeList : y \in Extent /\ Inside(y, x)
      /\ \A y \in freeList' : Apart(y, new)
      /\ \A y, z \in freeList' : y # z => Apart(y, z)
      /\ (\E b \in freeList : Inside(new, b)) \/ o = watermark
  BY FoundPlace DEF Placed, new, CarverInv
<1>2. reservations' \subseteq reservations \cup {new}
  BY DEF Placed, new
<1>3. \A x \in freeList \cup reservations : x \in Extent /\ x.offset + x.size <= watermark
  BY DEF CarverInv
<1>4. \A s \in reservations : Apart(s, new) /\ Apart(new, s)
  <2> TAKE s \in reservations
  <2>1. CASE \E b \in freeList : Inside(new, b)
    <3>1. PICK b \in freeList : Inside(new, b)
      BY <2>1
    <3>2. Apart(b, s)
      BY DEF CarverInv
    <3> QED BY <1>0, <1>3, <3>1, <3>2, InsideApart
  <2>2. CASE o = watermark
    BY <1>0, <1>3, <2>2, BelowApart
  <2> QED BY <1>1, <2>1, <2>2
<1>5. \A y \in freeList', s \in reservations : Apart(y, s)
  <2> TAKE y \in freeList', s \in reservations
  <2>1. PICK x \in freeList : y \in Extent /\ Inside(y, x)
    BY <1>1
  <2>2. Apart(x, s)
    BY DEF CarverInv
  <2> QED BY <1>3, <2>1, <2>2, InsideApart
<1>6. \A y \in freeList' : y \in Extent /\ y.offset + y.size <= watermark
  <2> TAKE y \in freeList'
  <2>1. PICK x \in freeList : y \in Extent /\ Inside(y, x)
    BY <1>1
  <2> QED BY <1>1, <1>3, <2>1 DEF Extent, Inside
<1>7. CarverInv'
  <2>1. \A x \in freeList' \cup reservations' : x \in Extent /\ x.offset + x.size <= watermark'
    BY <1>0, <1>1, <1>2, <1>3, <1>6 DEF Extent
  <2>2. \A s, t \in reservations' : s # t => Apart(s, t)
    BY <1>2, <1>4 DEF CarverInv
  <2>3. \A b \in freeList', s \in reservations' : Apart(b, s)
    BY <1>1, <1>2, <1>5
  <2> QED BY <1>1, <2>1, <2>2, <2>3 DEF CarverInv
<1>8. \A y \in freeList' : Apart(new, y)
  BY <1>1, ApartSymmetric
<1>9. \A x \in freeList' \cup reservations' : Parts(x, new)
  <2>1. Inside(new, new)
    BY <1>0 DEF Extent, Inside
  <2> QED BY <1>1, <1>2, <1>4, <2>1 DEF Parts
<1>10. ASSUME NEW u \in Extent, u.offset + u.size <= watermark,
              \A x \in freeList \cup reservations : Parts(x, u)
       PROVE  \A x \in freeList' \cup reservations' : Parts(x, u)
  <2>1. \A y \in freeList' : Parts(y, u)
    <3> TAKE y \in freeList'
    <3>1. PICK x \in freeList : y \in Extent /\ Inside(y, x)
      BY <1>1
    <3> QED BY <1>3, <1>10, <3>1, InsideParts
  <2>2. Parts(new, u)
    <3>1. CASE \E b \in freeList : Inside(new, b)
      BY <1>0, <1>3, <1>10, <3>1, InsideParts
    <3>2. CASE o = watermark
      BY <1>0, <1>10, <3>2, BelowApart DEF Parts
    <3> QED BY <1>1, <3>1, <3>2
  <2> QED BY <1>2, <1>10, <2>1, <2>2
<1>11. ASSUME NEW u \in Extent, u.offset + u.size <= watermark, \A b \in freeList : Apart(u, b)
       PROVE  /\ \A b \in freeList' : Apart(u, b)
              /\ Apart(u, new) /\ Apart(new, u)
  <2>1. \A b \in freeList : Apart(b, u)
    BY <1>11, ApartSymmetric
  <2>2. \A y \in freeList' : Apart(u, y)
    <3> TAKE y \in freeList'
    <3>1. PICK x \in freeList : y \in Extent /\ Inside(y, x)
      BY <1>1
    <3> QED BY <1>3, <1>11, <2>1, <3>1, InsideApart
  <2>3. CASE \E b \in freeList : Inside(new, b)
    BY <1>0, <1>3, <1>11, <2>1, <2>2, <2>3, InsideApart
  <2>4. CASE o = watermark
    BY <1>0, <1>11, <2>2, <2>4, BelowApart
  <2> QED BY <1>1, <2>3, <2>4
<1>12. new.offset + new.size <= watermark'
  BY <1>0, <1>1
<1> QED BY <1>0, <1>1, <1>7, <1>8, <1>9, <1>10, <1>11, <1>12 DEF new

----------------------------------------------------------------------------
(* The steps.                                                               *)

LEMMA UsersStay ==
  ASSUME CarverInv, NEW o \in Nat, NEW n \in Nat \ {0}, Placed(o, n), NEW h, NEW p,
         Below(h \cup p, watermark), UsersApart(h, p, freeList \cup reservations)
  PROVE  UsersApart(h, p, freeList' \cup reservations')
  BY PlacedKeeps DEF Below, UsersApart

LEMMA BelowStays ==
  ASSUME CarverInv, NEW o \in Nat, NEW n \in Nat \ {0}, Placed(o, n), NEW us, Below(us, watermark)
  PROVE  Below(us, watermark')
<1>1. watermark \in Nat /\ watermark' \in Nat /\ watermark' >= watermark
  BY PlacedKeeps DEF CarverInv
<1> QED BY <1>1 DEF Below, Extent

(* The new region is apart from everything in use, for otherwise the carver *)
(* has given away a region that a rollback had brought back.                *)
LEMMA NewIsApart ==
  ASSUME RegionInv, NEW o \in Nat, NEW n \in Nat \ {0}, Placed(o, n), ~crossed'
  PROVE  /\ ~crossed
         /\ \A u \in held \cup pooled : Apart(u, Region(o, n)) /\ Apart(Region(o, n), u)
         /\ Region(o, n) \notin held \cup pooled
         /\ \A u \in (held \cup pooled) \ stale, b \in freeList' : Apart(u, b)
<1> DEFINE new == Region(o, n)
<1>1. ~crossed /\ \A r \in stale : Apart(r, new)
  BY DEF Placed, new
<1>2. CarverInv /\ \A u \in held \cup pooled : u \in Extent /\ u.offset + u.size <= watermark
  BY DEF RegionInv, Below
<1>3. new \in Extent
  BY RegionExtent DEF new
<1>4. \A u \in (held \cup pooled) \ stale : \A b \in freeList : Apart(u, b)
  BY <1>1 DEF RegionInv
<1>5. \A u \in (held \cup pooled) \ stale :
         (\A b \in freeList' : Apart(u, b)) /\ Apart(u, new) /\ Apart(new, u)
  BY <1>2, <1>4, PlacedKeeps DEF new
<1>6. \A u \in held \cup pooled : Apart(u, new) /\ Apart(new, u)
  BY <1>1, <1>5, ApartSymmetric
<1>7. new \notin held \cup pooled
  BY <1>3, <1>6, NotApartFromItself
<1> HIDE DEF new
<1> QED BY <1>1, <1>5, <1>6, <1>7 DEF new

LEMMA UsersGrow ==
  ASSUME NEW h, NEW p, NEW new, NEW lists, UsersApart(h, p, lists),
         \A u \in h \cup p : Apart(u, new) /\ Apart(new, u),
         new \notin h \cup p, \A x \in lists : Parts(x, new)
  PROVE  UsersApart(h \cup {new}, p, lists) /\ UsersApart(h, p \cup {new}, lists)
  BY DEF UsersApart

LEMMA ReserveKeeps ==
  ASSUME RegionInv, NEW n \in Sizes, Reserve(n)
  PROVE  RegionInv'
<1>1. PICK o \in 0..(Usable - 1) :
        /\ Placed(o, n) /\ held' = held \cup {Region(o, n)}
        /\ UNCHANGED <<pooled, donations, regionSlots, stale>>
  BY DEF Reserve
<1>2. o \in Nat /\ n \in Nat \ {0} /\ CarverInv
  BY DEF RegionInv
<1>3. CarverInv' /\ Below({Region(o, n)}, watermark')
  BY <1>1, <1>2, PlacedKeeps DEF Below
<1>4. Below(held \cup pooled, watermark')
  BY <1>1, <1>2, BelowStays DEF RegionInv
<1>5. \A f \in DOMAIN regionSlots : Below(regionSlots[f].held \cup regionSlots[f].pooled, watermark')
  BY <1>1, <1>2, BelowStays DEF RegionInv
<1>6. Below(held' \cup pooled', watermark')
  BY <1>1, <1>3, <1>4 DEF Below
<1>7. ASSUME ~crossed'
      PROVE  /\ UsersApart(held', pooled', freeList' \cup reservations')
             /\ \A f \in DOMAIN regionSlots :
                  UsersApart(regionSlots[f].held, regionSlots[f].pooled, freeList' \cup reservations')
             /\ \A u \in (held' \cup pooled') \ stale', b \in freeList' : Apart(u, b)
  <2>1. /\ ~crossed
        /\ \A u \in held \cup pooled : Apart(u, Region(o, n)) /\ Apart(Region(o, n), u)
        /\ Region(o, n) \notin held \cup pooled
        /\ \A u \in (held \cup pooled) \ stale, b \in freeList' : Apart(u, b)
    BY <1>1, <1>2, <1>7, NewIsApart
  <2>2. UsersApart(held, pooled, freeList' \cup reservations')
    BY <1>1, <1>2, <2>1, UsersStay DEF RegionInv
  <2>3. \A x \in freeList' \cup reservations' : Parts(x, Region(o, n))
    BY <1>1, <1>2, PlacedKeeps
  <2>4. UsersApart(held', pooled', freeList' \cup reservations')
    BY <1>1, <2>1, <2>2, <2>3, UsersGrow
  <2>5. \A f \in DOMAIN regionSlots :
          UsersApart(regionSlots[f].held, regionSlots[f].pooled, freeList' \cup reservations')
    BY <1>1, <1>2, <2>1, UsersStay DEF RegionInv
  <2>6. \A b \in freeList' : Apart(Region(o, n), b)
    BY <1>1, <1>2, PlacedKeeps
  <2>7. \A u \in (held' \cup pooled') \ stale', b \in freeList' : Apart(u, b)
    BY <1>1, <2>1, <2>6
  <2> QED BY <2>4, <2>5, <2>7
<1> QED BY <1>1, <1>3, <1>5, <1>6, <1>7 DEF RegionInv

LEMMA RecordKeeps ==
  ASSUME RegionInv, RecordRegions, UNCHANGED <<held, stale>>, CarverInv',
         Below(held \cup pooled', watermark'),
         \A f \in DOMAIN regionSlots : Below(regionSlots[f].held \cup regionSlots[f].pooled, watermark'),
         ~crossed' =>
           /\ UsersApart(held, pooled', freeList' \cup reservations')
           /\ \A f \in DOMAIN regionSlots :
                UsersApart(regionSlots[f].held, regionSlots[f].pooled, freeList' \cup reservations')
           /\ \A u \in (held \cup pooled') \ stale, b \in freeList' : Apart(u, b)
  PROVE  RegionInv'
<1>1. \A f \in DOMAIN regionSlots' :
        \/ regionSlots'[f] = [held |-> held, pooled |-> pooled']
        \/ f \in DOMAIN regionSlots /\ regionSlots'[f] = regionSlots[f]
  BY DEF RecordRegions
<1>2. \A f \in DOMAIN regionSlots' :
        \/ regionSlots'[f].held = held /\ regionSlots'[f].pooled = pooled'
        \/ /\ f \in DOMAIN regionSlots
           /\ regionSlots'[f].held = regionSlots[f].held
           /\ regionSlots'[f].pooled = regionSlots[f].pooled
  BY <1>1
<1>3. \A f \in DOMAIN regionSlots' :
        Below(regionSlots'[f].held \cup regionSlots'[f].pooled, watermark')
  BY <1>2
<1>4. ~crossed' =>
        \A f \in DOMAIN regionSlots' :
          UsersApart(regionSlots'[f].held, regionSlots'[f].pooled, freeList' \cup reservations')
  BY <1>2
<1> QED BY <1>3, <1>4 DEF RegionInv

LEMMA FrameKeeps ==
  ASSUME RegionInv, RegionFrame
  PROVE  RegionInv'
<1>0. RecordRegions /\ UNCHANGED <<held, stale>>
  BY DEF RegionFrame
<1>1. CASE UNCHANGED <<watermark, freeList, reservations, pooled, donations, crossed>>
  <2>1. CarverInv'
    BY <1>1 DEF RegionInv, CarverInv
  <2> QED BY <1>0, <1>1, <2>1, RecordKeeps DEF RegionInv
<1>2. CASE Donate
  <2> DEFINE n == DonationSize
  <2>1. PICK o \in 0..(Usable - 1) : Placed(o, n) /\ pooled' = pooled \cup {Region(o, n)}
    BY <1>2 DEF Donate
  <2>2. o \in Nat /\ n \in Nat \ {0} /\ CarverInv
    BY DEF RegionInv
  <2> HIDE DEF n
  <2>3. CarverInv' /\ Below({Region(o, n)}, watermark')
    BY <2>1, <2>2, PlacedKeeps DEF Below
  <2>4. Below(held \cup pooled, watermark')
    BY <2>1, <2>2, BelowStays DEF RegionInv
  <2>5. \A f \in DOMAIN regionSlots :
          Below(regionSlots[f].held \cup regionSlots[f].pooled, watermark')
    BY <2>1, <2>2, BelowStays DEF RegionInv
  <2>6. Below(held \cup pooled', watermark')
    BY <2>1, <2>3, <2>4 DEF Below
  <2>7. ASSUME ~crossed'
        PROVE  /\ UsersApart(held, pooled', freeList' \cup reservations')
               /\ \A f \in DOMAIN regionSlots :
                    UsersApart(regionSlots[f].held, regionSlots[f].pooled, freeList' \cup reservations')
               /\ \A u \in (held \cup pooled') \ stale, b \in freeList' : Apart(u, b)
    <3>1. /\ ~crossed
          /\ \A u \in held \cup pooled : Apart(u, Region(o, n)) /\ Apart(Region(o, n), u)
          /\ Region(o, n) \notin held \cup pooled
          /\ \A u \in (held \cup pooled) \ stale, b \in freeList' : Apart(u, b)
      BY <2>1, <2>2, <2>7, NewIsApart
    <3>2. UsersApart(held, pooled, freeList' \cup reservations')
      BY <2>1, <2>2, <3>1, UsersStay DEF RegionInv
    <3>3. \A x \in freeList' \cup reservations' : Parts(x, Region(o, n))
      BY <2>1, <2>2, PlacedKeeps
    <3>4. UsersApart(held, pooled', freeList' \cup reservations')
      BY <2>1, <3>1, <3>2, <3>3, UsersGrow
    <3>5. \A f \in DOMAIN regionSlots :
            UsersApart(regionSlots[f].held, regionSlots[f].pooled, freeList' \cup reservations')
      BY <2>1, <2>2, <3>1, UsersStay DEF RegionInv
    <3>6. \A b \in freeList' : Apart(Region(o, n), b)
      BY <2>1, <2>2, PlacedKeeps
    <3>7. \A u \in (held \cup pooled') \ stale, b \in freeList' : Apart(u, b)
      BY <2>1, <3>1, <3>6
    <3> QED BY <3>4, <3>5, <3>7
  <2> QED BY <1>0, <2>3, <2>5, <2>6, <2>7, RecordKeeps
<1> QED BY <1>1, <1>2 DEF RegionFrame

(* What goes back to the free list was the released region, or a piece of   *)
(* it that the carver had made while a rollback undid the region's release. *)
LEMMA ReleaseKeeps ==
  ASSUME RegionInv, NEW r \in held, Release(r)
  PROVE  RegionInv'
<1>1. /\ held' = held \ {r} /\ stale' = stale \ {r}
      /\ UNCHANGED <<watermark, pooled, regionSlots, crossed>>
  BY DEF Release
<1>2. freeList' \cup reservations' \subseteq freeList \cup reservations
  BY DEF Release
<1>3. CarverInv'
  <2>1. \A x \in freeList' \cup reservations' : x \in Extent /\ x.offset + x.size <= watermark'
    BY <1>1, <1>2 DEF RegionInv, CarverInv
  <2>2. CASE UNCHANGED <<reservations, freeList>>
    BY <1>1, <2>1, <2>2 DEF RegionInv, CarverInv
  <2>3. CASE \E s \in reservations : /\ reservations' = reservations \ {s}
                                    /\ freeList' \subseteq freeList \cup {s}
    <3>1. PICK s \in reservations : reservations' = reservations \ {s} /\ freeList' \subseteq freeList \cup {s}
      BY <2>3
    <3>2. \A b \in freeList : Apart(b, s) /\ Apart(s, b)
      BY ApartSymmetric DEF RegionInv, CarverInv
    <3>3. \A b, c \in freeList' : b # c => Apart(b, c)
      BY <3>1, <3>2 DEF RegionInv, CarverInv
    <3>4. \A t, q \in reservations' : t # q => Apart(t, q)
      BY <3>1 DEF RegionInv, CarverInv
    <3>5. \A b \in freeList', t \in reservations' : Apart(b, t)
      BY <3>1 DEF RegionInv, CarverInv
    <3> QED BY <1>1, <2>1, <3>3, <3>4, <3>5 DEF RegionInv, CarverInv
  <2> QED BY <2>2, <2>3 DEF Release
<1>4. Below(held' \cup pooled', watermark')
  BY <1>1 DEF RegionInv, Below
<1>5. ASSUME ~crossed'
      PROVE  /\ UsersApart(held', pooled', freeList' \cup reservations')
             /\ \A f \in DOMAIN regionSlots :
                  UsersApart(regionSlots[f].held, regionSlots[f].pooled, freeList' \cup reservations')
             /\ \A u \in (held' \cup pooled') \ stale', b \in freeList' : Apart(u, b)
  <2>1. /\ UsersApart(held, pooled, freeList \cup reservations)
        /\ \A u \in (held \cup pooled) \ stale, b \in freeList : Apart(u, b)
        /\ \A f \in DOMAIN regionSlots :
             UsersApart(regionSlots[f].held, regionSlots[f].pooled, freeList \cup reservations)
    BY <1>1, <1>5 DEF RegionInv
  <2>2. UsersApart(held', pooled', freeList' \cup reservations')
    BY <1>1, <1>2, <2>1 DEF UsersApart
  <2>3. \A f \in DOMAIN regionSlots :
          UsersApart(regionSlots[f].held, regionSlots[f].pooled, freeList' \cup reservations')
    BY <1>2, <2>1 DEF UsersApart
  <2>4. \A u \in (held' \cup pooled') \ stale' : u \in (held \cup pooled) \ stale /\ u # r
    BY <1>1, <2>1 DEF UsersApart
  <2>5. \A b \in freeList' : b \in freeList \/ (b \in reservations /\ b.offset = r.offset)
    BY DEF Release
  <2>6. ASSUME NEW u \in (held' \cup pooled') \ stale', NEW b \in freeList' PROVE Apart(u, b)
    <3>1. CASE b \in freeList
      BY <2>1, <2>4, <3>1
    <3>2. CASE b \in reservations /\ b.offset = r.offset
      <4>1. r \in Extent /\ b \in Extent /\ u \in Extent
        BY <2>4, <3>2 DEF RegionInv, CarverInv, Below
      <4>2. Parts(b, r) /\ Apart(r, u)
        BY <2>1, <2>4, <3>2 DEF UsersApart
      <4>3. Inside(b, r)
        BY <3>2, <4>1, <4>2 DEF Parts, Apart, Extent
      <4> QED BY <4>1, <4>2, <4>3, InsideApart
    <3> QED BY <2>5, <3>1, <3>2
  <2> QED BY <2>2, <2>3, <2>6
<1> QED BY <1>1, <1>3, <1>4, <1>5 DEF RegionInv

LEMMA RollbackKeeps ==
  ASSUME RegionInv, NEW target, RegionRollback(target)
  PROVE  RegionInv'
<1>1. /\ target \in DOMAIN regionSlots
      /\ held' = regionSlots[target].held /\ pooled' = regionSlots[target].pooled
      /\ stale' = {r \in held' \cup pooled' : \E b \in freeList : ~Apart(r, b)}
      /\ UNCHANGED <<watermark, freeList, reservations, regionSlots, crossed>>
  BY DEF RegionRollback
<1>2. CarverInv'
  BY <1>1 DEF RegionInv, CarverInv
<1>3. Below(held' \cup pooled', watermark')
  BY <1>1 DEF RegionInv
<1>4. \A u \in (held' \cup pooled') \ stale', b \in freeList' : Apart(u, b)
  BY <1>1
<1>5. ~crossed' => UsersApart(held', pooled', freeList' \cup reservations')
  BY <1>1 DEF RegionInv
<1> QED BY <1>1, <1>2, <1>3, <1>4, <1>5 DEF RegionInv

(* What a step does to the regions where they are followed, and elsewhere.  *)
RegionStep ==
  \/ RegionGame
  \/ RegionSwitch
  \/ RegionFrame
  \/ \E target \in Int : RegionRollback(target)
  \/ UNCHANGED regionVars

LEMMA RegionsFollowed ==
  ASSUME [WorldNext]_worldVars
  PROVE  /\ watched' = watched
         /\ watched = "regions" => RegionStep
         /\ watched # "regions" => UNCHANGED regionVars
<1>1. CASE UNCHANGED worldVars
  BY <1>1 DEF worldVars, RegionStep
<1>2. CASE Game
  BY <1>2 DEF Game, Carving, RegionStep
<1>3. CASE ArmWorld
  BY <1>3 DEF ArmWorld, Carving, RegionStep
<1>4. CASE DisarmWorld
  BY <1>4 DEF DisarmWorld, Carving, RegionStep
<1>5. CASE NextFrame
  BY <1>5 DEF NextFrame, Carving, RegionStep
<1>6. CASE ReplayedFrame
  BY <1>6 DEF ReplayedFrame, RegionStep
<1>7. CASE \E target \in (frame - MaxDepth)..(frame - 1) : GoBack(target)
  <2>1. PICK target \in (frame - MaxDepth)..(frame - 1) : GoBack(target)
    BY <1>7
  <2>2. target \in Int /\ Carving(RegionRollback(target)) /\ UNCHANGED watched
    BY <2>1 DEF GoBack
  <2> QED BY <2>2 DEF Carving, RegionStep
<1> QED BY <1>1, <1>2, <1>3, <1>4, <1>5, <1>6, <1>7 DEF WorldNext

LEMMA RegionStepKeeps ==
  ASSUME RegionInv, RegionStep
  PROVE  RegionInv'
<1>1. CASE RegionGame
  BY <1>1, ReserveKeeps, ReleaseKeeps DEF RegionGame
<1>2. CASE RegionSwitch
  <2>1. /\ DOMAIN regionSlots' = {}
        /\ UNCHANGED <<watermark, freeList, reservations, held, pooled, stale, crossed>>
    BY <1>2 DEF RegionSwitch
  <2> QED BY <2>1 DEF RegionInv, CarverInv
<1>3. CASE RegionFrame
  BY <1>3, FrameKeeps
<1>4. CASE \E target \in Int : RegionRollback(target)
  BY <1>4, RollbackKeeps
<1>5. CASE UNCHANGED regionVars
  BY <1>5 DEF regionVars, RegionInv, CarverInv
<1> QED BY <1>1, <1>2, <1>3, <1>4, <1>5 DEF RegionStep

(* Whatever the sizes, the room, the order of reservations, releases,       *)
(* donations and rollbacks, no two regions in use overlap, until the carver *)
(* gives away what a rollback had brought back (RegionsApart of the run     *)
(* world; hk_VirtualAlloc, hk_VirtualFree, carve_donation_region).          *)
THEOREM RegionsStayApart == Spec => []RegionsApart
<1>1. WorldInit => RegionInv
  <2> SUFFICES ASSUME WorldInit PROVE RegionInv
    OBVIOUS
  <2>1. /\ watermark = 0 /\ freeList = {} /\ reservations = {}
        /\ held = {} /\ pooled = {} /\ DOMAIN regionSlots = {}
    BY DEF WorldInit, RegionInit
  <2> QED BY <2>1 DEF RegionInv, CarverInv, Below, UsersApart
<1>2. RegionInv /\ [WorldNext]_worldVars => RegionInv'
  <2> SUFFICES ASSUME RegionInv, [WorldNext]_worldVars PROVE RegionInv'
    OBVIOUS
  <2>1. RegionStep
    BY RegionsFollowed DEF RegionStep
  <2> QED BY <2>1, RegionStepKeeps
<1>3. RegionInv => RegionsApart
  BY DEF RegionInv, UsersApart, RegionsApart
<1> QED BY <1>1, <1>2, <1>3, PTL DEF Spec
HIDE RegionAssumption

----------------------------------------------------------------------------
(* The types, part by part.  First the quarantine of the slabs.             *)

HeldEntry == [block : Blocks, frame : 0..MaxFrame, serial : 0..MaxSerial]

Capped(T) == T \subseteq HeldEntry /\ IsFiniteSet(T) /\ Cardinality(T) <= TableMax

Used    == [Blocks -> BOOLEAN]
Objected == [Blocks -> 0..MaxSerial]

SlotTyped(s) ==
  DOMAIN s = SlotParts /\ s.inUse \in Used /\ s.object \in Objected /\ Capped(s.table)

SlabTyped ==
  /\ inUse \in Used /\ births \in 0..MaxSerial /\ object \in Objected /\ serial \in Objected
  /\ Capped(table) /\ past \in {"straight", "turned", "blind"}
  /\ \A f \in DOMAIN slots : f \in 0..MaxFrame /\ SlotTyped(slots[f])

LEMMA SerialsAre == MaxSerial \in Nat /\ TableMax \in Nat /\ IsFiniteSet(Blocks) /\ MaxFrame \in Nat
  BY SlabAssumption, WorldAssumption

LEMMA CappedPart ==
  ASSUME NEW T, Capped(T), NEW U \in SUBSET T PROVE Capped(U)
<1>1. IsFiniteSet(U) /\ Cardinality(U) <= Cardinality(T)
  BY FS_Subset DEF Capped
<1>2. Cardinality(U) \in Nat /\ Cardinality(T) \in Nat
  BY <1>1, FS_CardinalityType DEF Capped
<1> QED BY <1>1, <1>2, SerialsAre DEF Capped

LEMMA CappedEmpty == Capped({})
  BY FS_EmptySet, SerialsAre DEF Capped

LEMMA CappedMore ==
  ASSUME NEW T, Capped(T), Cardinality(T) < TableMax, NEW e \in HeldEntry
  PROVE  Capped(T \cup {e})
<1>1. /\ IsFiniteSet(T \cup {e})
      /\ Cardinality(T \cup {e}) = IF e \in T THEN Cardinality(T) ELSE Cardinality(T) + 1
  BY FS_AddElement DEF Capped
<1>2. Cardinality(T) \in Nat
  BY FS_CardinalityType DEF Capped
<1>3. Cardinality(T \cup {e}) <= TableMax
  BY <1>1, <1>2, SerialsAre
<1> QED BY <1>1, <1>3 DEF Capped

LEMMA SlabTypedInitially == WorldInit => SlabTyped
<1> SUFFICES ASSUME WorldInit PROVE SlabTyped
  OBVIOUS
<1>1. SlabInit
  BY DEF WorldInit
<1>2. DOMAIN slots = {}
  BY <1>1 DEF SlabInit
<1> QED BY <1>1, <1>2, CappedEmpty, SerialsAre DEF SlabInit, SlabTyped, Used, Objected, Dead

LEMMA SlabGameTyped == ASSUME SlabTyped, ClockBounded, SlabGame PROVE SlabTyped'
<1>1. PICK b \in Blocks : Carve(b) \/ Free(b)
  BY DEF SlabGame
<1>2. slots' = slots /\ past' = past
  BY <1>1 DEF Carve, Free
<1>3. CASE Carve(b)
  BY <1>2, <1>3, SerialsAre DEF Carve, SlabTyped, Used, Objected
<1>4. CASE Free(b)
  <2>1. object' \in Objected /\ serial' = serial /\ births' = births
    BY <1>4, SerialsAre DEF Free, SlabTyped, Objected, Dead
  <2>2. inUse' \in Used
    BY <1>4 DEF Free, Held, SlabTyped, Used
  <2>3. Entry(b) \in HeldEntry
    BY DEF Entry, HeldEntry, Effective, ClockBounded, SlabTyped, Objected
  <2>4. Capped(table')
    BY <1>4, <2>3, CappedMore DEF Free, Held, SlabTyped
  <2> QED BY <1>2, <2>1, <2>2, <2>4 DEF SlabTyped
<1> QED BY <1>1, <1>3, <1>4

LEMMA SlabFrameTyped == ASSUME SlabTyped, ClockBounded, SlabFrame PROVE SlabTyped'
<1> DEFINE due == {e \in table : PastHorizon(e)}
<1>1. /\ inUse' = Without(Released(due)) /\ table' = table \ due
      /\ UNCHANGED <<object, serial, births, past>>
  BY DEF SlabFrame
<1>2. PICK valid \in BOOLEAN :
        slots' = [f \in {g \in DOMAIN slots : g > frame - RingSlots} \cup {frame} |->
                    IF f = frame THEN Saved(valid) ELSE slots[f]]
  <2>1. (IF SaveFails THEN BOOLEAN ELSE {TRUE}) \subseteq BOOLEAN
    OBVIOUS
  <2> QED BY <2>1, Zenon DEF SlabFrame
<1>3. inUse' \in Used
  BY <1>1 DEF Without, Used
<1>4. Capped(table')
  BY <1>1, CappedPart DEF SlabTyped
<1>5. SlotTyped(Saved(valid))
  <2>1. Capped(Saved(valid).table)
    BY <1>4, CappedEmpty DEF Saved
  <2> QED BY <1>3, <2>1 DEF SlotTyped, Saved, SlotParts, SlabTyped
<1>6. \A f \in DOMAIN slots' :
        \/ f = frame /\ slots'[f] = Saved(valid)
        \/ f \in DOMAIN slots /\ slots'[f] = slots[f]
  BY <1>2
<1>7. \A f \in DOMAIN slots' : f \in 0..MaxFrame /\ SlotTyped(slots'[f])
  BY <1>5, <1>6 DEF SlabTyped, ClockBounded
<1> QED BY <1>1, <1>3, <1>4, <1>7 DEF SlabTyped

LEMMA SlabRollbackTyped ==
  ASSUME SlabTyped, NEW target, SlabRollback(target) PROVE SlabTyped'
<1>1. SlotTyped(slots[target])
  BY DEF SlabRollback, SlabTyped
<1>2. inUse' \in Used /\ object' \in Objected /\ serial' = serial /\ births' = births
  BY <1>1 DEF SlabRollback, SlotTyped
<1>3. Capped(table')
  <2>1. table' = IF slots[target].valid THEN slots[target].table ELSE {e \in table : e.frame <= target}
    BY DEF SlabRollback, TableRestored
  <2> QED BY <1>1, <2>1, CappedPart DEF SlotTyped, SlabTyped
<1>4. past' \in {"straight", "turned", "blind"}
  BY DEF SlabRollback, Turned, SlabTyped
<1>5. \A f \in DOMAIN slots' : f \in 0..MaxFrame /\ SlotTyped(slots'[f])
  <2> TAKE f \in DOMAIN slots'
  <2>1. f \in DOMAIN slots /\ slots'[f] = [slots[f] EXCEPT !.left = @ \/ f > target]
    BY DEF SlabRollback
  <2>2. SlotTyped(slots[f]) /\ f \in 0..MaxFrame
    BY <2>1 DEF SlabTyped
  <2>3. /\ DOMAIN slots'[f] = SlotParts /\ slots'[f].inUse = slots[f].inUse
        /\ slots'[f].object = slots[f].object /\ slots'[f].table = slots[f].table
    BY <2>1, <2>2 DEF SlotTyped, SlotParts
  <2> QED BY <2>2, <2>3 DEF SlotTyped
<1> QED BY <1>2, <1>3, <1>4, <1>5 DEF SlabTyped

LEMMA SlabStepTyped == ASSUME SlabTyped, ClockBounded, SlabStep PROVE SlabTyped'
<1>1. CASE SlabArm
  <2>1. DOMAIN slots' = {} /\ UNCHANGED <<inUse, object, serial, births, table>>
        /\ past' \in {past, "straight"}
    BY <1>1 DEF SlabArm
  <2> QED BY <2>1 DEF SlabTyped
<1>2. CASE SlabDisarm
  <2>1. DOMAIN slots' = {} /\ UNCHANGED <<object, serial, births, past>> /\ table' = {}
        /\ inUse' = Without(Released(table))
    BY <1>2 DEF SlabDisarm
  <2>2. inUse' \in Used
    BY <2>1 DEF Without, Used
  <2> QED BY <2>1, <2>2, CappedEmpty DEF SlabTyped
<1>3. CASE UNCHANGED slabVars
  BY <1>3 DEF slabVars, SlabTyped
<1> QED BY <1>1, <1>2, <1>3, SlabGameTyped, SlabFrameTyped, SlabRollbackTyped DEF SlabStep

----------------------------------------------------------------------------
(* The voices: the pool is in the order of its stamps.                      *)

Waiting == [voice : 1..MaxVoices, stamp : 0..MaxFrame]

Ordered(q) == \A i, j \in DOMAIN q : i < j => q[i].stamp <= q[j].stamp

PoolOK(q, limit) ==
  /\ q \in Seq(Waiting) /\ Len(q) <= PoolMax /\ Ordered(q)
  /\ \A i \in DOMAIN q : q[i].stamp <= limit

Images == [Fields -> 0..MaxVoices]

VoiceTyped ==
  /\ created \in 0..MaxVoices /\ field \in Images
  /\ clock \in 0..MaxFrame /\ clock <= frame /\ PoolOK(pool, clock)
  /\ gone \subseteq 1..MaxVoices /\ excused \subseteq 1..MaxVoices
  /\ \A f \in DOMAIN images : f \in 0..MaxFrame /\ images[f] \in Images

LEMMA VoicesAre == MaxVoices \in Nat /\ PoolMax \in Nat \ {0} /\ MaxFrame \in Nat
  BY VoiceAssumption, WorldAssumption

LEMMA PoolIs ==
  ASSUME NEW q, NEW c, PoolOK(q, c)
  PROVE  /\ Len(q) \in Nat /\ DOMAIN q = 1..Len(q)
         /\ \A i \in 1..Len(q) :
              q[i] \in Waiting /\ q[i].voice \in 1..MaxVoices /\ q[i].stamp \in 0..MaxFrame
<1> DEFINE W == Waiting
<1>1. q \in Seq(W)
  BY DEF PoolOK
<1>2. \A w \in W : w.voice \in 1..MaxVoices /\ w.stamp \in 0..MaxFrame
  BY DEF Waiting
<1> HIDE DEF W
<1>3. Len(q) \in Nat /\ DOMAIN q = 1..Len(q) /\ \A i \in 1..Len(q) : q[i] \in W
  BY <1>1
<1> QED BY <1>2, <1>3 DEF W

LEMMA PoolEmpty == ASSUME NEW c PROVE PoolOK(<<>>, c)
<1> DEFINE W == Waiting
<1>1. <<>> \in Seq(W) /\ DOMAIN <<>> = {} /\ Len(<<>>) = 0
  OBVIOUS
<1> QED BY <1>1, VoicesAre DEF PoolOK, Ordered

LEMMA PoolAppended ==
  ASSUME NEW c \in 0..MaxFrame, NEW q, PoolOK(q, c), Len(q) < PoolMax, NEW v \in 1..MaxVoices
  PROVE  PoolOK(Append(q, [voice |-> v, stamp |-> c]), c)
<1> DEFINE W == Waiting
           e == [voice |-> v, stamp |-> c]
           t == Append(q, e)
           n == Len(q)
<1>1. q \in Seq(W) /\ e \in W /\ e.stamp = c
  BY DEF PoolOK, Waiting
<1> HIDE DEF W, e
<1>2. /\ t \in Seq(W) /\ Len(t) = n + 1 /\ n \in Nat /\ DOMAIN t = 1..(n + 1)
      /\ (\A i \in 1..n : t[i] = q[i]) /\ t[n + 1] = e
  BY <1>1
<1>3. /\ \A i, j \in 1..n : i < j => q[i].stamp <= q[j].stamp
      /\ \A i \in 1..n : q[i].stamp <= c
  BY PoolIs DEF PoolOK, Ordered
<1> HIDE DEF t
<1>4. n + 1 <= PoolMax
  BY <1>2, VoicesAre
<1> HIDE DEF n
<1>5. \A i \in 1..(n + 1) : i \in 1..n \/ i = n + 1
  BY <1>2
<1>6. \A i \in 1..(n + 1) : t[i].stamp <= c
  BY <1>1, <1>2, <1>3, <1>5
<1>7. \A i, j \in 1..(n + 1) : i < j => t[i].stamp <= t[j].stamp
  <2> TAKE i, j \in 1..(n + 1)
  <2> HAVE i < j
  <2>1. i \in 1..n
    BY <1>2
  <2>2. CASE j = n + 1
    BY <1>1, <1>2, <1>3, <2>1, <2>2
  <2>3. CASE j \in 1..n
    BY <1>2, <1>3, <2>1, <2>3
  <2> QED BY <1>5, <2>2, <2>3
<1> QED BY <1>2, <1>4, <1>6, <1>7 DEF PoolOK, Ordered, W, t, e

(* Dropping the first entries.                                              *)
LEMMA PoolShortened ==
  ASSUME NEW c, NEW q, PoolOK(q, c), NEW n \in 0..Len(q)
  PROVE  /\ PoolOK(SubSeq(q, n + 1, Len(q)), c)
         /\ Len(SubSeq(q, n + 1, Len(q))) = Len(q) - n
<1> DEFINE W == Waiting
           m == Len(q)
           t == SubSeq(q, n + 1, m)
<1>1. q \in Seq(W)
  BY DEF PoolOK
<1> HIDE DEF W
<1>2. m \in Nat /\ DOMAIN q = 1..m
  BY <1>1
<1> HIDE DEF m
<1>10. \A i \in (n + 1)..m : q[i] \in W
  BY <1>1, <1>2
<1>11. /\ t \in Seq(W)
       /\ Len(t) = IF n + 1 <= m THEN m - (n + 1) + 1 ELSE 0
       /\ \A i \in 1..(m - (n + 1) + 1) : t[i] = q[(n + 1) + i - 1]
  BY <1>2, <1>10, SubSeqProperties
<1>3. t \in Seq(W)
  BY <1>11
<1> HIDE DEF t
<1>12. m - (n + 1) + 1 = m - n /\ (n + 1 <= m \/ m - n = 0) /\ \A i \in Int : (n + 1) + i - 1 = n + i
  BY <1>2
<1>4. Len(t) = m - n /\ DOMAIN t = 1..(m - n) /\ \A i \in 1..(m - n) : t[i] = q[n + i]
  <2>1. Len(t) = m - n
    BY <1>11, <1>12
  <2>2. \A i \in 1..(m - n) : t[i] = q[n + i]
    BY <1>11, <1>12
  <2> QED BY <1>3, <2>1, <2>2
<1>5. /\ m <= PoolMax
      /\ \A i, j \in 1..m : i < j => q[i].stamp <= q[j].stamp
      /\ \A i \in 1..m : q[i].stamp <= c
  BY <1>2 DEF PoolOK, Ordered, m
<1>6. \A i \in 1..(m - n) : n + i \in 1..m
  BY <1>2
<1>7. m - n <= PoolMax
  BY <1>2, <1>5, VoicesAre
<1>8. \A i, j \in 1..(m - n) : i < j => t[i].stamp <= t[j].stamp
  <2> TAKE i, j \in 1..(m - n)
  <2> HAVE i < j
  <2>1. n + i \in 1..m /\ n + j \in 1..m /\ n + i < n + j
    BY <1>2, <1>6
  <2> QED BY <1>4, <1>5, <2>1
<1>9. \A i \in 1..(m - n) : t[i].stamp <= c
  BY <1>4, <1>5, <1>6
<1> QED BY <1>3, <1>4, <1>7, <1>8, <1>9 DEF PoolOK, Ordered, W, t, m

LEMMA PoolLater ==
  ASSUME NEW c \in Int, NEW d \in Int, c <= d, NEW q, PoolOK(q, c) PROVE PoolOK(q, d)
<1>0. DOMAIN q = 1..Len(q) /\ \A i \in 1..Len(q) : q[i].stamp \in 0..MaxFrame
  BY PoolIs
<1>3. \A i \in DOMAIN q : q[i].stamp <= c
  BY DEF PoolOK
<1>1. \A i \in DOMAIN q : q[i].stamp \in Int /\ q[i].stamp <= c
  BY <1>0, <1>3
<1>2. \A i \in DOMAIN q : q[i].stamp <= d
  BY <1>1
<1> QED BY <1>2 DEF PoolOK

LEMMA PoolResumed ==
  ASSUME NEW c \in 0..MaxFrame, NEW q, PoolOK(q, c)
  PROVE  PoolOK([i \in DOMAIN q |-> [q[i] EXCEPT !.stamp = c]], c)
<1> DEFINE n == Len(q)
           t == [i \in DOMAIN q |-> [q[i] EXCEPT !.stamp = c]]
<1>1. n \in Nat /\ DOMAIN q = 1..n /\ \A i \in 1..n : q[i] \in Waiting
  BY PoolIs
<1>2. n <= PoolMax
  BY DEF PoolOK
<1> HIDE DEF n
<1>3. \A i \in 1..n : t[i] \in Waiting /\ t[i].stamp = c
  BY <1>1 DEF Waiting
<1>4. DOMAIN t = 1..n
  BY <1>1
<1>5. t \in [1..n -> Waiting]
  BY <1>1, <1>3
<1> HIDE DEF t
<1>6. t \in Seq(Waiting) /\ Len(t) = n
  <2> DEFINE W == Waiting
  <2>1. t \in [1..n -> W]
    BY <1>5
  <2> HIDE DEF W
  <2>2. t \in Seq(W) /\ Len(t) = n
    BY <1>1, <2>1
  <2> QED BY <2>2 DEF W
<1>7. \A i, j \in DOMAIN t : t[i].stamp <= t[j].stamp /\ t[i].stamp <= c
  BY <1>3, <1>4
<1> QED BY <1>2, <1>6, <1>7 DEF PoolOK, Ordered, t

LEMMA VoiceTypedInitially == WorldInit => VoiceTyped
<1> SUFFICES ASSUME WorldInit PROVE VoiceTyped
  OBVIOUS
<1>1. /\ field = [p \in Fields |-> 0] /\ created = 0 /\ frame = 0
      /\ pool = <<>> /\ clock = 0 /\ gone = {} /\ DOMAIN images = {} /\ excused = {}
  BY DEF WorldInit, VoiceInit, ClockInit, NoVoice
<1>2. field \in Images
  BY <1>1, VoicesAre DEF Images
<1> QED BY <1>1, <1>2, PoolEmpty, VoicesAre DEF VoiceTyped

LEMMA VoiceGameTyped == ASSUME VoiceTyped, ClockBounded, VoiceGame, UNCHANGED clockVars PROVE VoiceTyped'
<1>1. frame' = frame
  BY DEF clockVars
<1>2. ASSUME NEW p \in Fields, Create(p) PROVE VoiceTyped'
  <2>1. created + 1 \in 1..MaxVoices
    BY <1>2, VoicesAre DEF Create, VoiceTyped
  <2>2. field' \in Images
    BY <1>2, <2>1 DEF Create, VoiceTyped, Images
  <2> QED BY <1>1, <1>2, <2>1, <2>2 DEF Create, VoiceTyped
<1>3. ASSUME NEW p \in Fields, Destroy(p) PROVE VoiceTyped'
  <2> DEFINE v == field[p]
  <2>1. v \in 1..MaxVoices
    BY <1>3, VoicesAre DEF Destroy, VoiceTyped, Images, NoVoice
  <2>2. field' \in Images
    BY <1>3, VoicesAre DEF Destroy, VoiceTyped, Images, NoVoice
  <2>3. created' = created /\ clock' = clock /\ images' = images
    BY <1>3 DEF Destroy
  <2>4. PoolOK(pool, clock) /\ clock \in 0..MaxFrame
    BY DEF VoiceTyped
  <2> HIDE DEF v
  <2>5. PoolOK(pool', clock) /\ gone' \subseteq 1..MaxVoices /\ excused' \subseteq 1..MaxVoices
    <3>1. CASE on /\ Len(pool) < PoolMax
      <4>1. pool' = Append(pool, [voice |-> v, stamp |-> clock]) /\ gone' = gone /\ excused' = excused
        BY <1>3, <3>1 DEF Destroy, Deferred, v
      <4> QED BY <2>1, <2>4, <3>1, <4>1, PoolAppended DEF VoiceTyped
    <3>2. CASE on /\ ~(Len(pool) < PoolMax)
      <4>1. /\ pool' = Append(Tail(pool), [voice |-> v, stamp |-> clock])
            /\ gone' = gone \cup {Head(pool).voice} /\ excused' = excused \cup {Head(pool).voice}
        BY <1>3, <3>2 DEF Destroy, Deferred, v
      <4>2. Len(pool) \in Nat /\ Len(pool) > 0 /\ Len(pool) <= PoolMax
        BY <2>4, <3>2, PoolIs, VoicesAre DEF PoolOK
      <4>3. Head(pool) = pool[1]
        OBVIOUS
      <4>4. Head(pool).voice \in 1..MaxVoices
        BY <2>4, <4>2, <4>3, PoolIs
      <4>5. Tail(pool) = SubSeq(pool, 1 + 1, Len(pool))
        OBVIOUS
      <4>9. 1 \in 0..Len(pool)
        BY <4>2
      <4>6. PoolOK(Tail(pool), clock) /\ Len(Tail(pool)) = Len(pool) - 1
        BY <2>4, <4>5, <4>9, PoolShortened
      <4>7. Len(Tail(pool)) < PoolMax
        BY <4>2, <4>6, VoicesAre
      <4>8. PoolOK(pool', clock)
        BY <2>1, <2>4, <4>1, <4>6, <4>7, PoolAppended
      <4> QED BY <4>1, <4>4, <4>8 DEF VoiceTyped
    <3>3. CASE ~on
      <4>1. pool' = pool /\ excused' = excused /\ gone' = gone \cup {v}
        BY <1>3, <3>3 DEF Destroy, v
      <4> QED BY <2>1, <2>4, <4>1 DEF VoiceTyped
    <3> QED BY <3>1, <3>2, <3>3
  <2> QED BY <1>1, <2>2, <2>3, <2>5 DEF VoiceTyped
<1> QED BY <1>2, <1>3 DEF VoiceGame

LEMMA VoiceFrameTyped == ASSUME VoiceTyped, ClockBounded, VoiceFrame, Forward PROVE VoiceTyped'
<1>1. PICK n \in 0..Len(pool) :
        /\ pool' = SubSeq(pool, n + 1, Len(pool))
        /\ gone' = gone \cup {pool[i].voice : i \in 1..n}
  BY DEF VoiceFrame
<1>2. /\ clock' = frame /\ frame' = frame + 1 /\ created' = created /\ field' = field
      /\ excused' = excused
  BY DEF VoiceFrame, Forward
<1>3. PoolOK(pool, clock) /\ clock \in 0..MaxFrame /\ clock <= frame /\ frame \in 0..MaxFrame
  BY DEF VoiceTyped, ClockBounded
<1>4. Len(pool) \in Nat /\ \A i \in 1..Len(pool) : pool[i].voice \in 1..MaxVoices
  BY <1>3, PoolIs
<1>5. gone' \subseteq 1..MaxVoices
  <2>1. \A i \in 1..n : i \in 1..Len(pool)
    BY <1>4
  <2>2. gone \subseteq 1..MaxVoices
    BY DEF VoiceTyped
  <2> QED BY <1>1, <1>4, <2>1, <2>2
<1>6. PoolOK(pool', clock')
  <2>1. PoolOK(pool', clock)
    BY <1>1, <1>3, PoolShortened
  <2>2. clock \in Int /\ frame \in Int
    BY <1>3
  <2> QED BY <1>2, <1>3, <2>1, <2>2, PoolLater
<1>7. \A f \in DOMAIN images' : f \in 0..MaxFrame /\ images'[f] \in Images
  BY <1>3 DEF VoiceFrame, VoiceTyped
<1>8. clock' \in 0..MaxFrame /\ clock' <= frame'
  BY <1>2, <1>3
<1> QED BY <1>2, <1>5, <1>6, <1>7, <1>8 DEF VoiceTyped

LEMMA VoiceStepTyped == ASSUME VoiceTyped, ClockBounded, VoiceStep PROVE VoiceTyped'
<1>0. PoolOK(pool, clock) /\ clock \in 0..MaxFrame
  BY DEF VoiceTyped
<1>9. Kept \subseteq 1..MaxVoices
  BY <1>0, PoolIs DEF Kept
<1>1. CASE VoiceGame /\ UNCHANGED clockVars
  BY <1>1, VoiceGameTyped
<1>2. CASE VoiceArm /\ Arm
  <2>1. DOMAIN images' = {} /\ UNCHANGED <<field, created, pool, clock, gone, excused, frame>>
    BY <1>2 DEF VoiceArm, Arm
  <2> QED BY <2>1 DEF VoiceTyped
<1>3. CASE VoiceDisarm /\ Disarm
  <2>1. /\ DOMAIN images' = {} /\ UNCHANGED <<field, created, clock, excused, frame>>
        /\ pool' = <<>> /\ gone' = gone \cup Kept
    BY <1>3 DEF VoiceDisarm, Disarm
  <2> QED BY <1>9, <2>1, PoolEmpty DEF VoiceTyped
<1>4. CASE VoiceFrame /\ Forward
  BY <1>4, VoiceFrameTyped
<1>5. CASE \E target \in Nat : VoiceRollback(target) /\ Rollback(target)
  <2>1. PICK target \in DOMAIN images :
          /\ field' = images[target] /\ UNCHANGED <<created, pool, clock, gone, images, frame>>
          /\ excused' = excused \cup ({field'[p] : p \in Fields} \cap Kept)
    BY <1>5 DEF VoiceRollback, Rollback
  <2>2. excused' \subseteq 1..MaxVoices
    BY <1>9, <2>1 DEF VoiceTyped
  <2> QED BY <2>1, <2>2 DEF VoiceTyped
<1>6. CASE VoiceResume /\ (Replay \/ UNCHANGED clockVars)
  <2>1. /\ pool' = [i \in DOMAIN pool |-> [pool[i] EXCEPT !.stamp = clock]]
        /\ UNCHANGED <<field, created, clock, gone, images, excused, frame>>
    BY <1>6 DEF VoiceResume, Replay, clockVars
  <2>2. PoolOK(pool', clock)
    BY <1>0, <2>1, PoolResumed
  <2> QED BY <2>1, <2>2 DEF VoiceTyped
<1>7. CASE UNCHANGED voiceVars /\ (Replay \/ UNCHANGED clockVars)
  <2>1. UNCHANGED <<field, created, pool, clock, gone, images, excused, frame>>
    BY <1>7 DEF voiceVars, Replay, clockVars
  <2> QED BY <2>1 DEF VoiceTyped
<1> QED BY <1>1, <1>2, <1>3, <1>4, <1>5, <1>6, <1>7 DEF VoiceStep

----------------------------------------------------------------------------
(* The surfaces: a count is released only when it covers somebody.          *)

SurfaceWord == Handles \cup {Null, Absent}

SurfaceTyped ==
  /\ made \in 0..MaxViews /\ surface \in [Wrappers -> SurfaceWord] /\ references \in [Handles -> Nat]
  /\ known \subseteq Wrappers /\ destroyed \subseteq Wrappers /\ ctorset \subseteq Wrappers
  /\ forgotten \in BOOLEAN
  /\ \A f \in DOMAIN views : /\ DOMAIN views[f] = {"surface", "lost"}
                             /\ views[f].surface \in [Wrappers -> SurfaceWord]

LEMMA SurfaceTypedInitially == WorldInit => SurfaceTyped
<1> SUFFICES ASSUME WorldInit PROVE SurfaceTyped
  OBVIOUS
<1>1. /\ surface = [w \in Wrappers |-> Absent] /\ references = [h \in Handles |-> 0]
      /\ known = {} /\ destroyed = {} /\ ctorset = {} /\ DOMAIN views = {}
      /\ made = 0 /\ forgotten = FALSE
  BY DEF WorldInit, SurfaceInit
<1>2. surface \in [Wrappers -> SurfaceWord] /\ references \in [Handles -> Nat]
  BY <1>1 DEF SurfaceWord
<1>3. 0 \in 0..MaxViews
  BY SurfaceAssumption
<1> QED BY <1>1, <1>2, <1>3 DEF SurfaceTyped

LEMMA LostTyped ==
  ASSUME SurfaceTyped, NEW ws
  PROVE  \A f \in DOMAIN Lost(ws) : /\ DOMAIN Lost(ws)[f] = {"surface", "lost"}
                                    /\ Lost(ws)[f].surface \in [Wrappers -> SurfaceWord]
<1> TAKE f \in DOMAIN Lost(ws)
<1>1. f \in DOMAIN views /\ Lost(ws)[f] = [views[f] EXCEPT !.lost = @ \cup ws]
  BY DEF Lost
<1>2. DOMAIN views[f] = {"surface", "lost"} /\ views[f].surface \in [Wrappers -> SurfaceWord]
  BY <1>1 DEF SurfaceTyped
<1> QED BY <1>1, <1>2

LEMMA SurfaceGameTyped ==
  ASSUME SurfaceTyped, SurfaceGame, SurfaceInv'
  PROVE  SurfaceTyped'
<1>1. \E w \in Wrappers : (\E h \in Handles : Constructed(w, h)) \/ DestroyView(w)
  BY DEF SurfaceGame, CreateSurface, WrapSurface
<1>2. ~forgotten
  BY DEF SurfaceGame
<1>3. ASSUME NEW w \in Wrappers, NEW h \in Handles, Constructed(w, h) PROVE SurfaceTyped'
  <2>1. /\ made < MaxViews /\ made' = made + 1 /\ forgotten' = forgotten
        /\ surface' = [surface EXCEPT ![w] = h]
        /\ references' = [references EXCEPT ![h] = @ + 1]
        /\ known' = known \cup {w} /\ destroyed' = destroyed \ {w}
        /\ views' = Lost(destroyed \cap {w})
        /\ ctorset' = ctorset \cup {w} \/ ctorset' = ctorset
    BY <1>3 DEF Constructed
  <2>2. surface' \in [Wrappers -> SurfaceWord] /\ references' \in [Handles -> Nat]
    BY <2>1 DEF SurfaceTyped, SurfaceWord
  <2>3. made' \in 0..MaxViews
    BY <2>1, SurfaceAssumption DEF SurfaceTyped
  <2>4. \A f \in DOMAIN views' : /\ DOMAIN views'[f] = {"surface", "lost"}
                                 /\ views'[f].surface \in [Wrappers -> SurfaceWord]
    BY <2>1, LostTyped
  <2> QED BY <2>1, <2>2, <2>3, <2>4 DEF SurfaceTyped
<1>4. ASSUME NEW w \in Wrappers, DestroyView(w) PROVE SurfaceTyped'
  <2>1. /\ surface' = [surface EXCEPT ![w] = Absent] /\ made' = made
        /\ forgotten' = forgotten /\ ctorset' = ctorset
    BY <1>4 DEF DestroyView
  <2>2. surface' \in [Wrappers -> SurfaceWord]
    BY <2>1 DEF SurfaceTyped, SurfaceWord
  <2>3. references' \in [Handles -> Nat]
    <3>1. references' \in [Handles -> Int] /\ \A h \in Handles : Covered(h)'
      BY <1>2, <2>1 DEF SurfaceInv
    <3>2. ASSUME NEW h \in Handles PROVE references'[h] \in Nat
      <4>0. Old(h)' \in SUBSET Wrappers /\ New(h)' \in SUBSET Wrappers
        BY DEF Old, New, Claims, Users
      <4>1. /\ Cardinality(Old(h)') \in Nat /\ Cardinality(New(h)') \in Nat
            /\ Cardinality(Old(h)') + Cardinality(New(h)') <= references'[h]
        BY <3>1, <4>0, BothSets DEF Covered
      <4>2. references'[h] \in Int
        BY <3>1
      <4> QED BY <4>1, <4>2
    <3> QED BY <3>1, <3>2
  <2>4. /\ known' \subseteq Wrappers /\ destroyed' \subseteq Wrappers
        /\ views' = views \/ views' = Lost({w})
    BY <1>4 DEF DestroyView, Died, SurfaceTyped
  <2>5. \A f \in DOMAIN views' : /\ DOMAIN views'[f] = {"surface", "lost"}
                                 /\ views'[f].surface \in [Wrappers -> SurfaceWord]
    BY <2>4, LostTyped DEF SurfaceTyped
  <2> QED BY <2>1, <2>2, <2>3, <2>4, <2>5 DEF SurfaceTyped
<1> QED BY <1>1, <1>3, <1>4

LEMMA SurfaceRollbackTyped ==
  ASSUME SurfaceTyped, NEW target, SurfaceRollback(target) PROVE SurfaceTyped'
<1>1. /\ target \in DOMAIN views /\ surface' = Severed(views[target].surface)
      /\ destroyed' = {} /\ ctorset' = {} /\ views' = Lost(destroyed)
      /\ UNCHANGED <<references, known, made>>
  BY DEF SurfaceRollback
<1>2. forgotten' \in BOOLEAN
  BY Zenon DEF SurfaceRollback
<1>3. views[target].surface \in [Wrappers -> SurfaceWord] /\ surface \in [Wrappers -> SurfaceWord]
  BY <1>1 DEF SurfaceTyped
<1>4. surface' \in [Wrappers -> SurfaceWord]
  <2> DEFINE loaded == views[target].surface
  <2>1. loaded \in [Wrappers -> SurfaceWord]
    BY <1>3
  <2> HIDE DEF loaded
  <2>2. \A w \in Wrappers : (CASE loaded[w] = Absent          -> Absent
                              [] w \in Preserved              -> surface[w]
                              [] w \in destroyed \ Preserved  -> Null
                              [] OTHER                        -> loaded[w]) \in SurfaceWord
    <3> HIDE DEF Preserved
    <3> TAKE w \in Wrappers
    <3>1. loaded[w] \in SurfaceWord /\ surface[w] \in SurfaceWord /\ Absent \in SurfaceWord /\ Null \in SurfaceWord
      BY <1>3, <2>1 DEF SurfaceWord
    <3> HIDE DEF SurfaceWord
    <3>2. CASE loaded[w] = Absent /\ w \in Preserved
      BY <3>1, <3>2
    <3>3. CASE loaded[w] = Absent /\ w \notin Preserved
      BY <3>1, <3>3
    <3>4. CASE loaded[w] # Absent
      BY <3>1, <3>4
    <3> QED BY <3>2, <3>3, <3>4
  <2>3. Severed(loaded) \in [Wrappers -> SurfaceWord]
    BY <2>2 DEF Severed
  <2> QED BY <1>1, <2>3 DEF loaded
<1>5. \A f \in DOMAIN views' : /\ DOMAIN views'[f] = {"surface", "lost"}
                               /\ views'[f].surface \in [Wrappers -> SurfaceWord]
  BY <1>1, LostTyped
<1> QED BY <1>1, <1>2, <1>4, <1>5 DEF SurfaceTyped

LEMMA SurfaceStepTyped ==
  ASSUME SurfaceTyped, SurfaceStep, SurfaceInv'
  PROVE  SurfaceTyped'
<1>1. CASE SurfaceSwitch
  <2>1. DOMAIN views' = {}
        /\ UNCHANGED <<surface, references, known, destroyed, ctorset, made, forgotten>>
    BY <1>1 DEF SurfaceSwitch
  <2> QED BY <2>1 DEF SurfaceTyped
<1>2. CASE SurfaceFrame
  <2>1. UNCHANGED <<surface, references, known, destroyed, ctorset, made, forgotten>>
    BY <1>2 DEF SurfaceFrame
  <2>2. \A f \in DOMAIN views' : \/ views'[f] = [surface |-> surface, lost |-> {}]
                                 \/ f \in DOMAIN views /\ views'[f] = views[f]
    BY <1>2 DEF SurfaceFrame
  <2>3. \A f \in DOMAIN views' : /\ DOMAIN views'[f] = {"surface", "lost"}
                                 /\ views'[f].surface \in [Wrappers -> SurfaceWord]
    BY <2>2 DEF SurfaceTyped
  <2> QED BY <2>1, <2>3 DEF SurfaceTyped
<1>3. CASE UNCHANGED surfaceVars
  BY <1>3 DEF surfaceVars, SurfaceTyped
<1> QED BY <1>1, <1>2, <1>3, SurfaceGameTyped, SurfaceRollbackTyped DEF SurfaceStep

----------------------------------------------------------------------------
(* The parts: no content is of an instant that is still to come.            *)

Instants(n) == {Blank} \cup 0..n
Spread(n) == [Restored \cup Present -> Instants(n)]

PartsTyped ==
  /\ now \in Nat /\ parts \in Spread(now) /\ baseline \in Instants(now)
  /\ Len(ring) <= PartSlots
  /\ \A i \in DOMAIN ring : ring[i].parts \in Spread(now)
  /\ \A f \in DOMAIN pages : pages[f] \in Instants(now)
  /\ reverted \in {Live} \cup 0..MaxFrame /\ missed \subseteq Short

LEMMA PartsTypedInitially == WorldInit => PartsTyped
<1> SUFFICES ASSUME WorldInit PROVE PartsTyped
  OBVIOUS
<1>1. /\ parts = [p \in Restored \cup Present |-> 0] /\ now = 0 /\ DOMAIN pages = {}
      /\ baseline = 0 /\ ring = <<>> /\ reverted = Live /\ missed = {}
  BY DEF WorldInit, PartsInit
<1>2. Len(ring) <= PartSlots /\ DOMAIN ring = {}
  BY <1>1, PartsAssumption
<1>3. parts \in Spread(0) /\ 0 \in Instants(0)
  BY <1>1 DEF Spread, Instants
<1> QED BY <1>1, <1>2, <1>3 DEF PartsTyped

LEMMA BackSpread ==
  ASSUME PartsTyped, RingInv, frame \in Nat, NEW target \in Nat, NEW m \in Spread(now)
  PROVE  /\ DataBack(m, target) \in Spread(now)
         /\ ZoneBack(m, target) \in Spread(now)
         /\ HeadsBack(m, target) \in Spread(now)
<1>1. AtOrBefore(target) # {} => ring[Nearest(target)].parts \in Spread(now)
  BY NearestFound DEF AtOrBefore, PartsTyped
<1> HIDE DEF Nearest, AtOrBefore
<1> DEFINE V == Instants(now)
<1>2. Spread(now) = [Restored \cup Present -> V] /\ Blank \in V
  BY DEF Spread, Instants
<1> HIDE DEF V
<1>3. DataBack(m, target) \in Spread(now)
  BY <1>1, <1>2 DEF DataBack, Restored, Present, InPages
<1>4. ZoneBack(m, target) \in Spread(now)
  BY <1>1, <1>2 DEF ZoneBack, Restored, Present, InPages
<1>5. HeadsBack(m, target) \in Spread(now)
  BY <1>1, <1>2 DEF HeadsBack, Restored, Present, InPages
<1> QED BY <1>3, <1>4, <1>5

LEMMA PutSpread ==
  ASSUME parts \in Spread(now), NEW m \in Spread(now), NEW p \in Restored \cup Present, NEW untaken
  PROVE  PutBack(m, p, untaken) \in Spread(now)
BY DEF PutBack, Spread

LEMMA AllBackSpread ==
  ASSUME PartsTyped, RingInv, frame \in Nat, NEW target \in Nat, NEW untaken
  PROVE  AllBack(target, untaken) \in Spread(now)
<1> DEFINE zero == PagesBack(parts, target)
           one == AudioBack(SoundsBack(zero, untaken), untaken)
           two == ZoneBack(DataBack(one, target), target)
           four == SubobjectsBack(HandlesBack(two), untaken)
<1>0. parts \in Spread(now) /\ \A p \in InPages : p \in Restored \cup Present
  BY DEF PartsTyped, Present
<1>1. zero \in Spread(now)
  <2> DEFINE instant == IF target \in DOMAIN pages THEN pages[target] ELSE baseline
  <2>1. instant \in Instants(now)
    BY DEF PartsTyped
  <2> HIDE DEF instant
  <2>2. zero = [p \in DOMAIN parts |-> IF p \in {"pages"} \cup InPages THEN instant ELSE parts[p]]
    BY DEF PagesBack, instant
  <2> HIDE DEF zero
  <2> QED BY <1>0, <2>1, <2>2 DEF Spread
<1> HIDE DEF zero
<1>2. SoundsBack(zero, untaken) \in Spread(now)
  BY <1>0, <1>1, PutSpread DEF SoundsBack, InPages
<1>3. one \in Spread(now)
  BY <1>0, <1>2, PutSpread DEF AudioBack, InPages
<1> HIDE DEF one
<1>4. DataBack(one, target) \in Spread(now)
  BY <1>3, BackSpread
<1>5. two \in Spread(now)
  BY <1>4, BackSpread
<1> HIDE DEF two
<1>6. HandlesBack(two) \in Spread(now)
  BY <1>0, <1>5, PutSpread DEF HandlesBack, InPages
<1>7. four \in Spread(now)
  BY <1>0, <1>6, PutSpread DEF SubobjectsBack, InPages
<1> HIDE DEF four
<1>8. HeadsBack(four, target) \in Spread(now)
  BY <1>7, BackSpread
<1>9. SectionsBack(HeadsBack(four, target)) \in Spread(now)
  BY <1>0, <1>8, PutSpread DEF SectionsBack, InPages
<1> QED BY <1>9 DEF AllBack, zero, one, two, four

LEMMA PartsStepTyped ==
  ASSUME PartsTyped, ClockBounded, PartsInv, PartsInv', PartsStep
  PROVE  PartsTyped'
<1>0. Len(ring') <= PartSlots /\ RingInv /\ ClockTyped
  BY WorldAssumption DEF PartsInv, RingInv, ClockTyped, ClockBounded
<1>1. CASE PartsGame
  <2>1. /\ now' = now + 1 /\ parts' = [p \in DOMAIN parts |-> now + 1] /\ reverted' = Live
        /\ missed' = {} /\ UNCHANGED <<pages, baseline, ring>>
    BY <1>1 DEF PartsGame
  <2>2. now + 1 \in Nat /\ Instants(now) \subseteq Instants(now') /\ now + 1 \in Instants(now')
    BY <2>1 DEF PartsTyped, Instants
  <2>3. parts' \in Spread(now') /\ Spread(now) \subseteq Spread(now')
    BY <2>1, <2>2 DEF PartsTyped, Spread
  <2> QED BY <1>0, <2>1, <2>2, <2>3 DEF PartsTyped
<1>2. CASE PartsArm
  <2>1. /\ DOMAIN pages' = {} /\ baseline' = parts["pages"]
        /\ UNCHANGED <<parts, now, ring, reverted, missed>>
    BY <1>2 DEF PartsArm
  <2>2. parts["pages"] \in Instants(now)
    BY DEF PartsTyped, Spread, Restored
  <2> QED BY <1>0, <2>1, <2>2 DEF PartsTyped
<1>3. CASE PartsFrame /\ Forward
  <2>1. UNCHANGED <<parts, now, baseline, reverted, missed>>
    BY <1>3 DEF PartsFrame
  <2>2. \A i \in DOMAIN ring' : ring'[i].parts \in Spread(now)
    <3>1. \A i \in DOMAIN ring' : ring'[i].parts = parts \/ \E j \in DOMAIN ring : ring'[i] = ring[j]
      BY <1>0, <1>3, SaveExtendsRing
    <3> QED BY <3>1 DEF PartsTyped
  <2>3. parts["pages"] \in Instants(now)
    BY DEF PartsTyped, Spread, Restored
  <2>4. \A f \in DOMAIN pages' : pages'[f] \in Instants(now)
    <3>1. \A f \in DOMAIN pages' : pages'[f] = parts["pages"] \/ (f \in DOMAIN pages /\ pages'[f] = pages[f])
      BY <1>3 DEF PartsFrame
    <3> QED BY <2>3, <3>1 DEF PartsTyped
  <2> QED BY <1>0, <2>1, <2>2, <2>4 DEF PartsTyped
<1>4. CASE \E target \in Nat : PartsRollback(target) /\ Rollback(target)
  <2>1. PICK target \in Nat : PartsRollback(target) /\ Rollback(target)
    BY <1>4
  <2>2. PICK untaken \in SUBSET Short : parts' = AllBack(target, untaken) /\ missed' = missed \cup untaken
    BY <2>1 DEF PartsRollback
  <2>3. reverted' = target /\ UNCHANGED <<now, pages, baseline, ring>> /\ target < frame
    BY <2>1 DEF PartsRollback, Rollback
  <2>4. parts' \in Spread(now)
    BY <1>0, <2>2, AllBackSpread DEF ClockTyped
  <2>5. target \in 0..MaxFrame
    BY <2>3, WorldAssumption DEF ClockBounded
  <2> QED BY <1>0, <2>2, <2>3, <2>4, <2>5 DEF PartsTyped
<1>5. CASE UNCHANGED partVars
  BY <1>5 DEF partVars, PartsTyped
<1> QED BY <1>1, <1>2, <1>3, <1>4, <1>5 DEF PartsStep

----------------------------------------------------------------------------
(* The scalars: the last save of the ring has the highest.  A rollback      *)
(* finds at least that, and replays up to it.                               *)

Topped(limit) == \A f \in DOMAIN kicks : kicks[f] \in 0..limit

KickBound ==
  /\ scalar \in 0..MaxKicks /\ kicked \in BOOLEAN
  /\ \A f \in DOMAIN kicks : kicks[f] \in Nat /\ kicks[f] <= kicks[frame - 1]
  /\ at = Live \/ at + 1 = frame => Topped(scalar)
  /\ at # Live => scalar < MaxKicks /\ Topped(MaxKicks - 1)

LEMMA KickBoundKept ==
  ASSUME ClockTyped, KickInv, KickBound, KickStep PROVE KickBound'
<1> USE KickAssumption, DepthAssumption
<1>1. CASE KickGame /\ UNCHANGED clockVars
  <2>1. CASE at = Live
    <3>1. /\ scalar < MaxKicks /\ scalar' \in {scalar, scalar + 1} /\ kicked' = TRUE
          /\ kicks' = kicks /\ at' = at /\ frame' = frame
      BY <1>1, <2>1 DEF KickGame, clockVars
    <3> QED BY <2>1, <3>1 DEF KickBound, Topped
  <2>2. CASE at # Live
    BY <1>1, <2>2 DEF KickGame, kickVars, clockVars, KickBound, Topped
  <2> QED BY <2>1, <2>2
<1>2. CASE KickFrame /\ Forward
  <2>1. /\ frame' = frame + 1 /\ at = Live /\ at' = Live /\ scalar' = scalar /\ kicked' = FALSE
        /\ frame \in Nat /\ frame' - 1 = frame
    BY <1>2 DEF KickFrame, Forward, ClockTyped
  <2>2. \A f \in DOMAIN kicks' : f = frame \/ f \in DOMAIN kicks
    BY <1>2 DEF KickFrame
  <2>3. \A f \in DOMAIN kicks' : kicks'[f] = IF f = frame THEN scalar ELSE kicks[f]
    BY <1>2 DEF KickFrame
  <2>4. frame \in DOMAIN kicks'
    BY <1>2 DEF KickFrame
  <2>5. \A f \in DOMAIN kicks' : kicks'[f] \in 0..scalar
    BY <2>1, <2>2, <2>3 DEF KickBound, Topped
  <2>6. kicks'[frame' - 1] = scalar
    BY <2>1, <2>3, <2>4
  <2>7. scalar' \in 0..MaxKicks /\ kicked' \in BOOLEAN
    BY <2>1 DEF KickBound
  <2>8. \A f \in DOMAIN kicks' : kicks'[f] \in Nat /\ kicks'[f] <= scalar
    BY <2>1, <2>5, <2>7
  <2>9. Topped(scalar)'
    BY <2>1, <2>5 DEF Topped
  <2> QED BY <2>1, <2>6, <2>7, <2>8, <2>9 DEF KickBound
<1>3. ASSUME NEW target \in Nat, KickRollback(target), Rollback(target)
      PROVE  KickBound'
  <2>1. /\ scalar < MaxKicks /\ UNCHANGED <<scalar, kicks, kicked, frame>>
        /\ at = Live /\ at' = target /\ target # Live
    BY <1>3 DEF KickRollback, Rollback, Live
  <2>2. \A f \in DOMAIN kicks : kicks[f] \in 0..scalar /\ kicks[f] <= kicks[frame - 1]
    BY <2>1 DEF KickBound, Topped
  <2>3. scalar \in 0..MaxKicks /\ kicked \in BOOLEAN
    BY DEF KickBound
  <2>4. \A f \in DOMAIN kicks : kicks[f] \in 0..(MaxKicks - 1) /\ kicks[f] \in Nat
    BY <2>1, <2>2, <2>3
  <2> QED BY <2>1, <2>2, <2>3, <2>4 DEF KickBound, Topped
<1>4. CASE KickReplay /\ Replay
  <2>1. /\ UNCHANGED <<kicks, kicked, frame>> /\ at # Live
        /\ at' = IF at + 1 = frame THEN Live ELSE at + 1
        /\ scalar' = IF at + 1 \in DOMAIN kicks THEN kicks[at + 1] ELSE scalar + 1
    BY <1>4 DEF KickReplay, Replay, Wanted
  <2>0. /\ at \in Nat /\ at < frame /\ frame \in Nat /\ back.target \in Nat
        /\ back.target <= at /\ frame - back.target <= MaxDepth
    BY <2>1 DEF KickInv, ClockTyped
  <2>2. at \in Nat /\ at < frame /\ frame - at <= MaxDepth /\ frame \in Nat
    BY <2>0
  <2>3. scalar < MaxKicks /\ Topped(MaxKicks - 1) /\ scalar \in Nat
    BY <2>1 DEF KickBound
  <2>4. CASE at + 1 = frame
    <3>1. at' = Live /\ scalar' = scalar + 1
      BY <2>1, <2>2, <2>4 DEF KickInv
    <3>2. Topped(scalar)
      BY <2>4 DEF KickBound
    <3>3. Topped(scalar + 1)
      BY <2>3, <3>2 DEF Topped
    <3>4. Topped(scalar)'
      BY <2>1, <3>1, <3>3 DEF Topped
    <3>5. scalar' \in 0..MaxKicks
      BY <2>3, <3>1
    <3>6. /\ kicked' \in BOOLEAN
          /\ \A f \in DOMAIN kicks' : kicks'[f] \in Nat /\ kicks'[f] <= kicks'[frame' - 1]
      BY <2>1 DEF KickBound
    <3> QED BY <3>1, <3>4, <3>5, <3>6 DEF KickBound
  <2>5. CASE at + 1 # frame
    <3>1. at' = at + 1 /\ at + 1 < frame
      BY <2>1, <2>2, <2>5
    <3>2. at + 1 \in DOMAIN kicks
      <4>1. at + 1 \in 0..(frame - 1) /\ at + 1 >= frame - KickSlots
        BY <2>2, <3>1
      <4> QED BY <4>1 DEF KickInv
    <3>3. scalar' = kicks[at + 1] /\ scalar' \in 0..(MaxKicks - 1)
      BY <2>1, <2>3, <3>2 DEF Topped
    <3>4. ASSUME at' + 1 = frame PROVE Topped(scalar)'
      <4>1. scalar' = kicks[frame - 1]
        BY <2>2, <3>1, <3>3, <3>4
      <4>2. \A f \in DOMAIN kicks : kicks[f] \in Nat /\ kicks[f] <= scalar'
        BY <4>1 DEF KickBound
      <4>3. \A f \in DOMAIN kicks : kicks[f] \in 0..scalar'
        BY <3>3, <4>2
      <4> QED BY <2>1, <4>3 DEF Topped
    <3>5. at' # Live
      BY <2>2, <3>1 DEF Live
    <3>6. Topped(MaxKicks - 1)'
      BY <2>1, <2>3 DEF Topped
    <3>7. /\ kicked' \in BOOLEAN
          /\ \A f \in DOMAIN kicks' : kicks'[f] \in Nat /\ kicks'[f] <= kicks'[frame' - 1]
      BY <2>1 DEF KickBound
    <3>8. scalar' \in 0..MaxKicks /\ scalar' < MaxKicks
      BY <3>3
    <3> QED BY <2>1, <3>4, <3>5, <3>6, <3>7, <3>8 DEF KickBound
  <2> QED BY <2>4, <2>5
<1>5. CASE UNCHANGED kickVars /\ (Arm \/ Disarm \/ UNCHANGED clockVars)
  BY <1>5 DEF kickVars, clockVars, Arm, Disarm, KickBound, Topped
<1> QED BY <1>1, <1>2, <1>3, <1>4, <1>5 DEF KickStep

(* Where they are not followed, the scalars stay as they were.              *)
KickTyped ==
  IF watched = "kicks" THEN KickInv /\ KickBound
  ELSE scalar = 0 /\ kicked = FALSE /\ back = NoRollback /\ DOMAIN kicks = {} /\ DOMAIN lived = {}

LEMMA KickTypedInitially == WorldInit => KickTyped
<1> SUFFICES ASSUME WorldInit PROVE KickTyped
  OBVIOUS
<1>1. /\ scalar = 0 /\ kicked = FALSE /\ back = NoRollback /\ DOMAIN kicks = {} /\ DOMAIN lived = {}
      /\ frame = 0 /\ at = Live
  BY DEF WorldInit, KickInit, ClockInit
<1>2. KickInv
  BY <1>1 DEF KickInv, OnTrajectory, NoRollback, Live
<1>3. KickBound
  <2>1. 0 \in 0..MaxKicks
    BY KickAssumption
  <2> QED BY <1>1, <2>1 DEF KickBound, Topped
<1> QED BY <1>1, <1>2, <1>3 DEF KickTyped

LEMMA KickTypedKept ==
  ASSUME ClockTyped, KickTyped, [WorldNext]_worldVars PROVE KickTyped'
<1>1. CASE watched = "kicks"
  BY <1>1, KicksFollowed, KicksKept, KickBoundKept DEF KickTyped
<1>2. CASE watched # "kicks"
  BY <1>2, KicksFollowed DEF KickTyped, kickVars
<1> QED BY <1>1, <1>2

----------------------------------------------------------------------------
(* The regions: the arrays of the carver hold no more than they have room   *)
(* for, even though a carve leaves a rest.                                  *)

Few(us) == IsFiniteSet(us) /\ Cardinality(us) <= RegionsMax

RegionTyped ==
  /\ watermark \in 0..Usable /\ donations \in 0..MaxDonations /\ served \in 0..MaxReserves
  /\ Few(freeList) /\ Few(reservations) /\ crossed \in BOOLEAN
  /\ stale \subseteq held \cup pooled

LEMMA FewEmpty == Few({})
  BY FS_EmptySet, RegionAssumption DEF Few

LEMMA FewLess == ASSUME NEW us, Few(us), NEW some \in SUBSET us PROVE Few(some)
<1>1. IsFiniteSet(some) /\ Cardinality(some) <= Cardinality(us)
  BY FS_Subset DEF Few
<1>2. Cardinality(some) \in Nat /\ Cardinality(us) \in Nat /\ RegionsMax \in Nat
  BY <1>1, FS_CardinalityType, RegionAssumption DEF Few
<1> QED BY <1>1, <1>2 DEF Few

LEMMA FewMore ==
  ASSUME NEW us, Few(us), Cardinality(us) < RegionsMax, NEW r PROVE Few(us \cup {r})
<1>1. /\ IsFiniteSet(us \cup {r})
      /\ Cardinality(us \cup {r}) = IF r \in us THEN Cardinality(us) ELSE Cardinality(us) + 1
  BY FS_AddElement DEF Few
<1>2. Cardinality(us) \in Nat /\ RegionsMax \in Nat
  BY FS_CardinalityType, RegionAssumption DEF Few
<1>3. Cardinality(us \cup {r}) <= RegionsMax
  BY <1>1, <1>2
<1> QED BY <1>1, <1>3 DEF Few

LEMMA FewOther ==
  ASSUME NEW us, Few(us), NEW b \in us, NEW r PROVE Few((us \ {b}) \cup {r})
<1>1. IsFiniteSet(us) /\ Cardinality(us) \in Nat /\ RegionsMax \in Nat
  BY FS_CardinalityType, RegionAssumption DEF Few
<1>2. IsFiniteSet(us \ {b}) /\ Cardinality(us \ {b}) = Cardinality(us) - 1
  BY <1>1, FS_RemoveElement
<1>3. Cardinality(us \ {b}) < RegionsMax /\ Cardinality(us \ {b}) <= RegionsMax
  BY <1>1, <1>2 DEF Few
<1> QED BY <1>2, <1>3, FewMore DEF Few

LEMMA PlacedTyped ==
  ASSUME RegionTyped, NEW o \in Nat, NEW n \in Nat, Placed(o, n)
  PROVE  /\ watermark' \in 0..Usable /\ Few(freeList') /\ Few(reservations')
         /\ crossed' \in BOOLEAN
<1>1. Few(freeList) /\ Few(reservations) /\ watermark \in 0..Usable
  BY DEF RegionTyped
<1>2. Few(reservations')
  BY <1>1, FewMore DEF Placed
<1>3. crossed' \in BOOLEAN
  BY Zenon DEF Placed
<1>4. CASE \E b \in Fitting(n) : /\ freeList' = (freeList \ {b}) \cup Rest(b, n)
                                 /\ watermark' = watermark
  <2>1. PICK b \in freeList : /\ freeList' = (freeList \ {b}) \cup Rest(b, n)
                              /\ watermark' = watermark
    BY <1>4 DEF Fitting
  <2>2. CASE Rest(b, n) = {}
    <3>1. freeList' \in SUBSET freeList
      BY <2>1, <2>2
    <3> QED BY <1>1, <1>2, <1>3, <2>1, <3>1, FewLess
  <2>3. CASE Rest(b, n) # {}
    <3>1. Rest(b, n) = {Region(b.offset + n, b.size - n)}
      BY <2>3 DEF Rest
    <3> QED BY <1>1, <1>2, <1>3, <2>1, <3>1, FewOther
  <2> QED BY <2>2, <2>3
<1>5. CASE o = watermark /\ o + n <= Usable /\ watermark' = o + n /\ freeList' = freeList
  BY <1>1, <1>2, <1>3, <1>5, RegionAssumption
<1> QED BY <1>4, <1>5 DEF Placed, Found

LEMMA RegionSizes ==
  /\ Sizes \subseteq Nat /\ DonationSize \in Nat
  /\ MaxDonations \in Nat /\ MaxReserves \in Nat /\ Usable \in Nat
  BY RegionAssumption

LEMMA RegionStepTyped == ASSUME RegionTyped, RegionStep PROVE RegionTyped'
<1>1. ASSUME NEW n \in Sizes, Reserve(n) PROVE RegionTyped'
  <2>1. PICK o \in 0..(Usable - 1) :
          /\ served < MaxReserves /\ served' = served + 1
          /\ Placed(o, n) /\ held' = held \cup {Region(o, n)}
          /\ pooled' = pooled /\ donations' = donations /\ stale' = stale
    BY <1>1 DEF Reserve
  <2>2. /\ watermark' \in 0..Usable /\ Few(freeList') /\ Few(reservations')
        /\ crossed' \in BOOLEAN
    BY <2>1, RegionSizes, PlacedTyped
  <2>3. served' \in 0..MaxReserves
    BY <2>1, RegionSizes DEF RegionTyped
  <2> QED BY <2>1, <2>2, <2>3 DEF RegionTyped
<1>2. ASSUME NEW r \in held, Release(r) PROVE RegionTyped'
  <2>1. /\ held' = held \ {r} /\ stale' = stale \ {r}
        /\ UNCHANGED <<watermark, pooled, donations, served, crossed>>
    BY <1>2 DEF Release
  <2>2. Few(freeList) /\ Few(reservations)
    BY DEF RegionTyped
  <2>3. Few(freeList') /\ Few(reservations')
    <3>1. CASE UNCHANGED <<reservations, freeList>>
      BY <2>2, <3>1
    <3>2. CASE \E s \in reservations :
                 /\ reservations' = reservations \ {s}
                 /\ freeList' = IF Cardinality(freeList) < RegionsMax THEN freeList \cup {s} ELSE freeList
      BY <2>2, <3>2, FewMore, FewLess
    <3> QED BY <1>2, <3>1, <3>2 DEF Release
  <2> QED BY <2>1, <2>3 DEF RegionTyped
<1>3. CASE RegionSwitch
  BY <1>3 DEF RegionSwitch, RegionTyped
<1>4. CASE RegionFrame
  <2>0. UNCHANGED <<held, served, stale>>
    BY <1>4 DEF RegionFrame
  <2>1. CASE Donate
    <3>1. PICK o \in 0..(Usable - 1) :
            /\ donations < MaxDonations /\ donations' = donations + 1
            /\ Placed(o, DonationSize) /\ pooled' = pooled \cup {Region(o, DonationSize)}
      BY <2>1 DEF Donate
    <3>2. /\ watermark' \in 0..Usable /\ Few(freeList') /\ Few(reservations')
          /\ crossed' \in BOOLEAN
      BY <3>1, RegionSizes, PlacedTyped
    <3>3. donations' \in 0..MaxDonations
      BY <3>1, RegionSizes DEF RegionTyped
    <3> QED BY <2>0, <3>1, <3>2, <3>3 DEF RegionTyped
  <2>2. CASE UNCHANGED <<watermark, freeList, reservations, pooled, donations, crossed>>
    BY <2>0, <2>2 DEF RegionTyped
  <2> QED BY <1>4, <2>1, <2>2 DEF RegionFrame
<1>5. CASE \E target \in Int : RegionRollback(target)
  <2>1. /\ stale' \subseteq held' \cup pooled'
        /\ UNCHANGED <<watermark, freeList, reservations, donations, served, crossed>>
    BY <1>5 DEF RegionRollback
  <2> QED BY <2>1 DEF RegionTyped
<1>6. CASE UNCHANGED regionVars
  BY <1>6 DEF regionVars, RegionTyped
<1> QED BY <1>1, <1>2, <1>3, <1>4, <1>5, <1>6 DEF RegionStep, RegionGame

LEMMA RegionTypedInitially == WorldInit => RegionTyped /\ RegionInv
<1> SUFFICES ASSUME WorldInit PROVE RegionTyped /\ RegionInv
  OBVIOUS
<1>1. /\ watermark = 0 /\ freeList = {} /\ reservations = {} /\ donations = 0 /\ served = 0
      /\ held = {} /\ pooled = {} /\ DOMAIN regionSlots = {} /\ stale = {} /\ crossed = FALSE
  BY DEF WorldInit, RegionInit
<1>2. RegionInv
  BY <1>1 DEF RegionInv, CarverInv, Below, UsersApart
<1>3. 0 \in 0..Usable /\ 0 \in 0..MaxDonations /\ 0 \in 0..MaxReserves
  BY RegionSizes
<1> QED BY <1>1, <1>2, <1>3, FewEmpty DEF RegionTyped

----------------------------------------------------------------------------
(* All of them together.                                                    *)

Marked ==
  /\ on \in BOOLEAN /\ running \in BOOLEAN /\ watched \in Followed
  /\ splices \in 0..MaxSplices /\ \A f \in DOMAIN units : f \in 0..MaxFrame

LEMMA MarkedInitially == WorldInit => Marked
<1> SUFFICES ASSUME WorldInit PROVE Marked
  OBVIOUS
<1>1. on = FALSE /\ running = TRUE /\ watched \in Followed /\ splices = 0 /\ DOMAIN units = {}
  BY DEF WorldInit, ClockInit, ListInit
<1>2. 0 \in 0..MaxSplices
  BY FreeListAssumption
<1>3. splices \in 0..MaxSplices
  BY <1>1, <1>2
<1>4. \A f \in DOMAIN units : f \in 0..MaxFrame
  BY <1>1
<1>5. on \in BOOLEAN /\ running \in BOOLEAN
  BY <1>1
<1> QED BY <1>1, <1>3, <1>4, <1>5, Zenon DEF Marked

LEMMA MarkedKept == ASSUME Marked, ClockBounded, [WorldNext]_worldVars PROVE Marked'
<1>1. splices' \in 0..MaxSplices /\ \A f \in DOMAIN units' : f \in 0..MaxFrame
  <2>1. CASE ListGame
    BY <2>1, FreeListAssumption DEF ListGame, Marked
  <2>2. CASE ListFrame
    <3>1. splices' \in 0..MaxSplices
      <4>1. splices' = splices \/ (splices < MaxSplices /\ splices' = splices + 1)
        BY <2>2, Zenon DEF ListFrame
      <4>2. splices \in 0..MaxSplices /\ MaxSplices \in Nat
        BY FreeListAssumption DEF Marked
      <4> QED BY <4>1, <4>2
    <3>2. \A f \in DOMAIN units' : f = frame \/ f \in DOMAIN units
      BY <2>2, Zenon DEF ListFrame, Save
    <3> QED BY <3>1, <3>2 DEF Marked, ClockBounded
  <2>3. CASE ListResume \/ UNCHANGED listVars
    <3>1. splices' = splices /\ units' = units
      BY <2>3 DEF ListResume, listVars
    <3> QED BY <3>1 DEF Marked
  <2>4. CASE ListSwitch
    <3>1. splices' = splices /\ DOMAIN units' = {}
      BY <2>4 DEF ListSwitch
    <3> QED BY <3>1 DEF Marked
  <2>5. CASE \E target \in Nat : ListRollback(target)
    <3>1. splices' = splices /\ units' = units
      BY <2>5 DEF ListRollback
    <3> QED BY <3>1 DEF Marked
  <2> QED BY <2>1, <2>2, <2>3, <2>4, <2>5, ListsFollowed
<1>2. watched' = watched
  BY SlabsFollowed
<1>3. on' \in BOOLEAN /\ running' \in BOOLEAN
  <2>1. CASE UNCHANGED worldVars
    BY <2>1 DEF worldVars, clockVars, Marked
  <2>2. CASE Game
    BY <2>2 DEF Game, clockVars, Marked
  <2>3. CASE ArmWorld
    BY <2>3 DEF ArmWorld, Arm, Marked
  <2>4. CASE DisarmWorld
    BY <2>4 DEF DisarmWorld, Disarm, Marked
  <2>5. CASE NextFrame
    BY <2>5 DEF NextFrame, Forward, Marked
  <2>6. CASE ReplayedFrame
    <3>1. on' = on /\ running' = (at' # Live)
      BY <2>6 DEF ReplayedFrame, Replay
    <3> QED BY <3>1, Zenon DEF Marked
  <2>7. CASE \E target \in (frame - MaxDepth)..(frame - 1) : GoBack(target)
    BY <2>7 DEF GoBack, Rollback, Marked
  <2> QED BY <2>1, <2>2, <2>3, <2>4, <2>5, <2>6, <2>7 DEF WorldNext
<1> QED BY <1>1, <1>2, <1>3 DEF Marked

LEMMA ClockGoesOn == ASSUME ClockBounded, [WorldNext]_worldVars PROVE frame <= frame'
<1>1. frame' = frame \/ frame' = frame + 1
  <2>1. CASE UNCHANGED worldVars \/ Game
    BY <2>1 DEF worldVars, Game, clockVars
  <2>2. CASE ArmWorld \/ DisarmWorld \/ NextFrame \/ ReplayedFrame
    BY <2>2 DEF ArmWorld, DisarmWorld, NextFrame, ReplayedFrame, Arm, Disarm, Forward, Replay
  <2>3. CASE \E target \in (frame - MaxDepth)..(frame - 1) : GoBack(target)
    BY <2>3 DEF GoBack, Rollback
  <2> QED BY <2>1, <2>2, <2>3 DEF WorldNext
<1>2. frame \in Int
  BY DEF ClockBounded
<1> QED BY <1>1, <1>2

(* The parts whose types need their own invariant.                          *)
PartsHold == PartsTyped /\ (watched = "parts" => PartsInv)
ViewsHold == SurfaceTyped /\ (watched = "handles" => SurfaceInv)

TypeInv ==
  /\ ClockTyped /\ ClockBounded /\ Marked /\ SlabTyped /\ VoiceTyped /\ ListInv /\ ViewsHold
  /\ PartsHold /\ KickTyped /\ RegionTyped /\ RegionInv /\ HuskInv

LEMMA PartsHoldKept ==
  ASSUME ClockTyped, ClockBounded, PartsHold, [WorldNext]_worldVars PROVE PartsHold'
<1>1. CASE watched = "parts"
  <2>1. PartsStep /\ PartsInv /\ PartsTyped /\ watched' = watched
    BY <1>1, PartsFollowed DEF PartsHold
  <2>2. PartsInv'
    BY <2>1, PartsKept
  <2>3. PartsTyped'
    BY <2>1, <2>2, PartsStepTyped
  <2> QED BY <2>2, <2>3 DEF PartsHold
<1>2. CASE watched # "parts"
  BY <1>2, PartsFollowed DEF PartsHold, PartsTyped, partVars
<1> QED BY <1>1, <1>2

LEMMA ViewsHoldKept ==
  ASSUME ViewsHold, [WorldNext]_worldVars PROVE ViewsHold'
<1>1. CASE watched = "handles"
  <2>1. SurfaceStep /\ SurfaceInv /\ SurfaceTyped /\ watched' = watched
    BY <1>1, SurfacesFollowed DEF ViewsHold
  <2>2. SurfaceInv'
    BY <2>1, SurfaceStepCovered
  <2>3. SurfaceTyped'
    BY <2>1, <2>2, SurfaceStepTyped
  <2> QED BY <2>2, <2>3 DEF ViewsHold
<1>2. CASE watched # "handles"
  BY <1>2, SurfacesFollowed DEF ViewsHold, SurfaceTyped, surfaceVars
<1> QED BY <1>1, <1>2

LEMMA TypesInitially == WorldInit => TypeInv
BY ClockInitially, ClockBoundedInitially, MarkedInitially, SlabTypedInitially,
   VoiceTypedInitially, ListInitially, SurfaceTypedInitially, SurfaceInitially,
   PartsTypedInitially, PartsInitially, KickTypedInitially, RegionTypedInitially,
   HuskInitially, Zenon DEF TypeInv, PartsHold, ViewsHold

LEMMA TypesKept == ASSUME TypeInv, [WorldNext]_worldVars PROVE TypeInv'
<1>0. /\ ClockTyped /\ ClockBounded /\ Marked /\ SlabTyped /\ VoiceTyped /\ ListInv /\ ViewsHold
      /\ PartsHold /\ KickTyped /\ RegionTyped /\ RegionInv /\ HuskInv
  BY DEF TypeInv
<1>1. ClockTyped' /\ ClockBounded'
  BY <1>0, ClockStep, ClockBoundedKept
<1>2. Marked'
  BY <1>0, MarkedKept
<1>3. SlabTyped'
  <2>1. CASE watched = "slabs"
    BY <1>0, <2>1, SlabsFollowed, SlabStepTyped
  <2>2. CASE watched # "slabs"
    BY <1>0, <2>2, SlabsFollowed DEF slabVars, SlabTyped
  <2> QED BY <2>1, <2>2
<1>4. VoiceTyped'
  <2>1. CASE watched = "voices"
    BY <1>0, <2>1, VoicesFollowed, VoiceStepTyped
  <2>2. CASE watched # "voices"
    <3>1. UNCHANGED <<field, created, pool, clock, gone, images, excused>>
      BY <2>2, VoicesFollowed DEF voiceVars
    <3>2. frame <= frame'
      BY <1>0, ClockGoesOn
    <3>3. clock <= frame'
      BY <1>0, <1>1, <3>2 DEF VoiceTyped, ClockTyped
    <3> QED BY <1>0, <3>1, <3>3 DEF VoiceTyped
  <2> QED BY <2>1, <2>2
<1>5. ListInv'
  BY <1>0, ListsKept
<1>6. ViewsHold' /\ PartsHold' /\ KickTyped'
  BY <1>0, ViewsHoldKept, PartsHoldKept, KickTypedKept
<1>7. RegionTyped' /\ RegionInv'
  <2>1. RegionStep
    BY RegionsFollowed DEF RegionStep
  <2> QED BY <1>0, <2>1, RegionStepTyped, RegionStepKeeps
<1>8. HuskInv'
  BY <1>0, HusksKept
<1> QED BY <1>1, <1>2, <1>3, <1>4, <1>5, <1>6, <1>7, <1>8 DEF TypeInv

(* THEOREM.  Every variable of every part keeps its type and its bounds,    *)
(* whatever the sizes: the quarantine's table and the carver's two arrays   *)
(* never exceed their room, the pool of the voices stays in the order of    *)
(* its stamps, which the prefix VoiceFrame drops relies on, no surface's    *)
(* count goes below zero, no region lies beyond the watermark and nothing a *)
(* rollback restores is of an instant to come (quarantine.cpp,              *)
(* voice_pool.cpp, resim.cpp, rtv_probe.cpp and arena.cpp).                 *)
THEOREM TypeCorrect == Spec => []TypeOK
<1>1. TypeInv => TypeOK
  <2> SUFFICES ASSUME TypeInv PROVE TypeOK
    OBVIOUS
  <2>1. /\ {on, running} \subseteq BOOLEAN /\ frame \in 0..MaxFrame /\ at \in {Live} \cup 0..MaxFrame
        /\ splices \in 0..MaxSplices /\ watched \in Followed
        /\ \A f \in DOMAIN units : f \in 0..MaxFrame
    BY DEF TypeInv, Marked, ClockBounded
  <2>2. /\ inUse \in [Blocks -> BOOLEAN] /\ births \in 0..MaxSerial
        /\ object \in [Blocks -> 0..MaxSerial] /\ serial \in [Blocks -> 0..MaxSerial]
        /\ table \subseteq [block : Blocks, frame : 0..MaxFrame, serial : 0..MaxSerial]
        /\ Cardinality(table) <= TableMax /\ past \in {"straight", "turned", "blind"}
        /\ \A f \in DOMAIN slots : f \in 0..MaxFrame
    BY DEF TypeInv, SlabTyped, Capped, HeldEntry, Used, Objected
  <2>3. /\ field \in [Fields -> 0..MaxVoices] /\ created \in 0..MaxVoices
        /\ Len(pool) <= PoolMax /\ clock \in 0..MaxFrame
        /\ \A i, j \in DOMAIN pool : i < j => pool[i].stamp <= pool[j].stamp
        /\ gone \subseteq 1..MaxVoices /\ excused \subseteq 1..MaxVoices
        /\ \A f \in DOMAIN images : f \in 0..MaxFrame
    BY DEF TypeInv, VoiceTyped, PoolOK, Ordered, Images
  <2>4. /\ heap.head \in Nodes \cup {Nil} /\ heap.count \in Nat /\ heap.owned \subseteq Nodes
        /\ heap.next \in [Nodes -> Nodes \cup {Nil}] /\ heap.used \in [Nodes -> BOOLEAN]
        /\ {drifted, unpaired} \subseteq BOOLEAN
    <3>1. heap \in Heap /\ drifted \in BOOLEAN /\ unpaired \in BOOLEAN
      BY DEF TypeInv, ListInv, ListsOK
    <3> QED BY <3>1 DEF Heap
  <2>5. /\ made \in 0..MaxViews /\ surface \in [Wrappers -> Handles \cup {Null, Absent}]
        /\ references \in [Handles -> Nat]
        /\ known \cup destroyed \cup ctorset \subseteq Wrappers /\ forgotten \in BOOLEAN
    BY DEF TypeInv, ViewsHold, SurfaceTyped, SurfaceWord
  <2>6. /\ parts \in [Restored \cup Present -> {Blank} \cup 0..now] /\ baseline \in {Blank} \cup 0..now
        /\ Len(ring) <= PartSlots /\ reverted \in {Live} \cup 0..MaxFrame /\ missed \subseteq Short
    BY DEF TypeInv, PartsHold, PartsTyped, Spread, Instants
  <2>7. /\ scalar \in 0..(MaxKicks + 1) /\ kicked \in BOOLEAN
        /\ DOMAIN kicks \subseteq DOMAIN lived /\ DOMAIN lived \subseteq 0..MaxFrame
        /\ back.target \in {Live} \cup 0..MaxFrame
    <3>1. MaxKicks \in Nat /\ MaxFrame \in Nat /\ frame \in 0..MaxFrame
      BY <2>1, KickAssumption, WorldAssumption
    <3>2. CASE watched = "kicks"
      <4>1. KickInv /\ KickBound
        BY <3>2 DEF TypeInv, KickTyped
      <4>2. scalar \in 0..MaxKicks /\ kicked \in BOOLEAN
        BY <4>1 DEF KickBound
      <4>3. /\ DOMAIN lived = 0..(frame - 1)
            /\ DOMAIN kicks = {f \in 0..(frame - 1) : f >= frame - KickSlots}
            /\ back.target \in {Live} \cup Nat
            /\ back.target # Live => back.target < frame
        BY <4>1 DEF KickInv
      <4>4. DOMAIN kicks \subseteq DOMAIN lived
        BY <4>3
      <4>5. DOMAIN lived \subseteq 0..MaxFrame
        <5>1. \A f \in 0..(frame - 1) : f \in 0..MaxFrame
          BY <3>1
        <5> QED BY <4>3, <5>1
      <4>6. back.target \in {Live} \cup 0..MaxFrame
        <5>1. CASE back.target = Live
          BY <5>1
        <5>2. CASE back.target # Live
          <6>1. back.target \in Nat /\ back.target < frame
            BY <4>3, <5>2
          <6> DEFINE t == back.target
          <6>2. t \in Nat /\ t < frame
            BY <6>1
          <6> HIDE DEF t
          <6>3. t \in 0..MaxFrame
            BY <3>1, <6>2
          <6> QED BY <6>3 DEF t
        <5> QED BY <5>1, <5>2
      <4>7. scalar \in 0..(MaxKicks + 1)
        BY <3>1, <4>2
      <4> QED BY <4>2, <4>4, <4>5, <4>6, <4>7
    <3>3. CASE watched # "kicks"
      <4>1. scalar = 0 /\ kicked = FALSE /\ back = NoRollback /\ DOMAIN kicks = {} /\ DOMAIN lived = {}
        BY <3>3 DEF TypeInv, KickTyped
      <4>2. 0 \in 0..(MaxKicks + 1)
        BY <3>1
      <4>3. back.target = Live
        BY <4>1 DEF NoRollback
      <4>4. DOMAIN kicks \subseteq DOMAIN lived /\ DOMAIN lived \subseteq 0..MaxFrame
        BY <4>1
      <4>5. scalar \in 0..(MaxKicks + 1) /\ kicked \in BOOLEAN
        BY <4>1, <4>2
      <4>6. back.target \in {Live} \cup 0..MaxFrame
        BY <4>3
      <4> QED BY <4>4, <4>5, <4>6
    <3> QED BY <3>2, <3>3
  <2>8. /\ watermark \in 0..Usable /\ donations \in 0..MaxDonations
        /\ served \in 0..MaxReserves /\ crossed \in BOOLEAN
        /\ Cardinality(freeList) <= RegionsMax /\ Cardinality(reservations) <= RegionsMax
        /\ stale \subseteq held \cup pooled
    BY DEF TypeInv, RegionTyped, Few
  <2>9. \A r \in freeList \cup reservations \cup held \cup pooled : r.offset + r.size <= watermark
    BY DEF TypeInv, RegionInv, CarverInv, Below
  <2>10. /\ dead \in Seq([user : Objects, frame : 0..MaxFrame]) /\ crowded \in BOOLEAN
         /\ husks \in [0..(HuskCap - 1) -> Objects \cup {"empty", "tombstone"}]
    BY DEF TypeInv, HuskInv, HusksOK, Sound, HuskEntry, HuskOK, Hash, Marks
  <2>11. DOMAIN slots \cup DOMAIN images \cup DOMAIN units \subseteq 0..MaxFrame
    BY <2>1, <2>2, <2>3
  <2> QED BY <2>1, <2>2, <2>3, <2>4, <2>5, <2>6, <2>7, <2>8, <2>9, <2>10, <2>11, Zenon DEF TypeOK
<1> QED BY <1>1, TypesInitially, TypesKept, PTL DEF Spec
=============================================================================
