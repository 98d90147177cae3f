---------------------------- MODULE EngineArmProof ----------------------------
(***************************************************************************)
(* Proofs about EngineArm, for any lead and any clocks: the types, that no  *)
(* press of F5 is swallowed, and that two engines armed by one agreement    *)
(* are armed on one net-frame.                                             *)
(***************************************************************************)
EXTENDS EngineArm, FiniteSetTheorems, TLAPS

----------------------------------------------------------------------------
LEMMA TwoPeers ==
  \A p \in Peer : /\ Other(p) \in Peer /\ Other(p) # p /\ Other(Other(p)) = p
                  /\ \A r \in Peer : r = p \/ r = Other(p)
<1> SUFFICES ASSUME NEW p \in Peer
             PROVE  /\ Other(p) \in Peer /\ Other(p) # p /\ Other(Other(p)) = p
                    /\ \A r \in Peer : r = p \/ r = Other(p)
  OBVIOUS
<1>1. IsFiniteSet(Peer \ {p}) /\ Cardinality(Peer \ {p}) = 1
  <2>1. Cardinality(Peer \ {p}) = Cardinality(Peer) - 1 /\ IsFiniteSet(Peer \ {p})
    BY PeerAssumption, FS_RemoveElement
  <2> QED BY <2>1, PeerAssumption
<1>2. PICK q : Peer \ {p} = {q}
  BY <1>1, FS_Singleton
<1>3. q \in Peer /\ q # p /\ \A r \in Peer : r = p \/ r = q
  BY <1>2
<1>4. \A r : r \in Peer /\ r # p <=> r = q
  BY <1>3
<1>5. Other(p) = q
  BY <1>4 DEF Other
<1>6. Other(q) = p
  BY <1>3 DEF Other
<1> QED BY <1>3, <1>5, <1>6

LEMMA SizesAreNat == /\ Lead \in Nat /\ MaxPresses \in Nat /\ MaxClock \in Nat /\ MaxLine \in Nat
                     /\ 0 < Lead /\ 0 < MaxLine
BY ArmAssumption

Targets == -1..(MaxClock + Lead)
Arm     == [on : BOOLEAN, armed : BOOLEAN, pending : BOOLEAN, target : Targets, disarm : BOOLEAN]

----------------------------------------------------------------------------
(* What a pass makes of a peer's arm state.                                 *)

LEMMA KeyedIs ==
  ASSUME NEW p \in Peer, NEW f5 \in BOOLEAN, arm \in [Peer -> Arm],
         f5 /\ ~arm[p].on /\ running[p] => clock[p] + Lead \in Targets
  PROVE  LET a == arm[p]  k == Keyed(p, f5) IN
         /\ k \in Arm
         /\ k.on = a.on /\ k.armed = a.armed
         /\ ~(f5 /\ a.on) => k.disarm = a.disarm
         /\ a.pending /\ ~(f5 /\ a.on) => k.pending /\ k.target = a.target
         /\ k.pending /\ ~a.pending => /\ f5 /\ ~a.on /\ ~a.armed
                                       /\ k.target = IF running[p] THEN clock[p] + Lead ELSE -1
         /\ k.pending /\ a.pending => k.target = a.target
         /\ f5 /\ ~a.on /\ ~a.armed => k.pending
<1> DEFINE a == arm[p]
<1>1. a \in Arm
  OBVIOUS
<1>2. -1 \in Targets
  BY SizesAreNat DEF Targets
<1>3. (IF running[p] THEN clock[p] + Lead ELSE -1) \in Targets \/ ~f5 \/ a.on
  BY <1>2
<1> DEFINE t == IF running[p] THEN clock[p] + Lead ELSE -1
<1>4. Keyed(p, f5) = IF ~f5 THEN a
                     ELSE IF a.on
                       THEN IF a.armed \/ a.pending THEN [a EXCEPT !.pending = FALSE, !.disarm = TRUE] ELSE a
                     ELSE IF a.armed \/ a.pending THEN a
                     ELSE [a EXCEPT !.pending = TRUE, !.target = t]
  BY Zenon DEF Keyed, DisarmAsked, Proposed
<1> HIDE DEF a, t
<1>5. CASE ~f5
  BY <1>1, <1>4, <1>5 DEF a
<1>6. CASE f5 /\ a.on
  BY <1>1, <1>4, <1>6 DEF Arm, a
<1>7. CASE f5 /\ ~a.on
  BY <1>1, <1>3, <1>4, <1>7 DEF Arm, a, t
<1> QED BY <1>5, <1>6, <1>7

LEMMA DroppedIs ==
  ASSUME NEW k \in Arm
  PROVE  /\ Dropped(k) \in Arm
         /\ Dropped(k).pending = k.pending /\ Dropped(k).target = k.target
         /\ k.disarm => ~Dropped(k).on /\ ~Dropped(k).armed
         /\ ~k.disarm => Dropped(k) = k
BY DEF Dropped, Arm

LEMMA LandedIs ==
  ASSUME NEW p \in Peer, NEW a \in Arm, NEW captured \in BOOLEAN
  PROVE  LET b == Landed(p, a, captured) IN
         /\ b \in Arm /\ b.target = a.target /\ b.disarm = a.disarm
         /\ Due(p, a) => ~b.pending /\ b.armed
         /\ ~Due(p, a) => b.pending = a.pending /\ b.armed = a.armed
         /\ b.on <=> a.on \/ (captured /\ (Due(p, a) \/ Solo(p, a)))
<1> DEFINE up == a.on \/ (captured /\ (Due(p, a) \/ Solo(p, a)))
           l  == IF Due(p, a) THEN [a EXCEPT !.pending = FALSE, !.armed = TRUE] ELSE a
<1>1. Landed(p, a, captured) = [l EXCEPT !.on = up]
  BY Zenon DEF Landed
<1>2. up \in BOOLEAN
  BY DEF Arm, Due, Solo
<1>3. /\ l \in Arm /\ l.target = a.target /\ l.disarm = a.disarm
      /\ Due(p, a) => ~l.pending /\ l.armed
      /\ ~Due(p, a) => l = a
  BY DEF Arm
<1> HIDE DEF l
<1>4. up <=> a.on \/ (captured /\ (Due(p, a) \/ Solo(p, a)))
  OBVIOUS
<1> HIDE DEF up
<1>5. [l EXCEPT !.on = up] \in Arm /\ [l EXCEPT !.on = up].on = up
  BY <1>2, <1>3 DEF Arm
<1>6. /\ [l EXCEPT !.on = up].pending = l.pending /\ [l EXCEPT !.on = up].armed = l.armed
      /\ [l EXCEPT !.on = up].target = l.target /\ [l EXCEPT !.on = up].disarm = l.disarm
  BY <1>3 DEF Arm
<1> QED BY <1>1, <1>3, <1>4, <1>5, <1>6

(* The pass as a whole: what was keyed, what that became, what it sends.    *)
PassOf(p, f5, again, captured, a, b) ==
  /\ captured \/ MayRefuse
  /\ f5 /\ ~arm[p].on /\ running[p] => clock[p] + Lead <= MaxClock
  /\ f5 /\ arm[p].on => Disarms
  /\ Keyed(p, f5) \in Arm /\ a = Dropped(Keyed(p, f5)) /\ b = Landed(p, a, captured)
  /\ arm' = [arm EXCEPT ![p] = b]
  /\ b.on /\ ~a.on => Newest(line[p], want[p]) < MaxLine
  /\ want' = [want EXCEPT ![p] = IF b.on /\ ~a.on THEN Newest(line[p], @) + 1 ELSE @]
  /\ net' = net \cup Sent(p, FrameSends(p, f5, again, a, b.on /\ ~a.on))
  /\ armedAt' = [armedAt EXCEPT ![p] =
                   IF b.on /\ ~a.on THEN [line |-> line[p], frame |-> clock[p]] ELSE @]
  /\ refused' = IF Due(p, a) /\ ~captured THEN refused \cup {p}
                ELSE IF Keyed(p, f5).disarm THEN refused \ {p} ELSE refused
  /\ presses' = IF f5 THEN presses + 1 ELSE presses
  /\ f5 => presses < MaxPresses
  /\ clock' = [clock EXCEPT ![p] = IF @ < MaxClock THEN @ + 1 ELSE @]
  /\ UNCHANGED <<running, line, late>>

LEMMA FrameIs ==
  ASSUME arm \in [Peer -> Arm], clock \in [Peer -> 0..MaxClock],
         NEW p \in Peer, NEW f5 \in BOOLEAN, Frame(p, f5)
  PROVE  \E again \in BOOLEAN, captured \in BOOLEAN, a \in Arm, b \in Arm :
           PassOf(p, f5, again, captured, a, b)
<1> DEFINE k == Keyed(p, f5)
           a == Dropped(k)
           comesOn(b) == b.on /\ ~a.on
<1>1. PICK again \in BOOLEAN, captured \in IF MayRefuse THEN BOOLEAN ELSE {TRUE} :
        LET b == Landed(p, a, captured) IN
        /\ comesOn(b) => Newest(line[p], want[p]) < MaxLine
        /\ arm' = [arm EXCEPT ![p] = b]
        /\ want' = [want EXCEPT ![p] = IF comesOn(b) THEN Newest(line[p], @) + 1 ELSE @]
        /\ net' = net \cup Sent(p, FrameSends(p, f5, again, a, comesOn(b)))
        /\ armedAt' = [armedAt EXCEPT ![p] =
                         IF comesOn(b) THEN [line |-> line[p], frame |-> clock[p]] ELSE @]
        /\ refused' = IF Due(p, a) /\ ~captured THEN refused \cup {p}
                      ELSE IF Keyed(p, f5).disarm THEN refused \ {p} ELSE refused
  BY Zenon DEF Frame
<1>2. captured \in BOOLEAN /\ (captured \/ MayRefuse)
  OBVIOUS
<1>3. /\ f5 => presses < MaxPresses
      /\ f5 /\ ~arm[p].on /\ running[p] => clock[p] + Lead <= MaxClock
      /\ f5 /\ arm[p].on => Disarms
  BY DEF Frame, Pressable
<1>4. /\ presses' = IF f5 THEN presses + 1 ELSE presses
      /\ clock' = [clock EXCEPT ![p] = IF @ < MaxClock THEN @ + 1 ELSE @]
      /\ UNCHANGED <<running, line, late>>
  BY DEF Frame
<1>5. f5 /\ ~arm[p].on /\ running[p] => clock[p] + Lead \in Targets
  BY <1>3, SizesAreNat DEF Targets
<1>6. k \in Arm
  BY <1>5, KeyedIs
<1>7. a \in Arm
  BY <1>6, DroppedIs
<1>8. Landed(p, a, captured) \in Arm
  BY <1>2, <1>7, LandedIs
<1> HIDE DEF k
<1>9. k = Keyed(p, f5)
  BY DEF k
<1> HIDE DEF a
<1>10. a = Dropped(k)
  BY DEF a
<1> QED BY <1>1, <1>2, <1>3, <1>4, <1>6, <1>7, <1>8, <1>9, <1>10, Zenon DEF PassOf

----------------------------------------------------------------------------
(* Types.                                                                   *)

(* What a datagram of each type carries.                                    *)
NumbersTyped ==
  \A m \in net : /\ m.type = "arm" => m.n \in 0..(MaxClock + Lead)
                 /\ m.type = "epoch" => m.n \in 1..MaxLine

(* A proposal pending at a peer with a session has a net-frame.             *)
PendingHasFrame == \A p \in Peer : arm[p].pending /\ running[p] => arm[p].target >= 0

(* The latch is set without the engine only by a refused baseline.          *)
LatchIsEngine == \A p \in Peer : arm[p].armed /\ ~arm[p].on => p \in refused

ArmInv ==
  /\ TypeOK /\ NumbersTyped /\ PendingHasFrame /\ LatchIsEngine
  /\ armedAt \in [Peer -> [line : 0..MaxLine, frame : 0..MaxClock]]

LEMMA ArmTyped == TypeOK => arm \in [Peer -> Arm] /\ clock \in [Peer -> 0..MaxClock]
BY DEF TypeOK, Arm, Targets

(* The state of the arm after a pass, in terms of the one before.           *)
Became(p, f5, captured, a, b) ==
  /\ a \in Arm /\ b \in Arm
  /\ b.target = a.target
  /\ a.pending => \/ arm[p].pending /\ a.target = arm[p].target
                  \/ /\ f5 /\ ~arm[p].on /\ ~arm[p].armed /\ ~arm[p].pending
                     /\ a.target = IF running[p] THEN clock[p] + Lead ELSE -1
  /\ b.pending => a.pending /\ ~Due(p, a)
  /\ ~b.pending => ~a.pending \/ Due(p, a)
  /\ Due(p, a) => a.pending /\ b.armed /\ ~a.on /\ ~a.armed /\ clock[p] >= a.target
  /\ ~Due(p, a) => b.armed = a.armed
  /\ b.on <=> a.on \/ (captured /\ (Due(p, a) \/ Solo(p, a)))
  /\ Solo(p, a) => ~running[p]
  /\ Keyed(p, f5).disarm => ~a.on /\ ~a.armed
  /\ ~Keyed(p, f5).disarm => a.on = arm[p].on /\ a.armed = arm[p].armed
  /\ arm[p].pending /\ ~(f5 /\ arm[p].on) => a.pending /\ a.target = arm[p].target
  /\ f5 /\ ~arm[p].on /\ ~arm[p].armed => a.pending
  /\ ~arm[p].disarm /\ ~(f5 /\ arm[p].on) => ~Keyed(p, f5).disarm /\ ~b.disarm

LEMMA FrameArm ==
  ASSUME TypeOK, NEW p \in Peer, NEW f5 \in BOOLEAN, NEW again, NEW captured \in BOOLEAN,
         NEW a, NEW b, PassOf(p, f5, again, captured, a, b)
  PROVE  Became(p, f5, captured, a, b)
<1>0. /\ f5 /\ ~arm[p].on /\ running[p] => clock[p] + Lead <= MaxClock
      /\ a = Dropped(Keyed(p, f5)) /\ b = Landed(p, a, captured)
  BY DEF PassOf
<1> DEFINE k == Keyed(p, f5)
<1>1. arm \in [Peer -> Arm] /\ clock \in [Peer -> 0..MaxClock]
  BY ArmTyped
<1>2. f5 /\ ~arm[p].on /\ running[p] => clock[p] + Lead \in Targets
  BY <1>0, <1>1, SizesAreNat DEF Targets
<1>3. /\ k \in Arm
      /\ k.on = arm[p].on /\ k.armed = arm[p].armed
      /\ arm[p].pending /\ ~(f5 /\ arm[p].on) => k.pending /\ k.target = arm[p].target
      /\ k.pending /\ ~arm[p].pending =>
           /\ f5 /\ ~arm[p].on /\ ~arm[p].armed
           /\ k.target = IF running[p] THEN clock[p] + Lead ELSE -1
      /\ k.pending /\ arm[p].pending => k.target = arm[p].target
      /\ f5 /\ ~arm[p].on /\ ~arm[p].armed => k.pending
      /\ ~(f5 /\ arm[p].on) => k.disarm = arm[p].disarm
  BY <1>1, <1>2, KeyedIs
<1> HIDE DEF k
<1>4. /\ a \in Arm /\ a.pending = k.pending /\ a.target = k.target
      /\ k.disarm => ~a.on /\ ~a.armed
      /\ ~k.disarm => a = k
  BY <1>0, <1>3, DroppedIs DEF k
<1>5. /\ b \in Arm /\ b.target = a.target /\ b.disarm = a.disarm
      /\ Due(p, a) => ~b.pending /\ b.armed
      /\ ~Due(p, a) => b.pending = a.pending /\ b.armed = a.armed
      /\ b.on <=> a.on \/ (captured /\ (Due(p, a) \/ Solo(p, a)))
  BY <1>0, <1>4, LandedIs
<1>6. /\ Due(p, a) => a.pending /\ ~a.on /\ ~a.armed /\ clock[p] >= a.target
      /\ Solo(p, a) => ~running[p]
  BY DEF Due, Solo
<1>7. /\ a.pending => \/ arm[p].pending /\ a.target = arm[p].target
                      \/ /\ f5 /\ ~arm[p].on /\ ~arm[p].armed /\ ~arm[p].pending
                         /\ a.target = IF running[p] THEN clock[p] + Lead ELSE -1
      /\ ~k.disarm => a.on = arm[p].on /\ a.armed = arm[p].armed
      /\ arm[p].pending /\ ~(f5 /\ arm[p].on) => a.pending /\ a.target = arm[p].target
      /\ f5 /\ ~arm[p].on /\ ~arm[p].armed => a.pending
  BY <1>3, <1>4
<1>8. k = Keyed(p, f5)
  BY DEF k
<1>9. b.pending => a.pending /\ ~Due(p, a)
  BY <1>5
<1>10. ~b.pending => ~a.pending \/ Due(p, a)
  BY <1>5
<1>11. ~arm[p].disarm /\ ~(f5 /\ arm[p].on) => ~Keyed(p, f5).disarm /\ ~b.disarm
  BY <1>3, <1>4, <1>5, <1>8
<1> QED BY <1>4, <1>5, <1>6, <1>7, <1>8, <1>9, <1>10, <1>11, Zenon DEF Became

(* What a pass sends.                                                       *)
LEMMA FrameSent ==
  ASSUME NEW p, NEW f5, NEW again, NEW a, NEW on,
         NEW m \in Sent(p, FrameSends(p, f5, again, a, on))
  PROVE  /\ running[p]
         /\ \/ a.pending /\ ~a.on /\ m = Proposal(p, a.target)
            \/ f5 /\ arm[p].on /\ m = DisarmNow(p)
            \/ on /\ m = Epoch(p, want'[p])
BY DEF Sent, FrameSends

LEMMA NewestTyped ==
  \A x, y \in 1..MaxLine : /\ Newest(x, y) \in 1..MaxLine
                           /\ x <= Newest(x, y) /\ y <= Newest(x, y)
BY SizesAreNat DEF Newest

LEMMA DatagramTyped ==
  ASSUME NEW p \in Peer
  PROVE  /\ \A t \in 0..(MaxClock + Lead) : Proposal(p, t) \in Datagram
         /\ DisarmNow(p) \in Datagram
         /\ \A e \in 1..MaxLine : Epoch(p, e) \in Datagram
<1>1. Other(p) \in Peer
  BY TwoPeers
<1>2. \A n : n \in 0..(MaxClock + Lead) \/ n \in 1..MaxLine \/ n = 0 => n \in 0..(MaxClock + Lead + MaxLine)
  BY SizesAreNat
<1> QED BY <1>1, <1>2 DEF Proposal, DisarmNow, Epoch, Datagram

LEMMA FrameKept ==
  ASSUME ArmInv, NEW p \in Peer, NEW f5 \in BOOLEAN, Frame(p, f5)
  PROVE  ArmInv'
<1>1. TypeOK /\ arm \in [Peer -> Arm] /\ clock \in [Peer -> 0..MaxClock]
  BY ArmTyped DEF ArmInv
<1>2. PICK again \in BOOLEAN, captured \in BOOLEAN, a \in Arm, b \in Arm :
        PassOf(p, f5, again, captured, a, b)
  BY <1>1, FrameIs
<1>3. Became(p, f5, captured, a, b)
  BY <1>1, <1>2, FrameArm
<1>4. a.pending /\ running[p] => a.target \in 0..(MaxClock + Lead)
  <2> SUFFICES ASSUME a.pending, running[p] PROVE a.target \in 0..(MaxClock + Lead)
    OBVIOUS
  <2>1. a.target \in Targets
    BY DEF Arm
  <2>2. arm[p].pending => arm[p].target >= 0
    BY DEF ArmInv, PendingHasFrame
  <2>3. a.target >= 0
    BY <1>1, <1>3, <2>2, SizesAreNat DEF Became
  <2> QED BY <2>1, <2>3, SizesAreNat DEF Targets
<1>5. /\ line[p] \in 1..MaxLine /\ want[p] \in 1..MaxLine /\ line[p] <= want[p]
      /\ line \in [Peer -> 1..MaxLine] /\ want \in [Peer -> 1..MaxLine]
      /\ \A q \in Peer : line[q] <= want[q]
  BY <1>1 DEF TypeOK
<1>6. b.on /\ ~a.on => Newest(line[p], want[p]) + 1 \in 1..MaxLine /\ line[p] <= Newest(line[p], want[p]) + 1
  <2> DEFINE n == Newest(line[p], want[p])
  <2>1. n \in 1..MaxLine /\ line[p] <= n
    BY <1>5, NewestTyped
  <2>2. b.on /\ ~a.on => n < MaxLine
    BY <1>2 DEF PassOf
  <2> HIDE DEF n
  <2>3. n < MaxLine => n + 1 \in 1..MaxLine /\ line[p] <= n + 1
    BY <1>5, <2>1, SizesAreNat
  <2> QED BY <2>2, <2>3 DEF n
<1>7. want' \in [Peer -> 1..MaxLine] /\ \A q \in Peer : line[q] <= want'[q]
  <2> DEFINE w == IF b.on /\ ~a.on THEN Newest(line[p], want[p]) + 1 ELSE want[p]
  <2>1. w \in 1..MaxLine /\ line[p] <= w
    BY <1>5, <1>6
  <2>2. want' = [want EXCEPT ![p] = w]
    BY <1>2 DEF PassOf
  <2> HIDE DEF w
  <2> QED BY <1>5, <2>1, <2>2
<1>8. ASSUME NEW m \in net'
      PROVE  /\ m \in Datagram
             /\ m.type = "arm" => m.n \in 0..(MaxClock + Lead)
             /\ m.type = "epoch" => m.n \in 1..MaxLine
  <2>1. CASE m \in net
    BY <1>1, <2>1 DEF TypeOK, ArmInv, NumbersTyped
  <2>2. CASE m \in Sent(p, FrameSends(p, f5, again, a, b.on /\ ~a.on))
    <3>1. /\ running[p]
          /\ \/ a.pending /\ ~a.on /\ m = Proposal(p, a.target)
             \/ m = DisarmNow(p)
             \/ m = Epoch(p, want'[p])
      BY <2>2, FrameSent
    <3>2. CASE a.pending /\ m = Proposal(p, a.target)
      BY <1>4, <3>1, <3>2, DatagramTyped DEF Proposal
    <3>3. CASE m = DisarmNow(p)
      BY <3>3, DatagramTyped DEF DisarmNow
    <3>4. CASE m = Epoch(p, want'[p])
      BY <1>7, <3>4, DatagramTyped DEF Epoch
    <3> QED BY <3>1, <3>2, <3>3, <3>4
  <2> QED BY <1>2, <2>1, <2>2 DEF PassOf
<1>9. clock' \in [Peer -> 0..MaxClock]
  <2> DEFINE c == IF clock[p] < MaxClock THEN clock[p] + 1 ELSE clock[p]
  <2>1. c \in 0..MaxClock
    BY <1>1, SizesAreNat
  <2>2. clock' = [clock EXCEPT ![p] = c]
    BY <1>2 DEF PassOf
  <2> HIDE DEF c
  <2> QED BY <1>1, <2>1, <2>2
<1>10. presses' \in 0..MaxPresses
  BY <1>1, <1>2, SizesAreNat DEF TypeOK, PassOf
<1>11. arm' \in [Peer -> Arm] /\ refused' \subseteq Peer
  BY <1>1, <1>2 DEF TypeOK, PassOf
<1>12. TypeOK'
  <2>1. running' = running /\ line' = line /\ late' = late
    BY <1>2 DEF PassOf
  <2>2. net' \subseteq Datagram
    BY <1>8
  <2> QED BY <1>1, <1>5, <1>7, <1>9, <1>10, <1>11, <2>1, <2>2 DEF TypeOK, Arm, Targets
<1>13. armedAt' \in [Peer -> [line : 0..MaxLine, frame : 0..MaxClock]]
  <2>1. [line |-> line[p], frame |-> clock[p]] \in [line : 0..MaxLine, frame : 0..MaxClock]
    <3>1. line[p] \in 0..MaxLine
      BY <1>5
    <3> QED BY <1>1, <3>1
  <2> QED BY <1>2, <2>1 DEF ArmInv, PassOf
<1>14. PendingHasFrame'
  <2> SUFFICES ASSUME NEW q \in Peer, arm'[q].pending, running'[q] PROVE arm'[q].target >= 0
    BY DEF PendingHasFrame
  <2>1. CASE q = p
    <3>1. b.pending /\ running[p] /\ arm'[q].target = b.target
      BY <1>1, <1>2, <2>1 DEF PassOf
    <3>2. b.target \in 0..(MaxClock + Lead)
      BY <1>3, <1>4, <3>1 DEF Became
    <3> QED BY <3>1, <3>2, SizesAreNat
  <2>2. CASE q # p
    <3>1. arm'[q] = arm[q] /\ running[q]
      BY <1>1, <1>2, <2>2 DEF PassOf
    <3> QED BY <3>1 DEF ArmInv, PendingHasFrame
  <2> QED BY <2>1, <2>2
<1>15. LatchIsEngine'
  <2> SUFFICES ASSUME NEW q \in Peer, arm'[q].armed, ~arm'[q].on PROVE q \in refused'
    BY DEF LatchIsEngine
  <2>1. CASE q # p
    <3>1. arm'[q] = arm[q]
      BY <1>1, <1>2, <2>1 DEF PassOf
    <3>2. q \in refused
      BY <3>1 DEF ArmInv, LatchIsEngine
    <3> QED BY <1>2, <2>1, <3>2 DEF PassOf
  <2>2. CASE q = p
    <3>1. b.armed /\ ~b.on
      BY <1>1, <1>2, <2>2 DEF PassOf
    <3>2. CASE Due(p, a)
      <4>1. ~captured
        BY <1>3, <3>1, <3>2 DEF Became
      <4> QED BY <1>2, <2>2, <3>2, <4>1 DEF PassOf
    <3>3. CASE ~Due(p, a)
      <4>1. a.armed /\ ~a.on
        BY <1>3, <3>1, <3>3 DEF Became
      <4>2. ~Keyed(p, f5).disarm /\ arm[p].armed /\ ~arm[p].on
        BY <1>3, <4>1 DEF Became
      <4>3. p \in refused
        BY <4>2 DEF ArmInv, LatchIsEngine
      <4> QED BY <1>2, <2>2, <3>3, <4>2, <4>3 DEF PassOf
    <3> QED BY <3>2, <3>3
  <2> QED BY <2>1, <2>2
<1>16. NumbersTyped'
  BY <1>8 DEF NumbersTyped
<1> QED BY <1>12, <1>13, <1>14, <1>15, <1>16 DEF ArmInv

LEMMA ProposeReceived ==
  ASSUME ArmInv, NEW p \in Peer, NEW m \in net, m.type = "arm", running[p],
         NEW rest \in SUBSET net, OnPeerPropose(p, m.n, rest),
         UNCHANGED <<running, presses, armedAt, refused>>
  PROVE  ArmInv'
<1> DEFINE t == m.n
<1>1. TypeOK /\ arm \in [Peer -> Arm] /\ clock \in [Peer -> 0..MaxClock]
  BY ArmTyped DEF ArmInv
<1>2. t \in 0..(MaxClock + Lead) /\ t \in Targets
  BY SizesAreNat DEF ArmInv, NumbersTyped, Targets
<1>3. /\ UNCHANGED <<clock, line, want>>
      /\ late' = (late \/ (~arm[p].armed /\ clock[p] > t) \/ (arm[p].armed /\ armedAt[p].frame > t))
      /\ \/ /\ net' \in {rest, rest \cup {Proposal(p, arm[p].target)}} /\ arm' = arm
            /\ arm[p].pending \/ net' = rest
         \/ arm' = [arm EXCEPT ![p].pending = TRUE, ![p].target = t] /\ net' = rest \cup {Proposal(p, t)}
  BY DEF OnPeerPropose
<1> HIDE DEF t
<1>4. late' \in BOOLEAN
  BY <1>1, <1>3 DEF TypeOK
<1>5. arm[p].pending => arm[p].target \in 0..(MaxClock + Lead)
  <2>1. arm[p].target \in Targets
    BY <1>1 DEF Arm
  <2>2. arm[p].pending => arm[p].target >= 0
    BY DEF ArmInv, PendingHasFrame
  <2> QED BY <2>1, <2>2, SizesAreNat DEF Targets
<1>6. ASSUME NEW d \in net'
      PROVE  /\ d \in Datagram
             /\ d.type = "arm" => d.n \in 0..(MaxClock + Lead)
             /\ d.type = "epoch" => d.n \in 1..MaxLine
  <2>1. \/ d \in net
        \/ d = Proposal(p, t)
        \/ d = Proposal(p, arm[p].target) /\ arm[p].pending
    BY <1>3
  <2>2. CASE d \in net
    BY <1>1, <2>2 DEF TypeOK, ArmInv, NumbersTyped
  <2>3. CASE d = Proposal(p, t)
    BY <1>2, <2>3, DatagramTyped DEF Proposal
  <2>4. CASE d = Proposal(p, arm[p].target) /\ arm[p].pending
    BY <1>5, <2>4, DatagramTyped DEF Proposal
  <2> QED BY <2>1, <2>2, <2>3, <2>4
<1>7. /\ arm' \in [Peer -> Arm]
      /\ \A q \in Peer : /\ arm'[q].armed = arm[q].armed /\ arm'[q].on = arm[q].on
                         /\ \/ arm'[q].pending = arm[q].pending /\ arm'[q].target = arm[q].target
                            \/ arm'[q].target = t
  <2>1. CASE arm' = arm
    BY <1>1, <2>1
  <2>2. CASE arm' = [arm EXCEPT ![p].pending = TRUE, ![p].target = t]
    <3> DEFINE x == [arm[p] EXCEPT !.pending = TRUE, !.target = t]
    <3>1. x \in Arm /\ x.armed = arm[p].armed /\ x.on = arm[p].on /\ x.target = t
      BY <1>1, <1>2 DEF Arm
    <3>2. arm' = [arm EXCEPT ![p] = x]
      BY <1>1, <2>2 DEF Arm
    <3> HIDE DEF x
    <3> QED BY <1>1, <3>1, <3>2
  <2> QED BY <1>3, <2>1, <2>2
<1>8. TypeOK'
  <2>1. net' \subseteq Datagram
    BY <1>6
  <2> QED BY <1>1, <1>3, <1>4, <1>7, <2>1 DEF TypeOK, Arm, Targets
<1>9. PendingHasFrame'
  <2>1. t >= 0
    BY <1>2, SizesAreNat
  <2> QED BY <1>7, <2>1 DEF ArmInv, PendingHasFrame
<1>10. LatchIsEngine' /\ NumbersTyped' /\ armedAt' = armedAt
  BY <1>6, <1>7 DEF ArmInv, LatchIsEngine, NumbersTyped
<1> QED BY <1>8, <1>9, <1>10 DEF ArmInv

LEMMA DisarmReceived ==
  ASSUME ArmInv, NEW p \in Peer, NEW rest \in SUBSET net, OnPeerDisarm(p, rest),
         UNCHANGED <<running, presses, armedAt, refused>>
  PROVE  ArmInv'
<1>1. TypeOK /\ arm \in [Peer -> Arm]
  BY ArmTyped DEF ArmInv
<1>2. /\ UNCHANGED <<clock, line, want, late>> /\ net' = rest
      /\ arm' = [arm EXCEPT ![p] = DisarmAsked(p)]
  BY DEF OnPeerDisarm
<1>3. /\ DisarmAsked(p) \in Arm
      /\ DisarmAsked(p).on = arm[p].on /\ DisarmAsked(p).armed = arm[p].armed
      /\ DisarmAsked(p).target = arm[p].target
      /\ DisarmAsked(p).pending => arm[p].pending
  BY <1>1 DEF DisarmAsked, Arm
<1>4. /\ arm' \in [Peer -> Arm]
      /\ \A q \in Peer : /\ arm'[q].armed = arm[q].armed /\ arm'[q].on = arm[q].on
                         /\ arm'[q].target = arm[q].target /\ (arm'[q].pending => arm[q].pending)
  BY <1>1, <1>2, <1>3
<1>5. TypeOK'
  BY <1>1, <1>2, <1>4 DEF TypeOK, Arm, Targets
<1>6. PendingHasFrame' /\ LatchIsEngine' /\ NumbersTyped'
  BY <1>2, <1>4 DEF ArmInv, PendingHasFrame, LatchIsEngine, NumbersTyped
<1> QED BY <1>5, <1>6 DEF ArmInv

LEMMA EpochReceived ==
  ASSUME ArmInv, NEW p \in Peer, NEW m \in net, m.type = "epoch",
         NEW rest \in SUBSET net, OnPeerEpoch(p, m.n, rest),
         UNCHANGED <<running, presses, armedAt, refused>>
  PROVE  ArmInv'
<1> DEFINE e == m.n
<1>1. /\ TypeOK /\ clock \in [Peer -> 0..MaxClock] /\ net \subseteq Datagram
      /\ line \in [Peer -> 1..MaxLine] /\ want \in [Peer -> 1..MaxLine]
      /\ \A q \in Peer : line[q] <= want[q]
  BY DEF ArmInv, TypeOK
<1>2. e \in 1..MaxLine
  BY DEF ArmInv, NumbersTyped
<1>3. /\ UNCHANGED <<arm, late>>
      /\ \/ /\ line' = [line EXCEPT ![p] = e] /\ want' = [want EXCEPT ![p] = Newest(@, e)]
            /\ clock' = [clock EXCEPT ![p] = 0] /\ net' = rest
         \/ /\ net' \in {rest, rest \cup {Epoch(p, want[p])}} /\ UNCHANGED <<clock, line, want>>
  BY DEF OnPeerEpoch
<1> HIDE DEF e
<1>4. ASSUME NEW d \in net'
      PROVE  /\ d \in Datagram
             /\ d.type = "arm" => d.n \in 0..(MaxClock + Lead)
             /\ d.type = "epoch" => d.n \in 1..MaxLine
  <2>1. d \in net \/ d = Epoch(p, want[p])
    BY <1>3
  <2>2. CASE d \in net
    BY <1>1, <2>2 DEF ArmInv, NumbersTyped
  <2>3. CASE d = Epoch(p, want[p])
    BY <1>1, <2>3, DatagramTyped DEF Epoch
  <2> QED BY <2>1, <2>2, <2>3
<1>5. /\ line' \in [Peer -> 1..MaxLine] /\ want' \in [Peer -> 1..MaxLine] /\ clock' \in [Peer -> 0..MaxClock]
      /\ \A q \in Peer : line'[q] <= want'[q]
  <2>1. Newest(want[p], e) \in 1..MaxLine /\ e <= Newest(want[p], e)
    BY <1>1, <1>2, NewestTyped
  <2>2. 0 \in 0..MaxClock
    BY SizesAreNat
  <2> QED BY <1>1, <1>2, <1>3, <2>1, <2>2
<1>6. TypeOK'
  <2>1. net' \subseteq Datagram
    BY <1>4
  <2> QED BY <1>1, <1>3, <1>5, <2>1 DEF TypeOK
<1>7. PendingHasFrame' /\ LatchIsEngine' /\ NumbersTyped'
  BY <1>3, <1>4 DEF ArmInv, PendingHasFrame, LatchIsEngine, NumbersTyped
<1> QED BY <1>6, <1>7 DEF ArmInv

LEMMA ReceiveKept ==
  ASSUME ArmInv, NEW p \in Peer, NEW m \in net, Receive(p, m)
  PROVE  ArmInv'
<1>1. running[p] /\ UNCHANGED <<running, presses, armedAt, refused>>
  BY DEF Receive
<1>2. PICK rest \in SUBSET net :
        \/ m.type = "arm"    /\ OnPeerPropose(p, m.n, rest)
        \/ m.type = "disarm" /\ OnPeerDisarm(p, rest)
        \/ m.type = "epoch"  /\ OnPeerEpoch(p, m.n, rest)
  <2>1. PICK rest \in {net \ {m}} \cup (IF Unreliable THEN {net} ELSE {}) :
          \/ m.type = "arm"    /\ OnPeerPropose(p, m.n, rest)
          \/ m.type = "disarm" /\ OnPeerDisarm(p, rest)
          \/ m.type = "epoch"  /\ OnPeerEpoch(p, m.n, rest)
    BY DEF Receive
  <2>2. rest \in SUBSET net
    OBVIOUS
  <2> QED BY <2>1, <2>2
<1> QED BY <1>1, <1>2, ProposeReceived, DisarmReceived, EpochReceived

LEMMA OthersKept ==
  ASSUME ArmInv, (\E p \in Peer : StateTimeline(p) \/ Disconnect(p)) \/ Lose \/ UNCHANGED vars
  PROVE  ArmInv'
<1>1. UNCHANGED <<arm, clock, line, want, presses, armedAt, refused, late>>
  BY DEF StateTimeline, Disconnect, Lose, vars
<1>2. running' \in [Peer -> BOOLEAN] /\ \A q \in Peer : running'[q] => running[q]
  BY DEF StateTimeline, Disconnect, Lose, vars, ArmInv, TypeOK
<1>3. \A m \in net' : m \in net \/ \E p \in Peer : m = Epoch(p, want[p])
  BY DEF StateTimeline, Disconnect, Lose, vars
<1>4. \A p \in Peer : want[p] \in 1..MaxLine
  BY DEF ArmInv, TypeOK
<1>5. \A m \in net' : /\ m \in Datagram
                      /\ m.type = "arm" => m.n \in 0..(MaxClock + Lead)
                      /\ m.type = "epoch" => m.n \in 1..MaxLine
  <2> SUFFICES ASSUME NEW m \in net'
               PROVE  /\ m \in Datagram
                      /\ m.type = "arm" => m.n \in 0..(MaxClock + Lead)
                      /\ m.type = "epoch" => m.n \in 1..MaxLine
    OBVIOUS
  <2>1. CASE m \in net
    BY <2>1 DEF ArmInv, TypeOK, NumbersTyped
  <2>2. CASE \E p \in Peer : m = Epoch(p, want[p])
    BY <1>4, <2>2, DatagramTyped DEF Epoch
  <2> QED BY <1>3, <2>1, <2>2
<1>6. TypeOK'
  BY <1>1, <1>2, <1>5 DEF ArmInv, TypeOK
<1>7. PendingHasFrame' /\ LatchIsEngine' /\ NumbersTyped'
  BY <1>1, <1>2, <1>5 DEF ArmInv, PendingHasFrame, LatchIsEngine, NumbersTyped
<1> QED BY <1>1, <1>6, <1>7 DEF ArmInv

LEMMA ArmStarts == Init => ArmInv
<1> SUFFICES ASSUME Init PROVE ArmInv
  OBVIOUS
<1>1. /\ arm = [p \in Peer |-> [on |-> FALSE, armed |-> FALSE, pending |-> FALSE,
                                target |-> -1, disarm |-> FALSE]]
      /\ running = [p \in Peer |-> TRUE] /\ clock = [p \in Peer |-> 0]
      /\ line = [p \in Peer |-> 1] /\ want = [p \in Peer |-> 1]
      /\ net = {} /\ presses = 0 /\ armedAt = [p \in Peer |-> Never] /\ refused = {} /\ late = FALSE
  BY DEF Init
<1>2. -1 \in -1..(MaxClock + Lead) /\ 1 \in 1..MaxLine /\ 0 \in 0..MaxClock /\ 0 \in 0..MaxPresses /\ 0 \in 0..MaxLine
  BY SizesAreNat
<1>3. TypeOK
  <2>1. arm \in [Peer -> Arm]
    BY <1>1, <1>2 DEF Arm, Targets
  <2>2. /\ running \in [Peer -> BOOLEAN] /\ clock \in [Peer -> 0..MaxClock]
        /\ line \in [Peer -> 1..MaxLine] /\ want \in [Peer -> 1..MaxLine]
        /\ \A q \in Peer : line[q] <= want[q]
    BY <1>1, <1>2
  <2>3. net \subseteq Datagram /\ presses \in 0..MaxPresses /\ refused \subseteq Peer /\ late \in BOOLEAN
    BY <1>1, <1>2
  <2> QED BY <2>1, <2>2, <2>3 DEF TypeOK, Arm, Targets
<1>4. armedAt \in [Peer -> [line : 0..MaxLine, frame : 0..MaxClock]]
  BY <1>1, <1>2 DEF Never
<1>5. PendingHasFrame /\ LatchIsEngine /\ NumbersTyped
  BY <1>1 DEF PendingHasFrame, LatchIsEngine, NumbersTyped
<1> QED BY <1>3, <1>4, <1>5 DEF ArmInv

LEMMA ArmKept == ArmInv /\ [Next]_vars => ArmInv'
BY FrameKept, ReceiveKept, OthersKept DEF Next

----------------------------------------------------------------------------
(* Every variable of the arm agreement keeps its type.                      *)
THEOREM TypeCorrect == Spec => []TypeOK
<1>1. Spec => []ArmInv
  BY ArmStarts, ArmKept, PTL DEF Spec
<1>2. ArmInv => TypeOK
  BY DEF ArmInv
<1> QED BY <1>1, <1>2, PTL

LEMMA PressTakes ==
  ASSUME ArmInv, NEW p \in Peer \ refused, NEW f5 \in BOOLEAN, f5, Frame(p, f5), ~arm[p].on
  PROVE  arm'[p].on \/ arm'[p].pending \/ p \in refused'
<1>1. TypeOK /\ arm \in [Peer -> Arm] /\ clock \in [Peer -> 0..MaxClock]
  BY ArmTyped DEF ArmInv
<1>2. PICK again \in BOOLEAN, captured \in BOOLEAN, a \in Arm, b \in Arm :
        PassOf(p, f5, again, captured, a, b)
  BY <1>1, FrameIs
<1>3. Became(p, f5, captured, a, b)
  BY <1>1, <1>2, FrameArm
<1>4. ~arm[p].armed
  BY DEF ArmInv, LatchIsEngine
<1>5. arm'[p] = b
  BY <1>1, <1>2 DEF PassOf
<1>6. CASE Due(p, a) /\ ~captured
  BY <1>2, <1>6 DEF PassOf
<1>7. CASE Due(p, a) /\ captured
  BY <1>3, <1>5, <1>7 DEF Became
<1>8. CASE ~Due(p, a)
  BY <1>3, <1>4, <1>5, <1>8 DEF Became
<1> QED BY <1>6, <1>7, <1>8

(* No press of F5 with the engine off is swallowed, for any lead, any       *)
(* number of presses, and whatever the session and the peer do: the peer    *)
(* has an arm under way or its engine on, unless a baseline was refused     *)
(* (propose, tick_should_arm, consume_disarm).                             *)
THEOREM NoPressIsSwallowed == Spec => PressHasEffect
<1>1. ArmInv /\ [Next]_vars =>
        [\A p \in Peer \ refused :
           Frame(p, TRUE) /\ ~arm[p].on => arm'[p].on \/ arm'[p].pending \/ p \in refused']_vars
  BY PressTakes
<1>2. Spec => []ArmInv
  BY ArmStarts, ArmKept, PTL DEF Spec
<1> QED BY <1>1, <1>2, PTL DEF Spec, PressHasEffect

----------------------------------------------------------------------------
(* One agreement: no disarms, a network that loses and repeats nothing, and *)
(* sessions that stay up.                                                   *)

OneAgreement == ~Disarms /\ ~Unreliable /\ ~MayDrop

(* A peer that is to arm, or has armed, and the net-frame of it.            *)
Committed(p) == arm[p].pending \/ arm[p].on
Goal(p)      == IF arm[p].pending THEN arm[p].target ELSE armedAt[p].frame

(* A baseline was refused: that engine never comes on.                      *)
Refused == \E p \in Peer : arm[p].armed /\ ~arm[p].on

OneArm ==
  /\ \A p \in Peer : /\ running[p] /\ ~arm[p].disarm
                     /\ arm[p].on => arm[p].armed
                     /\ arm[p].pending => ~arm[p].armed
  /\ \A m \in net : m.type # "disarm"

(* Word of a frame no later than a peer's goal is on its way to the other   *)
(* peer, or has been taken into account there.                              *)
Told(p, x) == \E m \in net : m.type = "arm" /\ m.to = Other(p) /\ m.n <= x
Shared(p) == Told(p, Goal(p)) \/ (Committed(Other(p)) /\ Goal(Other(p)) <= Goal(p))

GoalsAgree ==
  ~late /\ ~Refused =>
    \A p \in Peer : /\ arm[p].pending => clock[p] <= arm[p].target
                    /\ Committed(p) => Shared(p)

AgreeInv == ArmInv /\ OneArm /\ GoalsAgree

(* The goals of both peers after a step of one of them, p: if that lowers   *)
(* its goal, or makes it commit, it tells the other; and word that it no    *)
(* longer awaits is in its goal.                                            *)
LEMMA StillShared ==
  ASSUME NEW p \in Peer, \A q \in Peer : Committed(q) => Shared(q),
         \A q \in Peer : Committed(q) => Goal(q) \in Int,
         \A q \in Peer : Committed(q)' => Goal(q)' \in Int,
         \A m \in net : m.type = "arm" => m.n \in Int,
         \A q \in Peer \ {p} : Committed(q)' = Committed(q) /\ (Committed(q) => Goal(q)' = Goal(q)),
         Committed(p) => Committed(p)' /\ Goal(p)' <= Goal(p),
         \A m \in net : m.type = "arm" =>
           m \in net' \/ (m.to = p /\ Committed(p)' /\ Goal(p)' <= m.n),
         Committed(p)' => \/ Told(p, Goal(p))'
                          \/ Committed(p) /\ Goal(p)' = Goal(p)
  PROVE  \A q \in Peer : Committed(q)' => Shared(q)'
<1> DEFINE o == Other(p)
<1>1. o \in Peer /\ o # p /\ Other(o) = p /\ \A q \in Peer : q = p \/ q = o
  BY TwoPeers
<1> HIDE DEF o
<1>2. Other(p) = o
  BY DEF o
<1>3. ASSUME Committed(p)' PROVE Shared(p)'
  <2>1. CASE Told(p, Goal(p))'
    BY <2>1 DEF Shared
  <2>2. CASE Committed(p) /\ Goal(p)' = Goal(p)
    <3>1. CASE Told(p, Goal(p))
      <4>1. PICK m \in net : m.type = "arm" /\ m.to = o /\ m.n <= Goal(p)
        BY <1>2, <3>1 DEF Told
      <4>2. m \in net'
        BY <1>1, <4>1
      <4> QED BY <1>2, <2>2, <4>1, <4>2 DEF Told, Shared
    <3>2. CASE Committed(o) /\ Goal(o) <= Goal(p)
      BY <1>1, <1>2, <2>2, <3>2 DEF Shared
    <3> QED BY <1>2, <2>2, <3>1, <3>2 DEF Shared
  <2> QED BY <1>3, <2>1, <2>2
<1>4. ASSUME Committed(o)' PROVE Shared(o)'
  <2>1. Committed(o) /\ Goal(o)' = Goal(o) /\ Goal(o) \in Int
    BY <1>1, <1>4
  <2>2. CASE Told(o, Goal(o))
    <3>1. PICK m \in net : m.type = "arm" /\ m.to = p /\ m.n <= Goal(o)
      BY <1>1, <2>2 DEF Told
    <3>2. CASE m \in net'
      BY <1>1, <2>1, <3>1, <3>2 DEF Told, Shared
    <3>3. CASE Committed(p)' /\ Goal(p)' <= m.n
      <4>1. Goal(p)' \in Int /\ m.n \in Int
        BY <3>1, <3>3
      <4>2. Goal(p)' <= Goal(o)'
        BY <2>1, <3>1, <3>3, <4>1
      <4> QED BY <1>1, <3>3, <4>2 DEF Shared
    <3> QED BY <3>1, <3>2, <3>3
  <2>3. CASE Committed(p) /\ Goal(p) <= Goal(o)
    <3>1. Goal(p) \in Int /\ Goal(p)' \in Int /\ Committed(p)' /\ Goal(p)' <= Goal(p)
      BY <2>3
    <3>2. Goal(p)' <= Goal(o)'
      BY <2>1, <2>3, <3>1
    <3> QED BY <1>1, <3>1, <3>2 DEF Shared
  <2> QED BY <1>1, <2>1, <2>2, <2>3 DEF Shared
<1> QED BY <1>1, <1>3, <1>4

LEMMA GoalTyped == ArmInv => \A q \in Peer : Goal(q) \in Int
<1> SUFFICES ASSUME ArmInv PROVE \A q \in Peer : Goal(q) \in Int
  OBVIOUS
<1>1. \A p \in Peer : arm[p].target \in Int /\ armedAt[p].frame \in Int
  BY ArmTyped, SizesAreNat DEF ArmInv, Arm, Targets
<1> QED BY <1>1 DEF Goal

LEMMA WordTyped == ArmInv => \A m \in net : m.type = "arm" => m.n \in Int
BY SizesAreNat DEF ArmInv, NumbersTyped

LEMMA FrameAgrees ==
  ASSUME OneAgreement, AgreeInv, NEW p \in Peer, NEW f5 \in BOOLEAN, Frame(p, f5)
  PROVE  OneArm' /\ GoalsAgree'
<1>1. /\ ArmInv /\ TypeOK /\ arm \in [Peer -> Arm] /\ clock \in [Peer -> 0..MaxClock] /\ ArmInv'
      /\ armedAt \in [Peer -> [line : 0..MaxLine, frame : 0..MaxClock]]
  BY ArmTyped, FrameKept DEF AgreeInv, ArmInv
<1>2. PICK again \in BOOLEAN, captured \in BOOLEAN, a \in Arm, b \in Arm :
        PassOf(p, f5, again, captured, a, b)
  BY <1>1, FrameIs
<1>3. Became(p, f5, captured, a, b)
  BY <1>1, <1>2, FrameArm
<1>4. /\ running[p] /\ ~arm[p].disarm
      /\ arm[p].on => arm[p].armed
      /\ arm[p].pending => ~arm[p].armed
  BY DEF AgreeInv, OneArm
<1>5. ~(f5 /\ arm[p].on)
  BY <1>2 DEF PassOf, OneAgreement
<1>6. a.on = arm[p].on /\ a.armed = arm[p].armed /\ ~b.disarm /\ ~Solo(p, a)
  BY <1>3, <1>4, <1>5 DEF Became
<1>7. b.on <=> arm[p].on \/ (captured /\ Due(p, a))
  BY <1>3, <1>6 DEF Became
<1>8. Due(p, a) => a.pending /\ b.armed /\ ~arm[p].on /\ ~arm[p].armed /\ clock[p] >= a.target
  BY <1>3, <1>6 DEF Became
<1>9. ~Due(p, a) => b.armed = arm[p].armed
  BY <1>3, <1>6 DEF Became
<1>10. a.pending => \/ arm[p].pending /\ a.target = arm[p].target
                    \/ /\ f5 /\ ~arm[p].on /\ ~arm[p].armed /\ ~arm[p].pending
                       /\ a.target = clock[p] + Lead
  BY <1>3, <1>4 DEF Became
<1>11. /\ b.pending <=> a.pending /\ ~Due(p, a)
       /\ b.target = a.target
       /\ arm[p].pending => a.pending /\ a.target = arm[p].target
  BY <1>3, <1>5 DEF Became
<1>12. /\ arm'[p] = b /\ \A q \in Peer \ {p} : arm'[q] = arm[q]
       /\ UNCHANGED <<running, line, late>> /\ net \subseteq net'
  BY <1>1, <1>2 DEF PassOf
<1>13. OneArm'
  <2>1. b.on => b.armed
    BY <1>4, <1>7, <1>8, <1>9
  <2>2. b.pending => ~b.armed
    BY <1>4, <1>9, <1>10, <1>11
  <2>3. ASSUME NEW m \in net' PROVE m.type # "disarm"
    <3>1. CASE m \in net
      BY <3>1 DEF AgreeInv, OneArm
    <3>2. CASE m \in Sent(p, FrameSends(p, f5, again, a, b.on /\ ~a.on))
      <4>1. m = Proposal(p, a.target) \/ m = Epoch(p, want'[p])
        BY <1>5, <3>2, FrameSent
      <4> QED BY <4>1 DEF Proposal, Epoch
    <3> QED BY <1>2, <3>1, <3>2 DEF PassOf
  <2>4. ASSUME NEW q \in Peer
        PROVE  /\ running'[q] /\ ~arm'[q].disarm
               /\ arm'[q].on => arm'[q].armed
               /\ arm'[q].pending => ~arm'[q].armed
    <3>1. CASE q = p
      BY <1>4, <1>6, <1>12, <2>1, <2>2, <3>1
    <3>2. CASE q # p
      BY <1>12, <3>2 DEF AgreeInv, OneArm
    <3> QED BY <3>1, <3>2
  <2> QED BY <2>3, <2>4 DEF OneArm
<1>14. GoalsAgree'
  <2> SUFFICES ASSUME ~late', ~Refused'
               PROVE  \A q \in Peer : /\ arm'[q].pending => clock'[q] <= arm'[q].target
                                      /\ Committed(q)' => Shared(q)'
    BY DEF GoalsAgree
  <2>1. ~Refused
    <3> SUFFICES ASSUME NEW q \in Peer, arm[q].armed, ~arm[q].on PROVE FALSE
      BY DEF Refused
    <3>1. q = p
      BY <1>12 DEF Refused
    <3>2. b.armed /\ ~b.on
      BY <1>7, <1>8, <1>9, <3>1
    <3> QED BY <1>12, <3>2 DEF Refused
  <2>2. \A q \in Peer : /\ arm[q].pending => clock[q] <= arm[q].target
                        /\ Committed(q) => Shared(q)
    BY <1>12, <2>1 DEF AgreeInv, GoalsAgree
  <2>3. Due(p, a) => captured
    <3>1. Due(p, a) /\ ~captured => b.armed /\ ~b.on
      BY <1>7, <1>8
    <3> QED BY <1>12, <3>1 DEF Refused
  <2>4. clock[p] \in Nat /\ a.target \in Int /\ Lead \in Nat /\ Lead > 0
    BY <1>1, <1>2, SizesAreNat DEF Arm, Targets
  <2>5. armedAt'[p] = IF b.on /\ ~a.on THEN [line |-> line[p], frame |-> clock[p]] ELSE armedAt[p]
    BY <1>1, <1>2 DEF PassOf
  <2>6. \A q \in Peer \ {p} : armedAt'[q] = armedAt[q] /\ clock'[q] = clock[q]
    BY <1>1, <1>2 DEF PassOf
  <2>7. clock'[p] \in Nat /\ clock'[p] <= clock[p] + 1
    <3>1. clock'[p] = IF clock[p] < MaxClock THEN clock[p] + 1 ELSE clock[p]
      BY <1>1, <1>2 DEF PassOf
    <3> QED BY <2>4, <3>1
  <2>8. b.pending => clock[p] < a.target
    <3>1. b.pending => ~a.on /\ ~a.armed
      BY <1>4, <1>6, <1>10, <1>11
    <3>2. b.pending => ~(clock[p] >= a.target)
      BY <1>11, <3>1 DEF Due
    <3> QED BY <2>4, <3>2
  <2>9. \A q \in Peer : arm'[q].pending => clock'[q] <= arm'[q].target
    <3> SUFFICES ASSUME NEW q \in Peer, arm'[q].pending PROVE clock'[q] <= arm'[q].target
      OBVIOUS
    <3>1. CASE q = p
      <4>1. b.pending /\ clock[p] < a.target /\ arm'[q].target = a.target
        BY <1>11, <1>12, <2>8, <3>1
      <4> QED BY <2>4, <2>7, <3>1, <4>1
    <3>2. CASE q # p
      BY <1>12, <2>2, <2>6, <3>2
    <3> QED BY <3>1, <3>2
  <2>10. ASSUME arm[p].pending PROVE Committed(p)' /\ Goal(p)' = Goal(p)
    <3>1. a.pending /\ a.target = arm[p].target /\ clock[p] <= a.target
      BY <1>11, <2>2, <2>10
    <3>2. CASE Due(p, a)
      <4>1. b.on /\ ~a.on /\ ~b.pending
        BY <1>6, <1>7, <1>8, <1>11, <2>3, <3>2
      <4>2. armedAt'[p].frame = clock[p] /\ clock[p] = a.target
        BY <1>8, <2>4, <2>5, <3>1, <3>2, <4>1
      <4> QED BY <1>12, <2>10, <3>1, <4>1, <4>2 DEF Committed, Goal
    <3>3. CASE ~Due(p, a)
      BY <1>11, <1>12, <2>10, <3>1, <3>3 DEF Committed, Goal
    <3> QED BY <3>2, <3>3
  <2>11. ASSUME arm[p].on PROVE Committed(p)' /\ Goal(p)' = Goal(p)
    <3>1. ~arm[p].pending /\ ~a.pending
      BY <1>4, <1>10, <2>11
    <3>2. b.on /\ ~b.pending /\ armedAt'[p] = armedAt[p]
      BY <1>6, <1>7, <1>11, <2>5, <2>11, <3>1
    <3> QED BY <1>12, <3>1, <3>2 DEF Committed, Goal
  <2>12. ASSUME Committed(p)', ~Committed(p) PROVE Told(p, Goal(p))'
    <3>1. ~arm[p].pending /\ ~arm[p].on
      BY <2>12 DEF Committed
    <3>2. a.pending => f5 /\ ~a.on /\ a.target = clock[p] + Lead
      BY <1>6, <1>10, <3>1
    <3>3. ~Due(p, a)
      BY <1>8, <2>4, <3>2
    <3>4. ~b.on /\ b.pending /\ a.pending
      BY <1>7, <1>11, <1>12, <2>12, <3>1, <3>3 DEF Committed
    <3>5. Proposal(p, a.target) \in net'
      <4>1. Proposal(p, a.target) \in FrameSends(p, f5, again, a, b.on /\ ~a.on)
        BY <3>2, <3>4 DEF FrameSends
      <4>2. Proposal(p, a.target) \in Sent(p, FrameSends(p, f5, again, a, b.on /\ ~a.on))
        BY <1>4, <4>1 DEF Sent
      <4> QED BY <1>2, <4>2 DEF PassOf
    <3>6. Goal(p)' = a.target
      BY <1>11, <1>12, <3>4 DEF Goal
    <3> QED BY <2>4, <3>5, <3>6 DEF Told, Proposal
  <2>13. \A q \in Peer \ {p} : Committed(q)' = Committed(q) /\ (Committed(q) => Goal(q)' = Goal(q))
    BY <1>12, <2>6 DEF Committed, Goal
  <2>14. /\ \A q \in Peer : Goal(q) \in Int /\ Goal(q)' \in Int
         /\ \A m \in net : m.type = "arm" => m.n \in Int
    <3>1. (\A q \in Peer : Goal(q) \in Int)'
      BY <1>1, GoalTyped, PTL
    <3> QED BY <1>1, <3>1, GoalTyped, WordTyped
  <2>15. Committed(p) => Committed(p)' /\ Goal(p)' = Goal(p)
    BY <2>10, <2>11 DEF Committed
  <2>16. \A q \in Peer : Committed(q)' => Shared(q)'
    <3>1. Committed(p) => Committed(p)' /\ Goal(p)' <= Goal(p)
      BY <2>14, <2>15
    <3>2. Committed(p)' => Told(p, Goal(p))' \/ (Committed(p) /\ Goal(p)' = Goal(p))
      BY <2>12, <2>15
    <3>3. \A m \in net : m.type = "arm" => m \in net' \/ (m.to = p /\ Committed(p)' /\ Goal(p)' <= m.n)
      BY <1>12
    <3> QED BY <2>2, <2>13, <2>14, <3>1, <3>2, <3>3, StillShared
  <2> QED BY <2>9, <2>16
<1> QED BY <1>13, <1>14

(* A proposal is taken unless the peer has armed, or is to arm no later.    *)
LEMMA ProposeAgrees ==
  ASSUME AgreeInv, ArmInv', NEW p \in Peer, NEW m \in net, m.type = "arm", m.to = p,
         OnPeerPropose(p, m.n, net \ {m}), UNCHANGED <<running, presses, armedAt, refused>>
  PROVE  OneArm' /\ GoalsAgree'
<1> DEFINE t == m.n
           rest == net \ {m}
<1>1. /\ ArmInv /\ arm \in [Peer -> Arm] /\ clock \in [Peer -> 0..MaxClock]
      /\ armedAt \in [Peer -> [line : 0..MaxLine, frame : 0..MaxClock]]
  BY ArmTyped DEF AgreeInv, ArmInv
<1>2. t \in Nat /\ t \in Targets
  BY <1>1, SizesAreNat DEF ArmInv, NumbersTyped, Targets
<1>3. /\ UNCHANGED <<clock, line, want, running, armedAt>>
      /\ late' = (late \/ (~arm[p].armed /\ clock[p] > t) \/ (arm[p].armed /\ armedAt[p].frame > t))
      /\ \/ arm[p].armed /\ net' = rest /\ arm' = arm
         \/ /\ ~arm[p].armed /\ arm[p].pending /\ arm[p].target <= t
            /\ rest \subseteq net' /\ arm' = arm
            /\ net' \subseteq rest \cup {Proposal(p, arm[p].target)}
         \/ /\ ~arm[p].armed /\ ~(arm[p].pending /\ arm[p].target <= t)
            /\ arm' = [arm EXCEPT ![p].pending = TRUE, ![p].target = t]
            /\ net' = rest \cup {Proposal(p, t)}
  BY DEF OnPeerPropose
<1>4. \A d \in net : d \in net' \/ d = m
  BY <1>3
<1> HIDE DEF t, rest
<1>5. /\ \A q \in Peer \ {p} : arm'[q] = arm[q]
      /\ arm'[p].armed = arm[p].armed /\ arm'[p].on = arm[p].on /\ arm'[p].disarm = arm[p].disarm
      /\ arm' = arm \/ (~arm[p].armed /\ arm'[p].pending /\ arm'[p].target = t)
  <2>1. CASE arm' = arm
    BY <1>1, <2>1
  <2>2. CASE ~arm[p].armed /\ arm' = [arm EXCEPT ![p].pending = TRUE, ![p].target = t]
    <3> DEFINE x == [arm[p] EXCEPT !.pending = TRUE, !.target = t]
    <3>1. /\ x.armed = arm[p].armed /\ x.on = arm[p].on /\ x.disarm = arm[p].disarm
          /\ x.target = t /\ x.pending
      BY <1>1, <1>2 DEF Arm
    <3>2. arm' = [arm EXCEPT ![p] = x]
      BY <1>1, <2>2 DEF Arm
    <3> HIDE DEF x
    <3> QED BY <1>1, <2>2, <3>1, <3>2
  <2> QED BY <1>3, <2>1, <2>2
<1>6. OneArm'
  <2>1. \A d \in net' : d.type # "disarm"
    <3>1. \A d \in net' : \/ d \in net
                          \/ d = Proposal(p, t)
                          \/ d = Proposal(p, arm[p].target)
      BY <1>3 DEF rest
    <3> QED BY <3>1 DEF Proposal, AgreeInv, OneArm
  <2> QED BY <1>3, <1>5, <2>1 DEF AgreeInv, OneArm
<1>7. GoalsAgree'
  <2> SUFFICES ASSUME ~late', ~Refused'
               PROVE  \A q \in Peer : /\ arm'[q].pending => clock'[q] <= arm'[q].target
                                      /\ Committed(q)' => Shared(q)'
    BY DEF GoalsAgree
  <2>1. ~Refused
    BY <1>5 DEF Refused
  <2>2. ~late /\ ~(~arm[p].armed /\ clock[p] > t) /\ ~(arm[p].armed /\ armedAt[p].frame > t)
    BY <1>3
  <2>3. \A q \in Peer : /\ arm[q].pending => clock[q] <= arm[q].target
                        /\ Committed(q) => Shared(q)
    BY <2>1, <2>2 DEF AgreeInv, GoalsAgree
  <2>4. clock[p] \in Nat /\ armedAt[p].frame \in Nat /\ arm[p].target \in Int
    BY <1>1, SizesAreNat DEF Arm, Targets
  <2>5. ASSUME NEW q \in Peer, arm'[q].pending PROVE clock'[q] <= arm'[q].target
    <3>1. CASE arm'[q] = arm[q]
      BY <1>3, <2>3, <2>5, <3>1
    <3>2. CASE q = p /\ ~arm[p].armed /\ arm'[p].target = t
      <4>1. clock[p] <= t
        BY <1>2, <2>2, <2>4, <3>2
      <4> QED BY <1>3, <3>2, <4>1
    <3> QED BY <1>5, <3>1, <3>2
  <2>6. /\ \A q \in Peer : Goal(q) \in Int /\ Goal(q)' \in Int
        /\ \A d \in net : d.type = "arm" => d.n \in Int
    <3>1. (\A q \in Peer : Goal(q) \in Int)'
      BY GoalTyped, PTL
    <3> QED BY <1>1, <3>1, GoalTyped, WordTyped
  <2>7. \A q \in Peer \ {p} : Committed(q)' = Committed(q) /\ (Committed(q) => Goal(q)' = Goal(q))
    BY <1>3, <1>5 DEF Committed, Goal
  <2>8. /\ Committed(p)' /\ Goal(p)' <= t
        /\ Committed(p) => Goal(p)' <= Goal(p)
        /\ Told(p, Goal(p))' \/ (Committed(p) /\ Goal(p)' = Goal(p))
    <3>1. CASE arm[p].armed /\ arm' = arm
      <4>1. arm[p].on /\ ~arm[p].pending
        BY <2>1, <3>1 DEF Refused, AgreeInv, OneArm
      <4>2. Committed(p) /\ Committed(p)' /\ Goal(p) = armedAt[p].frame /\ Goal(p)' = Goal(p)
        BY <1>3, <3>1, <4>1 DEF Committed, Goal
      <4>3. armedAt[p].frame <= t
        BY <1>2, <2>2, <2>4, <3>1
      <4> QED BY <2>4, <4>2, <4>3
    <3>2. CASE ~arm[p].armed /\ arm[p].pending /\ arm[p].target <= t /\ arm' = arm
      <4>1. Committed(p) /\ Committed(p)' /\ Goal(p) = arm[p].target /\ Goal(p)' = Goal(p)
        BY <1>3, <3>2 DEF Committed, Goal
      <4> QED BY <2>4, <3>2, <4>1
    <3>3. CASE /\ ~arm[p].armed /\ ~(arm[p].pending /\ arm[p].target <= t)
               /\ arm'[p].pending /\ arm'[p].target = t /\ net' = rest \cup {Proposal(p, t)}
      <4>1. Committed(p)' /\ Goal(p)' = t
        BY <3>3 DEF Committed, Goal
      <4>2. Told(p, Goal(p))'
        <5>1. Proposal(p, t) \in net'
          BY <3>3
        <5>2. /\ Proposal(p, t).type = "arm" /\ Proposal(p, t).to = Other(p)
              /\ Proposal(p, t).n <= Goal(p)'
          BY <1>2, <4>1 DEF Proposal
        <5> QED BY <5>1, <5>2 DEF Told
      <4>3. Committed(p) => arm[p].pending
        BY <3>3 DEF Committed, AgreeInv, OneArm
      <4>4. Committed(p) => t <= Goal(p)
        BY <1>2, <2>4, <3>3, <4>3 DEF Goal
      <4> QED BY <1>2, <4>1, <4>2, <4>4
    <3>4. ~arm[p].armed /\ arm' = [arm EXCEPT ![p].pending = TRUE, ![p].target = t] =>
            arm'[p].pending /\ arm'[p].target = t
      BY <1>1, <1>2 DEF Arm
    <3> QED BY <1>3, <3>1, <3>2, <3>3, <3>4
  <2>9. \A d \in net : d.type = "arm" => d \in net' \/ (d.to = p /\ Committed(p)' /\ Goal(p)' <= d.n)
    BY <1>4, <2>8 DEF t
  <2>10. \A q \in Peer : Committed(q)' => Shared(q)'
    <3>1. Committed(p) => Committed(p)' /\ Goal(p)' <= Goal(p)
      BY <2>8
    <3>2. Committed(p)' => Told(p, Goal(p))' \/ (Committed(p) /\ Goal(p)' = Goal(p))
      BY <2>8
    <3> QED BY <2>3, <2>6, <2>7, <2>9, <3>1, <3>2, StillShared
  <2> QED BY <2>5, <2>10
<1> QED BY <1>6, <1>7

(* Steps that change no arm, drop no proposal and only start clocks again.  *)
LEMMA OthersAgree ==
  ASSUME AgreeInv, ArmInv, UNCHANGED <<arm, running, armedAt, late>>,
         \A q \in Peer : clock'[q] = clock[q] \/ clock'[q] = 0,
         \A d \in net : d.type = "arm" => d \in net',
         \A d \in net' : d \in net \/ d.type = "epoch"
  PROVE  OneArm' /\ GoalsAgree'
<1>1. OneArm'
  BY DEF AgreeInv, OneArm
<1>2. Refused' = Refused /\ \A q \in Peer : Committed(q)' = Committed(q) /\ Goal(q)' = Goal(q)
  BY DEF Refused, Committed, Goal
<1>3. \A q \in Peer : arm[q].pending => 0 <= arm[q].target
  BY DEF AgreeInv, OneArm, ArmInv, PendingHasFrame
<1>4. ASSUME NEW q \in Peer, Shared(q) PROVE Shared(q)'
  <2>1. Other(q) \in Peer
    BY TwoPeers
  <2>2. CASE Told(q, Goal(q))
    BY <1>2, <2>2 DEF Told, Shared
  <2>3. CASE Committed(Other(q)) /\ Goal(Other(q)) <= Goal(q)
    BY <1>2, <2>1, <2>3 DEF Shared
  <2> QED BY <1>4, <2>2, <2>3 DEF Shared
<1>5. GoalsAgree'
  <2> SUFFICES ASSUME ~late, ~Refused, NEW q \in Peer
               PROVE  /\ arm[q].pending => clock'[q] <= arm[q].target
                      /\ Committed(q) => Shared(q)'
    BY <1>2 DEF GoalsAgree
  <2>1. /\ arm[q].pending => clock[q] <= arm[q].target
        /\ Committed(q) => Shared(q)
    BY DEF AgreeInv, GoalsAgree
  <2> QED BY <1>3, <1>4, <2>1
<1> QED BY <1>1, <1>5

LEMMA AgreeKept == OneAgreement /\ AgreeInv /\ [Next]_vars => AgreeInv'
<1> SUFFICES ASSUME OneAgreement, AgreeInv, [Next]_vars PROVE AgreeInv'
  OBVIOUS
<1>1. ArmInv /\ ArmInv'
  BY ArmKept DEF AgreeInv
<1>2. ASSUME NEW p \in Peer, NEW f5 \in BOOLEAN, Frame(p, f5) PROVE OneArm' /\ GoalsAgree'
  BY <1>2, FrameAgrees
<1>3. ASSUME NEW p \in Peer, NEW m \in net, Receive(p, m) PROVE OneArm' /\ GoalsAgree'
  <2>1. m.to = p /\ UNCHANGED <<running, presses, armedAt, refused>>
    BY <1>3 DEF Receive
  <2>2. \/ m.type = "arm" /\ OnPeerPropose(p, m.n, net \ {m})
        \/ m.type = "disarm"
        \/ m.type = "epoch" /\ OnPeerEpoch(p, m.n, net \ {m})
    BY <1>3 DEF Receive, OneAgreement
  <2>3. CASE m.type = "arm" /\ OnPeerPropose(p, m.n, net \ {m})
    BY <1>1, <2>1, <2>3, ProposeAgrees
  <2>4. CASE m.type = "disarm"
    BY <2>4 DEF AgreeInv, OneArm
  <2>5. CASE m.type = "epoch" /\ OnPeerEpoch(p, m.n, net \ {m})
    <3>1. /\ UNCHANGED <<arm, late>>
          /\ \A d \in net : d.type = "arm" => d \in net'
      BY <2>5 DEF OnPeerEpoch
    <3>2. \A d \in net' : d \in net \/ d.type = "epoch"
      BY <2>5 DEF OnPeerEpoch, Epoch
    <3>3. \A q \in Peer : clock'[q] = clock[q] \/ clock'[q] = 0
      <4>1. clock \in [Peer -> 0..MaxClock]
        BY <1>1 DEF ArmInv, TypeOK
      <4> QED BY <2>5, <4>1 DEF OnPeerEpoch
    <3> QED BY <1>1, <2>1, <3>1, <3>2, <3>3, OthersAgree
  <2> QED BY <2>2, <2>3, <2>4, <2>5
<1>4. ASSUME NEW p \in Peer, StateTimeline(p) PROVE OneArm' /\ GoalsAgree'
  <2>1. /\ UNCHANGED <<arm, running, armedAt, late, clock>>
        /\ \A d \in net : d.type = "arm" => d \in net'
        /\ \A d \in net' : d \in net \/ d.type = "epoch"
    BY <1>4 DEF StateTimeline, Epoch
  <2> QED BY <1>1, <2>1, OthersAgree
<1>5. ASSUME UNCHANGED vars PROVE OneArm' /\ GoalsAgree'
  <2>1. UNCHANGED <<arm, running, armedAt, late, clock, net>>
    BY <1>5 DEF vars
  <2> QED BY <1>1, <2>1, OthersAgree
<1>6. ~Lose /\ \A p \in Peer : ~Disconnect(p)
  BY DEF OneAgreement, Lose, Disconnect
<1> QED BY <1>1, <1>2, <1>3, <1>4, <1>5, <1>6 DEF Next, AgreeInv

LEMMA AgreeStarts == Init => AgreeInv
<1> SUFFICES ASSUME Init PROVE AgreeInv
  OBVIOUS
<1>1. ArmInv
  BY ArmStarts
<1>2. \A p \in Peer : /\ running[p] /\ ~arm[p].disarm /\ ~arm[p].on /\ ~arm[p].pending
                      /\ ~arm[p].armed
  BY DEF Init
<1>3. OneArm
  BY <1>2 DEF OneArm, Init
<1>4. GoalsAgree
  BY <1>2 DEF GoalsAgree, Committed
<1> QED BY <1>1, <1>3, <1>4 DEF AgreeInv

LEMMA AgreeInvIsSameFrame == AgreeInv => SameFrame
<1> SUFFICES ASSUME AgreeInv, \A p \in Peer : arm[p].on /\ ~OverdueFor(p), ~late
             PROVE  \A p, q \in Peer : armedAt[p].frame = armedAt[q].frame
  BY DEF SameFrame
<1>1. ~Refused /\ \A p \in Peer : ~arm[p].pending
  BY DEF Refused, AgreeInv, OneArm
<1>2. \A p \in Peer : Goal(p) = armedAt[p].frame /\ armedAt[p].frame \in Int
  BY <1>1 DEF Goal, AgreeInv, ArmInv
<1>3. ASSUME NEW p \in Peer PROVE armedAt[Other(p)].frame <= armedAt[p].frame
  <2>1. Shared(p)
    BY <1>1 DEF AgreeInv, GoalsAgree, Committed
  <2>2. Other(p) \in Peer
    BY TwoPeers
  <2>3. CASE Told(p, Goal(p))
    <3>1. PICK m \in net : m.type = "arm" /\ m.to = Other(p) /\ m.n <= armedAt[p].frame
      BY <1>2, <2>3 DEF Told
    <3>2. m.n \in Int
      BY <3>1, WordTyped DEF AgreeInv
    <3>3. ~(m.n < armedAt[Other(p)].frame)
      BY <2>2, <3>1 DEF OverdueFor
    <3> QED BY <1>2, <2>2, <3>1, <3>2, <3>3
  <2>4. CASE Goal(Other(p)) <= Goal(p)
    BY <1>2, <2>2, <2>4
  <2> QED BY <2>1, <2>3, <2>4 DEF Shared
<1>4. ASSUME NEW p \in Peer PROVE armedAt[Other(p)].frame = armedAt[p].frame
  <2>1. Other(p) \in Peer /\ Other(Other(p)) = p
    BY TwoPeers
  <2>2. /\ armedAt[Other(p)].frame <= armedAt[p].frame
        /\ armedAt[p].frame <= armedAt[Other(p)].frame
    BY <1>3, <2>1
  <2> QED BY <1>2, <2>1, <2>2
<1> QED BY <1>4, TwoPeers

(* On a network that loses and repeats nothing, two engines armed by one    *)
(* agreement are armed on one net-frame, for any lead, any number of        *)
(* crossing presses and refused baselines, as long as every proposal        *)
(* reached its peer before the frame it names (on_peer_propose,             *)
(* tick_should_arm).                                                       *)
THEOREM EnginesArmOnOneFrame ==
  ASSUME OneAgreement
  PROVE  Spec => []SameFrame
<1>1. AgreeInv /\ [Next]_vars => AgreeInv'
  BY AgreeKept
<1>2. Spec => []AgreeInv
  BY <1>1, AgreeStarts, PTL DEF Spec
<1> QED BY <1>2, AgreeInvIsSameFrame, PTL

=============================================================================
