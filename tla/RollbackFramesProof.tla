------------------------- MODULE RollbackFramesProof -------------------------
(***************************************************************************)
(* Proofs about RollbackFrames, for any pads, depths, bounds and rings:     *)
(* type correctness, that the frame driver implements FrameClock, and that  *)
(* late input that contradicts a guess always asks for a rollback deep      *)
(* enough.                                                                 *)
(***************************************************************************)
EXTENDS RollbackFrames, TLAPS

USE PadsAssumption, FramesAssumption

(* A rollback under way stays within the frames already run, with the       *)
(* engine on.                                                              *)
ReplayInside == at # -1 => on /\ at < frame

TypeInv == TypeOK /\ ReplayInside

(* What a net-frame was run with is remembered as its guess for as long as  *)
(* the real pad is missing; the frame the clock is at may have been guessed *)
(* by a replay, and then with what it will be run with.                     *)
GuessIsRan ==
  \A f \in Nets : got[f] = None =>
    /\ f < netFrame => guess[f] = ran[f] /\ ran[f] # None
    /\ f = netFrame => guess[f] \in {None, last}
    /\ f > netFrame => guess[f] = None

----------------------------------------------------------------------------
LEMMA RemainderInRing == \A f \in Nat : Idx(f) \in 0..(Ring - 1)
  BY DEF Idx

LEMMA DeepestRequest ==
  ASSUME NEW e \in 0..(Ring - 1), request \in {-1} \cup 0..(Ring - 1)
  PROVE  Deepest(e) \in 0..(Ring - 1) /\ Deepest(e) <= e
  BY DEF Deepest

(* What begins a frame keeps the net side typed.                            *)
LEMMA FrameBeginTyped ==
  ASSUME TypeOK, NEW ef \in Nat, FrameBegin(ef)
  PROVE  /\ last' \in Pads
         /\ guess' \in [Nets -> Pads \cup {None}]
         /\ map' \in [0..(Ring - 1) -> {-1} \cup Nets]
<1>1. CASE active /\ netFrame < MaxNet
  <2>1. netFrame \in Nets
    BY <1>1 DEF TypeOK, Nets
  <2>2. Resolved(netFrame) \in Pads /\ Guessed(netFrame) \in Pads \cup {None}
    BY <2>1 DEF TypeOK, Resolved, Guessed, None
  <2>3. Idx(ef) \in 0..(Ring - 1)
    BY RemainderInRing
  <2> QED
    BY <1>1, <2>1, <2>2, <2>3 DEF FrameBegin, TypeOK
<1>2. CASE ~(active /\ netFrame < MaxNet)
  BY <1>2 DEF FrameBegin, TypeOK
<1> QED
  BY <1>1, <1>2

LEMMA SeededTyped == Seeded \in [Nets -> Pads \cup {None}] /\ Nothing \in [Nets -> Pads \cup {None}]
  BY DEF Seeded, Nothing

LEMMA InitTyped == Init => TypeInv
<1> SUFFICES ASSUME Init PROVE TypeInv
  OBVIOUS
<1>1. got \in [Nets -> Pads \cup {None}] /\ guess \in [Nets -> Pads \cup {None}]
      /\ ran \in [Nets -> Pads \cup {None}]
  BY SeededTyped DEF Init
<1>2. map \in [0..(Ring - 1) -> {-1} \cup Nets]
  BY DEF Init
<1>3. on \in BOOLEAN /\ active \in BOOLEAN /\ repaired \in BOOLEAN
  BY Zenon DEF Init
<1> QED
  BY <1>1, <1>2, <1>3 DEF Init, TypeInv, TypeOK, ReplayInside

(* A rollback starts inside the frames already run.                         *)
LEMMA GoBackTyped ==
  ASSUME TypeOK, NEW target \in Nat, target < frame, NEW next \in {"gate", "run"},
         GoBack(target, next)
  PROVE  /\ at' \in 0..MaxFrame /\ at' # -1 /\ at' < frame
         /\ pc' = "replay" /\ then' \in {"gate", "run"} /\ repaired' \in BOOLEAN
<1>1. frame \in 0..MaxFrame /\ at' = target
  BY DEF GoBack, TypeOK
<1>2. pc' = "replay" /\ then' \in {"gate", "run"} /\ repaired' \in BOOLEAN
  BY DEF GoBack
<1> QED
  BY <1>1, <1>2

LEMMA StepTyped == TypeInv /\ [Next]_vars => TypeInv'
<1> SUFFICES ASSUME TypeInv, [Next]_vars PROVE TypeInv'
  OBVIOUS
<1> USE DEF TypeInv, TypeOK, ReplayInside, net, gates, rollback
<1>1. ASSUME NEW f \in Nets, NEW pad \in Pads, Receive(f, pad) PROVE TypeInv'
  <2>1. got' \in [Nets -> Pads \cup {None}] /\ guess' \in [Nets -> Pads \cup {None}]
    BY <1>1 DEF Receive
  <2>2. request' \in {-1} \cup 0..(Ring - 1)
    BY <1>1, DeepestRequest DEF Receive, Mapped
  <2>3. asked' \in {-1} \cup Nets
    BY <1>1 DEF Receive
  <2> QED
    BY <1>1, <2>1, <2>2, <2>3 DEF Receive
<1>2. CASE Restart
  BY <1>2, SeededTyped DEF Restart
<1>3. CASE Service
  <2>1. request' \in {-1} \cup 0..(Ring - 1)
    BY <1>3 DEF Service
  <2>2. UNCHANGED <<on, frame, net, gates>>
    BY <1>3 DEF Service
  <2>3. CASE Reachable(request) /\ GoBack(request, "gate") /\ UNCHANGED asked
    <3>1. request \in Nat /\ request < frame /\ on
      BY <2>3 DEF Reachable
    <3>2. /\ at' \in 0..MaxFrame /\ at' # -1 /\ at' < frame
          /\ pc' = "replay" /\ then' \in {"gate", "run"} /\ repaired' \in BOOLEAN
      BY <2>3, <3>1, GoBackTyped
    <3> QED
      BY <2>1, <2>2, <2>3, <3>1, <3>2
  <2>4. CASE pc' = "gate" /\ asked' = (IF on THEN -1 ELSE asked) /\ UNCHANGED <<at, then, repaired>>
    <3>1. pc = "pump" /\ at = -1
      BY <1>3 DEF Service
    <3>2. asked' \in {-1} \cup Nets
      BY <2>4
    <3> QED
      BY <2>1, <2>2, <2>4, <3>1, <3>2
  <2> QED
    BY <1>3, <2>3, <2>4 DEF Service
<1>4. CASE Replay
  <2>1. last' \in Pads /\ guess' \in [Nets -> Pads \cup {None}]
        /\ map' \in [0..(Ring - 1) -> {-1} \cup Nets]
    BY <1>4, FrameBeginTyped DEF Replay
  <2>2. repaired' \in BOOLEAN
    BY <1>4, Zenon DEF Replay
  <2>3. UNCHANGED <<on, frame, request, active, line, netFrame, got, ran, stall, hold, advice>>
    BY <1>4 DEF Replay
  <2>4. pc = "replay" /\ at \in 0..MaxFrame /\ frame \in 0..MaxFrame /\ at < frame /\ on
    BY <1>4 DEF Replay
  <2>5. CASE at + 1 = frame
    <3>1. at' = -1 /\ pc' = then /\ then' = "gate" /\ asked' = -1
      BY <1>4, <2>5 DEF Replay
    <3> QED
      BY <2>1, <2>2, <2>3, <3>1
  <2>6. CASE at + 1 # frame
    <3>1. at' = at + 1 /\ UNCHANGED <<pc, then, asked>>
      BY <1>4, <2>6 DEF Replay
    <3>2. at' \in 0..MaxFrame /\ at' # -1 /\ at' < frame
      BY <2>4, <2>6, <3>1
    <3> QED
      BY <2>1, <2>2, <2>3, <2>4, <3>1, <3>2
  <2> QED
    BY <2>5, <2>6
<1>5. ASSUME NEW give \in Give \cup {0}, GiveBack(give) PROVE TypeInv'
  <2>1. UNCHANGED <<on, frame, net, stall, rollback>> /\ pc = "gate" /\ pc' = "pump"
    BY <1>5 DEF GiveBack
  <2>2. hold \in Nat /\ give \in Nat /\ netFrame \in Nat /\ AdviceInterval \in Nat
    BY <1>5
  <2>3. CASE hold = 0 /\ active /\ netFrame >= advice /\ give # 0
    BY <1>5, <2>1, <2>2, <2>3 DEF GiveBack, Advise
  <2>4. CASE ~(hold = 0 /\ active /\ netFrame >= advice /\ give # 0)
    <3>1. hold' = hold - 1 /\ advice' = advice
      BY <1>5, <2>4 DEF GiveBack, Advise
    <3>2. hold > 0
      BY <1>5, <2>2, <2>4 DEF GiveBack
    <3> QED
      BY <2>1, <2>2, <3>1, <3>2
  <2> QED
    BY <2>3, <2>4
<1>6. ASSUME NEW inFight \in BOOLEAN, Stall(inFight) PROVE TypeInv'
  BY <1>6 DEF Stall, Stalls, StallRun
<1>7. ASSUME NEW inFight \in BOOLEAN, Pass(inFight) PROVE TypeInv'
  BY <1>7 DEF Pass
<1>8. CASE Switch
  BY <1>8 DEF Switch
<1>9. CASE Manual
  <2>1. on /\ frame - ManualDepth \in Nat /\ frame - ManualDepth < frame
    BY <1>9 DEF Manual
  <2>2. /\ at' \in 0..MaxFrame /\ at' # -1 /\ at' < frame
        /\ pc' = "replay" /\ then' \in {"gate", "run"} /\ repaired' \in BOOLEAN
    BY <1>9, <2>1, GoBackTyped DEF Manual
  <2> QED
    BY <1>9, <2>1, <2>2 DEF Manual
<1>10. CASE NoKey
  BY <1>10 DEF NoKey
<1>11. CASE Run
  <2>1. frame' \in 0..MaxFrame
    BY <1>11 DEF Run, Counted
  <2>2. last' \in Pads /\ guess' \in [Nets -> Pads \cup {None}]
        /\ map' \in [0..(Ring - 1) -> {-1} \cup Nets]
    BY <1>11, <2>1, FrameBeginTyped DEF Run
  <2>3. netFrame' \in 0..MaxNet
    BY <1>11 DEF Run
  <2>4. ran' \in [Nets -> Pads \cup {None}]
    BY <1>11 DEF Run, Resolved, Nets
  <2> QED
    BY <1>11, <2>1, <2>2, <2>3, <2>4 DEF Run
<1>12. CASE UNCHANGED vars
  BY <1>12 DEF vars
<1> QED
  BY <1>1, <1>2, <1>3, <1>4, <1>5, <1>6, <1>7, <1>8, <1>9, <1>10, <1>11, <1>12
  DEF Next, Datagrams, MainLoop

(* The variables keep their types in every behaviour of hk_main_proc.       *)
THEOREM TypeCorrect == Spec => []TypeOK
<1>1. TypeInv => TypeOK
  BY DEF TypeInv
<1> QED
  BY InitTyped, StepTyped, <1>1, PTL DEF Spec

----------------------------------------------------------------------------
(* Every step of the pass is a step of the clock, or leaves it alone.       *)
LEMMA StepOfTheClock ==
  TypeInv /\ [Next]_vars => [Clock!ClockNext]_(Clock!clockVars)
<1> SUFFICES ASSUME TypeInv, [Next]_vars
             PROVE  Clock!ClockNext \/ UNCHANGED <<on, frame, at>>
  BY DEF Clock!clockVars
<1> USE DEF net, gates, rollback
<1>1. ASSUME NEW f \in Nets, NEW pad \in Pads, Receive(f, pad) PROVE UNCHANGED <<on, frame, at>>
  BY <1>1 DEF Receive
<1>2. CASE Restart
  BY <1>2 DEF Restart
<1>3. ASSUME NEW target \in Nat, NEW next, on, at = -1, target < frame,
             frame - target <= (IF ManualDepth > MaxDepth THEN ManualDepth ELSE MaxDepth),
             GoBack(target, next), UNCHANGED <<on, frame>>
      PROVE  Clock!ClockNext
  <2>1. Clock!Rollback(target)
    BY <1>3 DEF Clock!Rollback, Clock!Live, GoBack
  <2>2. target \in (frame - (IF ManualDepth > MaxDepth THEN ManualDepth ELSE MaxDepth))..(frame - 1)
    BY <1>3 DEF TypeInv, TypeOK
  <2> QED
    BY <2>1, <2>2 DEF Clock!ClockNext
<1>4. CASE Service
  <2>1. CASE Reachable(request) /\ GoBack(request, "gate")
    <3>1. request \in Nat /\ on /\ request < frame /\ frame - request <= MaxDepth
      BY <2>1 DEF Reachable, TypeInv, TypeOK
    <3>2. frame - request <= (IF ManualDepth > MaxDepth THEN ManualDepth ELSE MaxDepth)
      BY <3>1 DEF TypeInv, TypeOK
    <3>3. at = -1 /\ UNCHANGED <<on, frame>>
      BY <1>4 DEF Service, TypeInv, TypeOK
    <3> QED
      BY <1>3, <2>1, <3>1, <3>2, <3>3
  <2>2. CASE UNCHANGED <<at, then, repaired>>
    BY <1>4, <2>2 DEF Service
  <2> QED
    BY <1>4, <2>1, <2>2 DEF Service
<1>5. CASE Replay
  <2>1. at # -1 /\ at' = (IF at + 1 = frame THEN -1 ELSE at + 1) /\ UNCHANGED <<on, frame>>
    BY <1>5 DEF Replay, TypeInv, TypeOK
  <2>2. Clock!Replay
    BY <2>1 DEF Clock!Replay, Clock!Live
  <2> QED
    BY <2>2 DEF Clock!ClockNext
<1>6. ASSUME NEW give \in Give \cup {0}, GiveBack(give) PROVE UNCHANGED <<on, frame, at>>
  BY <1>6 DEF GiveBack
<1>7. ASSUME NEW inFight \in BOOLEAN, Stall(inFight) \/ Pass(inFight) PROVE UNCHANGED <<on, frame, at>>
  BY <1>7 DEF Stall, Pass
<1>8. CASE Switch
  <2>1. at = -1 /\ on \in BOOLEAN /\ on' = ~on /\ UNCHANGED <<frame, at>>
    BY <1>8 DEF Switch, TypeInv, TypeOK
  <2>2. Clock!Arm \/ Clock!Disarm
    BY <2>1 DEF Clock!Arm, Clock!Disarm, Clock!Live
  <2> QED
    BY <2>2 DEF Clock!ClockNext
<1>9. CASE Manual
  <2>1. /\ on /\ at = -1 /\ UNCHANGED <<on, frame>>
        /\ GoBack(frame - ManualDepth, "run") /\ frame - ManualDepth >= 0
    BY <1>9 DEF Manual, TypeInv, TypeOK
  <2>2. /\ frame - ManualDepth \in Nat /\ frame - ManualDepth < frame
        /\ frame - (frame - ManualDepth) <= (IF ManualDepth > MaxDepth THEN ManualDepth ELSE MaxDepth)
    BY <2>1 DEF TypeInv, TypeOK
  <2> QED
    BY <1>3, <2>1, <2>2
<1>10. CASE NoKey
  BY <1>10 DEF NoKey
<1>11. CASE Run
  <2>1. at = -1 /\ frame' = (IF on THEN frame + 1 ELSE frame) /\ UNCHANGED <<on, at>>
    BY <1>11 DEF Run, Counted, TypeInv, TypeOK
  <2>2. on => Clock!Forward
    BY <2>1 DEF Clock!Forward, Clock!Live
  <2> QED
    BY <2>1, <2>2 DEF Clock!ClockNext
<1>12. CASE UNCHANGED vars
  BY <1>12 DEF vars
<1> QED
  BY <1>1, <1>2, <1>4, <1>5, <1>6, <1>7, <1>8, <1>9, <1>10, <1>11, <1>12
  DEF Next, Datagrams, MainLoop

(* The frame driver implements the clock that births, deaths and inputs are *)
(* stamped with: it only counts up, goes back no deeper than the caps, and  *)
(* a replay runs each frame from its target to the one it left.             *)
THEOREM ClockRefined == Spec => ImplementsFrameClock
<1>1. Init => Clock!ClockInit
  BY DEF Init, Clock!ClockInit, Clock!Live
<1> QED
  BY InitTyped, StepTyped, StepOfTheClock, <1>1, PTL
  DEF Spec, ImplementsFrameClock, Clock!ClockSpec

----------------------------------------------------------------------------
GuessInv == TypeInv /\ GuessIsRan

LEMMA InitGuess == Init => GuessInv
  BY InitTyped DEF Init, GuessInv, GuessIsRan, Nothing, Nets

(* A frame begun, live or in a replay, guesses what its remote pad will be  *)
(* run as.                                                                 *)
LEMMA FrameBeginGuesses ==
  ASSUME GuessInv, NEW ef \in Nat, FrameBegin(ef), active, netFrame < MaxNet
  PROVE  /\ netFrame \in Nets /\ Resolved(netFrame) # None
         /\ \A f \in Nets : f # netFrame => guess'[f] = guess[f]
         /\ got[netFrame] = None =>
              guess'[netFrame] = last /\ last' = last /\ Resolved(netFrame) = last
<1>1. netFrame \in Nets /\ guess \in [Nets -> Pads \cup {None}] /\ last \in Pads
  BY DEF GuessInv, TypeInv, TypeOK, Nets
<1>2. Resolved(netFrame) # None
  BY <1>1 DEF Resolved, None
<1>3. \A f \in Nets : f # netFrame => guess'[f] = guess[f]
  BY <1>1 DEF FrameBegin
<1>4. ASSUME got[netFrame] = None
      PROVE  guess'[netFrame] = last /\ last' = last /\ Resolved(netFrame) = last
  <2>1. guess[netFrame] \in {None, last}
    BY <1>1, <1>4 DEF GuessInv, GuessIsRan
  <2>2. Resolved(netFrame) = last /\ Guessed(netFrame) = last
    BY <1>4, <2>1 DEF Resolved, Guessed
  <2> QED
    BY <1>1, <2>2 DEF FrameBegin
<1> QED
  BY <1>1, <1>2, <1>3, <1>4

LEMMA StepGuess == GuessInv /\ [Next]_vars => GuessInv'
<1> SUFFICES ASSUME GuessInv, [Next]_vars PROVE GuessIsRan'
  BY StepTyped DEF GuessInv
<1> USE DEF net, gates, rollback
<1>0. TypeInv /\ netFrame \in 0..MaxNet /\ frame \in Nat /\ guess \in [Nets -> Pads \cup {None}]
      /\ got \in [Nets -> Pads \cup {None}] /\ ran \in [Nets -> Pads \cup {None}]
  BY DEF GuessInv, TypeInv, TypeOK
<1>1. ASSUME UNCHANGED <<netFrame, got, guess, last, ran>> PROVE GuessIsRan'
  BY <1>1 DEF GuessInv, GuessIsRan
<1>2. ASSUME NEW f \in Nets, NEW pad \in Pads, Receive(f, pad) PROVE GuessIsRan'
  <2>1. UNCHANGED <<netFrame, last, ran>>
    BY <1>2 DEF Receive
  <2>2. ASSUME NEW g \in Nets, got'[g] = None PROVE got[g] = None /\ guess'[g] = guess[g]
    <3>1. g # f
      BY <1>0, <1>2, <2>2 DEF Receive, None
    <3> QED
      BY <1>0, <1>2, <2>2, <3>1 DEF Receive
  <2> QED
    BY <2>1, <2>2 DEF GuessInv, GuessIsRan
<1>3. CASE Restart
  BY <1>3 DEF Restart, GuessIsRan, Nothing, Nets
<1>4. CASE Service
  BY <1>1, <1>4 DEF Service
<1>5. CASE Replay
  <2>1. FrameBegin(frame) /\ UNCHANGED <<netFrame, got, ran>>
    BY <1>5 DEF Replay
  <2>2. CASE active /\ netFrame < MaxNet
    BY <1>0, <2>1, <2>2, FrameBeginGuesses DEF GuessInv, GuessIsRan
  <2>3. CASE ~(active /\ netFrame < MaxNet)
    BY <1>1, <2>1, <2>3 DEF FrameBegin
  <2> QED
    BY <2>2, <2>3
<1>6. ASSUME NEW give \in Give \cup {0}, GiveBack(give) PROVE GuessIsRan'
  BY <1>1, <1>6 DEF GiveBack
<1>7. ASSUME NEW inFight \in BOOLEAN, Stall(inFight) \/ Pass(inFight) PROVE GuessIsRan'
  BY <1>1, <1>7 DEF Stall, Pass
<1>8. CASE Switch \/ Manual \/ NoKey
  BY <1>1, <1>8 DEF Switch, Manual, NoKey
<1>9. CASE Run
  <2>1. CASE ~active
    BY <1>1, <1>9, <2>1 DEF Run, FrameBegin
  <2>2. CASE active
    <3>1. /\ netFrame < MaxNet /\ FrameBegin(frame') /\ frame' \in Nat /\ got' = got
          /\ netFrame' = netFrame + 1 /\ ran' = [ran EXCEPT ![netFrame] = Resolved(netFrame)]
      BY <1>0, <1>9, <2>2 DEF Run, Counted
    <3>2. /\ netFrame \in Nets /\ Resolved(netFrame) # None
          /\ \A f \in Nets : f # netFrame => guess'[f] = guess[f]
          /\ got[netFrame] = None => guess'[netFrame] = last /\ Resolved(netFrame) = last
      BY <2>2, <3>1, FrameBeginGuesses
    <3>3. ran'[netFrame] = Resolved(netFrame) /\ \A f \in Nets : f # netFrame => ran'[f] = ran[f]
      BY <1>0, <3>1, <3>2
    <3>4. ASSUME NEW f \in Nets, got'[f] = None
          PROVE  /\ f < netFrame' => guess'[f] = ran'[f] /\ ran'[f] # None
                 /\ f = netFrame' => guess'[f] \in {None, last'}
                 /\ f > netFrame' => guess'[f] = None
      <4>1. f \in Nat /\ got[f] = None
        BY <3>1, <3>4 DEF Nets
      <4>2. CASE f = netFrame
        BY <1>0, <3>1, <3>2, <3>3, <4>1, <4>2
      <4>3. CASE f < netFrame
        BY <1>0, <3>1, <3>2, <3>3, <4>1, <4>3 DEF GuessInv, GuessIsRan
      <4>4. CASE f > netFrame
        BY <1>0, <3>1, <3>2, <3>3, <4>1, <4>4 DEF GuessInv, GuessIsRan
      <4> QED
        BY <1>0, <4>1, <4>2, <4>3, <4>4
    <3> QED
      BY <3>4 DEF GuessIsRan
  <2> QED
    BY <2>1, <2>2
<1>10. CASE UNCHANGED vars
  BY <1>1, <1>10 DEF vars
<1> QED
  BY <1>2, <1>3, <1>4, <1>5, <1>6, <1>7, <1>8, <1>9, <1>10
  DEF Next, Datagrams, MainLoop

----------------------------------------------------------------------------
(* The step in which late input contradicts what a net-frame was run with.  *)
Contradicts(f) ==
  /\ got[f] = None /\ got'[f] # None /\ line' = line
  /\ f < netFrame /\ got'[f] # ran[f] /\ Mapped(f) # {}

LEMMA ContradictionAsks ==
  ASSUME GuessInv, Next, NEW f \in Nets, Contradicts(f)
  PROVE  /\ request' >= 0 /\ (request >= 0 => request' <= request)
         /\ \A e \in Mapped(f) : request' <= e
<1> USE DEF net, gates, rollback
<1>1. got[f] = None /\ got'[f] # got[f] /\ line' = line
      /\ got \in [Nets -> Pads \cup {None}] /\ line \in Int
      /\ request \in {-1} \cup 0..(Ring - 1)
  BY DEF GuessInv, TypeInv, TypeOK, Contradicts
<1>2. ~MainLoop
  <2>1. MainLoop => got' = got
    BY DEF MainLoop, Service, Replay, Switch, Manual, NoKey, Run, GiveBack, Stall, Pass
  <2> QED
    BY <1>1, <2>1
<1>3. ~Restart
  BY <1>1 DEF Restart
<1>4. PICK g \in Nets, pad \in Pads : Receive(g, pad)
  BY <1>2, <1>3 DEF Next, Datagrams
<1>5. g = f /\ got'[f] = pad
  BY <1>1, <1>4 DEF Receive
<1>6. guess[f] = ran[f] /\ guess[f] # None
  BY <1>1 DEF GuessInv, GuessIsRan, Contradicts
<1>7. Wrong(f, pad) /\ Mapped(f) # {}
  BY <1>5, <1>6 DEF Wrong, Contradicts
<1>8. PICK e \in Mapped(f) : (\A d \in Mapped(f) : e <= d) /\ request' = Deepest(e)
  BY <1>4, <1>5, <1>7 DEF Receive
<1>9. Mapped(f) \subseteq 0..(Ring - 1)
  BY DEF Mapped
<1> QED
  BY <1>1, <1>8, <1>9 DEF Deepest

(* Input that contradicts what a net-frame was run with asks for a rollback *)
(* at least as deep as the frame the map has for it and as any request      *)
(* still pending (on_recv_input against on_frame_begin and a replay).       *)
THEOREM LateInputHeard == Spec => LateInputAsks
<1>1. GuessInv /\ [Next]_vars =>
        [\A f \in Nets :
           (got[f] = None /\ got'[f] # None /\ line' = line
              /\ f < netFrame /\ got'[f] # ran[f] /\ Mapped(f) # {})
           => /\ request' >= 0 /\ (request >= 0 => request' <= request)
              /\ \A e \in Mapped(f) : request' <= e]_vars
  BY ContradictionAsks DEF Contradicts
<1> QED
  BY InitGuess, StepGuess, <1>1, PTL DEF Spec, LateInputAsks
=============================================================================
