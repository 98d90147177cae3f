--------------------------- MODULE RollbackFrames ---------------------------
(***************************************************************************)
(* hk_main_proc of resim.cpp, one machine: a pass of the main loop drains   *)
(* the session, takes the rollback that late input asked for, may hold the  *)
(* frame (TimeSync, the prediction barrier, the fight's wait), looks at the *)
(* keys and runs the game's frame; with it what net_input.cpp does with     *)
(* the frame: guess the remote pad, judge the guess when the input arrives, *)
(* and translate between net-frames and engine frames for a replay.         *)
(*                                                                         *)
(* The pass is the program counter pc.  The peer is the environment: its    *)
(* inputs arrive in any order, or never.  What a rollback does to memory is *)
(* in ArenaSnapshot and RollbackPhases, the two peers' timelines are in     *)
(* NetInput; here one machine is between its net-frames and its frames.     *)
(***************************************************************************)
EXTENDS Integers, FiniteSets, FiniteSetsExt

CONSTANTS
  Pads,           \* what the remote player may hold
  Neutral,        \* g_neutral, one of Pads
  MaxDepth,       \* MAX_ROLLBACK_DEPTH
  ManualDepth,    \* g_rollback_depth, of F6 and the automatic rollback
  MaxPrediction,  \* MAX_PREDICTION, the barrier
  StallMax,       \* STALL_MAX
  Give,           \* the frames recommend_wait may give back, TS_MIN..TS_MAX
  AdviceInterval, \* TS_RECOMMEND_INTERVAL
  Delay,          \* the input delay of a timeline
  Ring,           \* RING, the slots of the map of engine frames
  MaxFrame,       \* bound of the model: engine frames
  MaxNet,         \* bound of the model: net-frames of a timeline, below RING
  MaxLines        \* bound of the model: timelines

ASSUME PadsAssumption == Neutral \in Pads /\ Neutral # "none" /\ "none" \notin Pads
ASSUME FramesAssumption ==
  /\ {MaxDepth, ManualDepth, MaxPrediction, StallMax, AdviceInterval, Ring} \subseteq Nat \ {0}
  /\ {Delay, MaxFrame, MaxNet, MaxLines} \subseteq Nat /\ Give \subseteq Nat \ {0}
  /\ Ring > MaxDepth

VARIABLES
  pc,       \* where the pass is
  on,       \* g_engine_on
  frame,    \* g_frame_counter
  request,  \* g_rb_request: the engine frame to go back to, or -1
  at,       \* g_replay_frame: the frame do_rollback is about to replay, or -1
  then,     \* where the pass goes on after the replay
  active,   \* net_input's g_active
  line,     \* timelines activated so far
  netFrame, \* g_net_frame
  got,      \* g_remote: the pad of each net-frame, "none" until it arrives
  guess,    \* g_was_pred with g_pred: the guess a net-frame was run with, or "none"
  last,     \* g_last_remote
  map,      \* g_net_for_engine
  stall,    \* s_stall_run
  hold,     \* s_ts_hold
  advice,   \* s_ts_next_frame
  ran,      \* ghost: the remote pad each net-frame was run with live
  asked,    \* ghost: the net-frame the pending, or running, rollback is for
  repaired  \* ghost: whether that frame has been run again with the pad that arrived

net      == <<active, line, netFrame, got, guess, last, map, ran>>
gates    == <<stall, hold, advice>>
rollback == <<request, at, then, asked, repaired>>
vars     == <<pc, on, frame, net, gates, rollback>>

Nets     == 0..(MaxNet - 1)
None     == "none"
Idx(f)   == f % Ring

(* seed_neutral(): the first Delay frames are known to be neutral.          *)
Seeded   == [f \in Nets |-> IF f < Delay THEN Neutral ELSE None]
Nothing  == [f \in Nets |-> None]

RemoteHigh  == Max({-1} \cup {f \in Nets : got[f] # None})
FramesAhead == IF active THEN netFrame - RemoteHigh ELSE 0
RemoteReady == ~active \/ netFrame >= MaxNet \/ got[netFrame] # None

----------------------------------------------------------------------------
Init ==
  /\ pc = "pump" /\ on = FALSE /\ frame = 0
  /\ request = -1 /\ at = -1 /\ then = "gate"
  /\ active \in BOOLEAN /\ line = 1 /\ netFrame = 0
  /\ got = Seeded /\ guess = Nothing /\ last = Neutral
  /\ map = [i \in 0..(Ring - 1) |-> -1]
  /\ stall = 0 /\ hold = 0 /\ advice = 0
  /\ ran = Nothing /\ asked = -1 /\ repaired = FALSE

(* session_pump: datagrams of the peer.                                     *)

(* request_rollback_to(): the deepest of the pending requests stays.        *)
Deepest(e) == IF request >= 0 /\ request <= e THEN request ELSE e

Mapped(f) == {e \in 0..(Ring - 1) : map[e] = f}

MutantNowWrong(f, pad) == f < netFrame /\ guess[f] # None /\ last # pad

(* Late input: it contradicts the guess the frame was run with.             *)
Wrong(f, pad) == f < netFrame /\ guess[f] # None /\ guess[f] # pad

(* on_recv_input, for a frame it does not hold yet.                         *)
Receive(f, pad) ==
  /\ pc = "pump" /\ active
  /\ got[f] = None
  /\ got' = [got EXCEPT ![f] = pad]
  /\ guess' = IF f < netFrame THEN [guess EXCEPT ![f] = None] ELSE guess
  /\ IF Wrong(f, pad) /\ Mapped(f) # {}
     THEN /\ \E e \in Mapped(f) : (\A d \in Mapped(f) : e <= d) /\ request' = Deepest(e)
          /\ asked' = IF request' = request THEN asked ELSE f
     ELSE UNCHANGED <<request, asked>>
  /\ UNCHANGED <<pc, on, frame, at, then, repaired, active, line, netFrame, last, map, ran, gates>>

(* activate_epoch with do_reset: the map and the pending request stay.      *)
Restart ==
  /\ pc = "pump" /\ line < MaxLines
  /\ active' = TRUE /\ line' = line + 1 /\ netFrame' = 0
  /\ got' = Seeded /\ guess' = Nothing /\ last' = Neutral /\ ran' = Nothing
  /\ asked' = -1
  /\ UNCHANGED <<pc, on, frame, request, at, then, repaired, map, gates>>

----------------------------------------------------------------------------
(* The rollback late input asked for, at the top of the pass.               *)

MutantNoReplay(target, next) ==
  /\ at' = target /\ then' = next /\ pc' = next /\ repaired' = FALSE

GoBack(target, next) ==
  /\ at' = target /\ then' = next /\ pc' = "replay" /\ repaired' = FALSE

MutantUnbounded(want) == on /\ want >= 0 /\ want < frame

Reachable(want) == on /\ want >= 0 /\ want < frame /\ frame - want <= MaxDepth

(* do_rollback may also put the rollback off (RollbackPhases): the request  *)
(* is consumed all the same.  With the engine off nobody takes it.          *)
Service ==
  /\ pc = "pump"
  /\ request' = IF on THEN -1 ELSE request
  /\ \/ /\ Reachable(request)
        /\ GoBack(request, "gate")
        /\ UNCHANGED asked
     \/ /\ pc' = "gate"
        /\ asked' = IF on THEN -1 ELSE asked
        /\ UNCHANGED <<at, then, repaired>>
  /\ UNCHANGED <<on, frame, net, gates>>

(* pad_for_engine_frame, for the slot of the remote player.                 *)
ReplayPad(e) ==
  LET n == map[Idx(e)]
  IN IF n >= 0 /\ n < MaxNet /\ got[n] # None THEN got[n] ELSE Neutral

(* The net-frame the engine frame e was run on, within this timeline.       *)
LivedOn(e) == netFrame - (frame - e)

(* What on_frame_begin makes of the frame N the clock is at.  ef is         *)
(* current_frame(): the counter, in a replay as in a live frame.            *)
Resolved(N) == IF got[N] # None THEN got[N] ELSE last

Guessed(N) ==
  IF got[N] # None THEN None ELSE IF guess[N] # None THEN guess[N] ELSE Resolved(N)

FrameBegin(ef) ==
  IF active /\ netFrame < MaxNet
  THEN /\ last' = Resolved(netFrame)
       /\ guess' = [guess EXCEPT ![netFrame] = Guessed(netFrame)]
       /\ map' = [map EXCEPT ![Idx(ef)] = netFrame]
  ELSE UNCHANGED <<last, guess, map>>

(* One frame of the resim loop: the game polls its pads through the hooks.  *)
Replay ==
  /\ pc = "replay"
  /\ FrameBegin(frame)
  /\ repaired' = (repaired \/ (active /\ asked >= 0 /\ LivedOn(at) = asked /\ ReplayPad(at) = got[asked]))
  /\ IF at + 1 = frame
     THEN at' = -1 /\ pc' = then /\ then' = "gate" /\ asked' = -1
     ELSE at' = at + 1 /\ UNCHANGED <<pc, then, asked>>
  /\ UNCHANGED <<on, frame, request, active, line, netFrame, got, ran, gates>>

----------------------------------------------------------------------------
(* The gates of the frame.                                                  *)

(* TimeSync: frames given back to the slower peer, never twice within the   *)
(* interval.  What recommend_wait averages is left open.                    *)
Advise(give) ==
  IF hold = 0 /\ active /\ netFrame >= advice /\ give # 0
  THEN hold' = give - 1 /\ advice' = netFrame + AdviceInterval
  ELSE hold' = hold - 1 /\ UNCHANGED advice

GiveBack(give) ==
  /\ pc = "gate"
  /\ hold > 0 \/ (active /\ netFrame >= advice /\ give # 0)
  /\ Advise(give)
  /\ pc' = "pump"
  /\ UNCHANGED <<on, frame, net, stall, rollback>>

Waiting(inFight) == active /\ (FramesAhead >= MaxPrediction \/ (inFight /\ ~RemoteReady))

Stalls(inFight) == Waiting(inFight) /\ stall < StallMax

MutantUncounted == stall

(* s_stall_run, of the frames held in a row.                                *)
StallRun == stall + 1

Stall(inFight) ==
  /\ pc = "gate" /\ hold = 0
  /\ Stalls(inFight)
  /\ stall' = StallRun
  /\ pc' = "pump"
  /\ UNCHANGED <<on, frame, net, hold, advice, rollback>>

(* Neither holds the frame, or the wait has been given up.                  *)
Pass(inFight) ==
  /\ pc = "gate" /\ hold = 0
  /\ ~Stalls(inFight)
  /\ stall' = 0
  /\ pc' = "keys"
  /\ UNCHANGED <<on, frame, net, hold, advice, rollback>>

----------------------------------------------------------------------------
(* The keys, and the frame itself.                                          *)

(* An agreed arm whose baseline was captured, or a disarm.                  *)
Switch ==
  /\ pc = "keys"
  /\ on' = ~on
  /\ pc' = "run"
  /\ UNCHANGED <<frame, net, gates, rollback>>

(* F6, and the automatic rollback: never in a session.                      *)
Manual ==
  /\ pc = "keys"
  /\ on /\ ~active /\ frame - ManualDepth >= 0
  /\ GoBack(frame - ManualDepth, "run")
  /\ UNCHANGED <<on, frame, net, gates, request, asked>>

NoKey ==
  /\ pc = "keys"
  /\ pc' = "run"
  /\ UNCHANGED <<on, frame, net, gates, rollback>>

Counted == IF on THEN frame + 1 ELSE frame

(* The save, the counter, orig_main_proc and advance_frame.                 *)
Run ==
  /\ pc = "run"
  /\ Counted <= MaxFrame /\ (active => netFrame < MaxNet)
  /\ frame' = Counted
  /\ FrameBegin(frame')
  /\ ran' = IF active THEN [ran EXCEPT ![netFrame] = Resolved(netFrame)] ELSE ran
  /\ netFrame' = IF active THEN netFrame + 1 ELSE netFrame
  /\ pc' = "pump"
  /\ UNCHANGED <<on, active, line, got, gates, rollback>>

Datagrams == Restart \/ \E f \in Nets, pad \in Pads : Receive(f, pad)

MainLoop ==
  \/ Service \/ Replay \/ Switch \/ Manual \/ NoKey \/ Run
  \/ \E give \in Give \cup {0} : GiveBack(give)
  \/ \E inFight \in BOOLEAN : Stall(inFight) \/ Pass(inFight)

Next == Datagrams \/ MainLoop

(* Nothing is assumed of the peer or of the network.                        *)
Spec == Init /\ [][Next]_vars /\ WF_vars(MainLoop)

----------------------------------------------------------------------------
(* Types of the variables.                                                  *)
TypeOK ==
  /\ pc \in {"pump", "replay", "gate", "keys", "run"}
  /\ on \in BOOLEAN /\ frame \in 0..MaxFrame
  /\ request \in {-1} \cup 0..(Ring - 1) /\ asked \in {-1} \cup Nets /\ repaired \in BOOLEAN
  /\ at \in {-1} \cup 0..MaxFrame /\ then \in {"gate", "run"}
  /\ (pc = "replay") <=> (at # -1)
  /\ active \in BOOLEAN /\ line \in 1..MaxLines \cup {1} /\ netFrame \in 0..MaxNet
  /\ got \in [Nets -> Pads \cup {None}] /\ guess \in [Nets -> Pads \cup {None}]
  /\ ran \in [Nets -> Pads \cup {None}] /\ last \in Pads
  /\ map \in [0..(Ring - 1) -> {-1} \cup Nets]
  /\ stall \in 0..StallMax /\ hold \in Nat /\ advice \in Nat

(* The clock the allocator, the quarantine and the voices are stamped with  *)
(* (effective_frame): it only counts up, a rollback is never deeper than    *)
(* its caps, and a replay runs every frame from its target to the one it    *)
(* left, once each, whatever arrived meanwhile.                             *)
Clock == INSTANCE FrameClock WITH
  MaxDepth <- IF ManualDepth > MaxDepth THEN ManualDepth ELSE MaxDepth

ImplementsFrameClock == Clock!ClockSpec

(* Input that contradicts what a net-frame was run with asks for a rollback *)
(* to an engine frame no later than the one the map has for it, and no      *)
(* later than a request already pending, however the frame was held,        *)
(* guessed again in a replay or restarted meanwhile (on_frame_begin keeps   *)
(* the first guess; on_recv_input compares with it).  A frame that no entry *)
(* of the map names any more, as when a replay has taken its own, asks for  *)
(* nothing; and a request may still be dropped where it is served.          *)
LateInputAsks ==
  [][\A f \in Nets :
       (got[f] = None /\ got'[f] # None /\ line' = line
          /\ f < netFrame /\ got'[f] # ran[f] /\ Mapped(f) # {})
       => /\ request' >= 0 /\ (request >= 0 => request' <= request)
          /\ \A e \in Mapped(f) : request' <= e]_vars

(* A peer that has fallen silent, and advice to slow down that never        *)
(* changes, do not stop the game: the net-frame goes on ("an unbounded      *)
(* stall is a guaranteed deadlock", resim.cpp).                             *)
KeepsMoving ==
  \A n \in Nets : (active /\ netFrame = n) ~> (netFrame # n \/ frame = MaxFrame)

(* After a rollback for input that arrived late, the frame that was run on  *)
(* a wrong guess has been run again with that input ("the point of the      *)
(* replay", net_input.cpp).                                                 *)
CorrectedInputReplayed ==
  [][(pc = "replay" /\ pc' # "replay" /\ asked >= 0) => repaired']_vars
=============================================================================
