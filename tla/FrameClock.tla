----------------------------- MODULE FrameClock -----------------------------
(***************************************************************************)
(* What the rest of the engine may believe about its clock: the counter     *)
(* goes up by one while the engine is on; a rollback goes back by at most   *)
(* MaxDepth frames, replays each of them once and in order, and comes back  *)
(* to the frame it left with the counter as it was.                         *)
(***************************************************************************)
EXTENDS Integers

CONSTANT MaxDepth   \* the deepest rollback

ASSUME DepthAssumption == MaxDepth \in Nat \ {0}

VARIABLES
  on,      \* g_engine_on
  frame,   \* g_frame_counter
  at       \* g_replay_frame: the frame a rollback is about to replay, or Live

clockVars == <<on, frame, at>>

Live == -1

(* effective_frame(): what births, deaths and inputs are stamped with.      *)
Effective == IF at = Live THEN frame ELSE at

ClockInit == on = FALSE /\ frame = 0 /\ at = Live

Arm     == ~on /\ at = Live /\ on' = TRUE /\ UNCHANGED <<frame, at>>
Disarm  == on /\ at = Live /\ on' = FALSE /\ UNCHANGED <<frame, at>>
Forward == on /\ at = Live /\ frame' = frame + 1 /\ UNCHANGED <<on, at>>

Rollback(target) ==
  /\ on /\ at = Live
  /\ target \in Nat /\ target < frame /\ frame - target <= MaxDepth
  /\ at' = target
  /\ UNCHANGED <<on, frame>>

Replay ==
  /\ at # Live
  /\ at' = IF at + 1 = frame THEN Live ELSE at + 1
  /\ UNCHANGED <<on, frame>>

ClockNext ==
  \/ Arm \/ Disarm \/ Forward \/ Replay
  \/ \E target \in (frame - MaxDepth)..(frame - 1) : Rollback(target)

ClockSpec == ClockInit /\ [][ClockNext]_clockVars
=============================================================================
