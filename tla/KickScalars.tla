----------------------------- MODULE KickScalars -----------------------------
(***************************************************************************)
(* resim.cpp: the counter and the toggle that the render kick moves on once *)
(* a frame and the game reads.  They lie in sRender, which a rollback keeps *)
(* live, and a replayed frame's kick is suppressed: so their trajectory is  *)
(* recorded when a frame is saved, and played back frame by frame.          *)
(*                                                                         *)
(* A kick moves counter and toggle together: one number stands for both.    *)
(***************************************************************************)
EXTENDS FrameClock

CONSTANTS
  KickSlots,   \* slots of g_kick_ring
  MaxKicks     \* bound of the model: kicks

ASSUME KickAssumption == KickSlots \in Nat /\ KickSlots >= MaxDepth /\ MaxKicks \in Nat

VARIABLES
  scalar,   \* sRender+0x6764c, +0x67648
  kicks,    \* g_kick_ring: per saved frame, the scalar it began with
  kicked,   \* whether the frame that runs has had its kick
  lived,    \* ghost: the scalar each frame began with when it was run live
  back      \* ghost: a rollback not yet followed by a live kick or save: target, scalar found

kickVars == <<scalar, kicks, kicked, lived, back>>

NoRollback == [target |-> Live, scalar |-> 0]

KickInit ==
  /\ scalar = 0 /\ kicked = FALSE /\ back = NoRollback
  /\ kicks = <<>> /\ lived = <<>>

(* orig_go_kick, in a live frame: the engine's own gate may skip it.  With  *)
(* the engine off the frames are not counted.                               *)
KickGame ==
  IF at = Live
  THEN /\ on => ~kicked
       /\ scalar < MaxKicks /\ scalar' \in {scalar, scalar + 1}
       /\ kicked' = TRUE /\ back' = NoRollback
       /\ UNCHANGED <<kicks, lived>>
  ELSE UNCHANGED kickVars

(* The recording at the save of a frame, before the frame runs.             *)
KickFrame ==
  /\ kicks' = [f \in {g \in DOMAIN kicks : g > frame - KickSlots} \cup {frame} |->
                 IF f = frame THEN scalar ELSE kicks[f]]
  /\ lived' = [f \in DOMAIN lived \cup {frame} |-> IF f = frame THEN scalar ELSE lived[f]]
  /\ kicked' = FALSE /\ back' = NoRollback
  /\ UNCHANGED scalar

(* arena::load leaves sRender out (op_srender_rederive_exclude).            *)
KickRollback(target) ==
  /\ scalar < MaxKicks
  /\ back' = [target |-> target, scalar |-> scalar]
  /\ UNCHANGED <<scalar, kicks, kicked, lived>>

MutantWanted(f) == f

(* What frame f leaves behind is what the next one began with.              *)
Wanted(f) == f + 1

(* hk_go_kick of a replayed frame.  The frame that a rollback is served     *)
(* before has no entry yet: then the live value moves on by one.            *)
KickReplay ==
  /\ scalar' = IF Wanted(at) \in DOMAIN kicks THEN kicks[Wanted(at)] ELSE scalar + 1
  /\ UNCHANGED <<kicks, kicked, lived, back>>
=============================================================================
