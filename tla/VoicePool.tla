----------------------------- MODULE VoicePool -----------------------------
(***************************************************************************)
(* voice_pool.cpp: a voice the game destroys is stopped and kept for        *)
(* FLUSH_DELAY frames, since a rollback may bring back a pointer to it; a   *)
(* rollback starts the wait of every kept voice again.  The pool's clock is *)
(* the frame of the last on_frame, also during a replay.                    *)
(*                                                                         *)
(* The flush is paused exactly while frames are replayed (RollbackPhases    *)
(* has the returns of do_rollback that leave it paused).                    *)
(***************************************************************************)
EXTENDS FrameClock, Sequences, FiniteSets

CONSTANTS
  Fields,      \* pointers to voices in the game's memory
  PoolMax,     \* MAX_RETAINED
  FlushDelay,  \* FLUSH_DELAY
  VoiceSlots,  \* frames the arena's ring holds
  MaxVoices    \* bound of the model: voices ever created

ASSUME VoiceAssumption ==
  /\ IsFiniteSet(Fields) /\ {PoolMax, FlushDelay, VoiceSlots, MaxVoices} \subseteq Nat
  /\ FlushDelay > MaxDepth /\ VoiceSlots > MaxDepth /\ PoolMax > 0

VARIABLES
  field,     \* per pointer: the voice, or NoVoice
  created,   \* voices created so far
  pool,      \* g_pool, the oldest first
  clock,     \* g_current_frame
  gone,      \* voices really destroyed
  images,    \* per saved frame: the pointers
  excused    \* ghost: voices brought back while kept, or pushed out of a full pool

voiceVars == <<field, created, pool, clock, gone, images, excused>>

NoVoice == 0
Kept    == {pool[i].voice : i \in DOMAIN pool}

VoiceInit ==
  /\ field = [p \in Fields |-> NoVoice] /\ created = 0
  /\ pool = <<>> /\ clock = 0 /\ gone = {} /\ images = <<>> /\ excused = {}

----------------------------------------------------------------------------
(* The game.                                                                *)

Create(p) ==
  /\ field[p] = NoVoice /\ created < MaxVoices
  /\ created' = created + 1
  /\ field' = [field EXCEPT ![p] = created + 1]
  /\ UNCHANGED <<pool, clock, gone, images, excused>>

(* defer_destroy_voice: a full pool destroys its oldest voice at once.      *)
Deferred(v) ==
  IF Len(pool) < PoolMax
  THEN pool' = Append(pool, [voice |-> v, stamp |-> clock]) /\ UNCHANGED <<gone, excused>>
  ELSE /\ pool' = Append(Tail(pool), [voice |-> v, stamp |-> clock])
       /\ gone' = gone \cup {Head(pool).voice}
       /\ excused' = excused \cup {Head(pool).voice}

(* defer_and_null, and the engine's own destroy with the engine off.        *)
Destroy(p) ==
  /\ field[p] # NoVoice
  /\ field' = [field EXCEPT ![p] = NoVoice]
  /\ IF on THEN Deferred(field[p])
     ELSE gone' = gone \cup {field[p]} /\ UNCHANGED <<pool, excused>>
  /\ UNCHANGED <<created, clock, images>>

VoiceGame == \E p \in Fields : Create(p) \/ Destroy(p)

----------------------------------------------------------------------------
(* The frame driver.                                                        *)

MutantRipe(e) == frame - e.stamp >= FlushDelay - MaxDepth

Ripe(e) == frame - e.stamp > FlushDelay

(* The save of the frame and, after it, on_frame.  The pool is in the order *)
(* of its stamps (TypeOK), so the entries it drops are the first ones.      *)
VoiceFrame ==
  /\ clock' = frame
  /\ \E n \in 0..Len(pool) :
       /\ \A i \in DOMAIN pool : Ripe(pool[i]) <=> i <= n
       /\ pool' = SubSeq(pool, n + 1, Len(pool))
       /\ gone' = gone \cup {pool[i].voice : i \in 1..n}
  /\ images' = [f \in {g \in DOMAIN images : g > frame - VoiceSlots} \cup {frame} |->
                  IF f = frame THEN field ELSE images[f]]
  /\ UNCHANGED <<field, created, excused>>

(* The load of a rollback.                                                  *)
VoiceRollback(target) ==
  /\ target \in DOMAIN images
  /\ field' = images[target]
  /\ excused' = excused \cup ({field'[p] : p \in Fields} \cap Kept)
  /\ UNCHANGED <<created, pool, clock, gone, images>>

(* on_rollback, once the replay is over.                                    *)
VoiceResume ==
  /\ pool' = [i \in DOMAIN pool |-> [pool[i] EXCEPT !.stamp = clock]]
  /\ UNCHANGED <<field, created, clock, gone, images, excused>>

VoiceArm == images' = <<>> /\ UNCHANGED <<field, created, pool, clock, gone, excused>>

(* flush_all                                                                *)
VoiceDisarm ==
  /\ gone' = gone \cup Kept /\ pool' = <<>> /\ images' = <<>>
  /\ UNCHANGED <<field, created, clock, excused>>
=============================================================================
