-------------------------- MODULE RollbackPhases --------------------------
(***************************************************************************)
(* do_rollback of resim.cpp as the sequence of its phases, with every early *)
(* return, and suspend.cpp, which stops the other threads around the load.  *)
(*                                                                          *)
(* The main thread is the program counter pc.  The game's worker threads    *)
(* hold an allocator's critical section while they splice a free list and   *)
(* the log's while they write a line; the window thread draws while the     *)
(* focus flags of the window manager are set.  They stop where SuspendThread*)
(* finds them, one thread after the other, and the rest run meanwhile.      *)
(*                                                                          *)
(* What a load does to memory is in ArenaSnapshot, and the fold it drains   *)
(* first in DeferredFold; here a load matters for the moment it happens at. *)
(***************************************************************************)
EXTENDS Integers, FiniteSets

CONSTANTS
  Workers,    \* threads of the game other than the main and the window thread
  Window,     \* the window thread, the one of wmgr+0x2a98
  MaxDepth,   \* MAX_ROLLBACK_DEPTH
  MaxStops    \* bound of the model: suspensions of the window thread at once

ASSUME ThreadsAssumption == IsFiniteSet(Workers) /\ Window \notin Workers
ASSUME PhasesAssumption == {MaxDepth, MaxStops} \subseteq Nat \ {0}

VARIABLES
  pc,            \* the phase of do_rollback, or "idle"
  left,          \* frames still to be replayed
  freezing,      \* the freeze under way or next: the one to load, or to repair
  local,         \* do_rollback's saved_cap, entry_wm, saved_wm, held_wth
  focus,         \* wmgr+0x38 and +0x2985
  active,        \* whether the game's window is the active one, as its WndProc was told
  capped,        \* sMain+0x7C, the frame cap
  flushPaused,   \* voice_pool's g_flush_paused
  renderBlock,   \* g_rollback_render_block
  resimActive,   \* g_resim_active
  suppressed,    \* rblog's g_suppressed
  logLocked,     \* whether freeze holds the log's critical section
  worker,        \* what each worker is doing
  drawing,       \* whether the window thread is past its Sleep
  windowStops,   \* suspensions of the window thread through its own handle
  suspended,     \* g_suspended: the threads a freeze has stopped
  held,          \* g_held: those a thaw has left stopped
  host,          \* what runs the window: a thread freeze may open, or not, or main
  deferred,      \* ghost: whether a rollback has been deferred so far
  told           \* ghost: what the WndProc last wrote outside of a rollback

machine == <<focus, active, capped, flushPaused, renderBlock, resimActive, suppressed>>
threads == <<worker, drawing, windowStops, suspended, held>>
ghosts  == <<deferred, told>>
vars == <<pc, left, freezing, local, machine, logLocked, threads, host, ghosts>>

Threads  == Workers \cup (IF host # "main" THEN {Window} ELSE {})
Stopped  == suspended \cup held \cup (IF windowStops > 0 THEN {Window} ELSE {})
Splicing == {w \in Workers : worker[w] = "splicing"}
Logging  == {w \in Workers : worker[w] = "logging"}
NoLocal  == [cap |-> TRUE, entry |-> TRUE, saved |-> TRUE, hold |-> FALSE]

----------------------------------------------------------------------------
Init ==
  /\ pc = "idle" /\ left = 0 /\ freezing = "load" /\ local = NoLocal
  /\ focus = TRUE /\ active = TRUE /\ capped = TRUE
  /\ flushPaused = FALSE /\ renderBlock = FALSE /\ resimActive = FALSE
  /\ suppressed = FALSE /\ logLocked = FALSE
  /\ worker = [w \in Workers |-> "idle"] /\ drawing = FALSE
  /\ windowStops = 0 /\ suspended = {} /\ held = {}
  /\ host \in {"open", "closed", "main"} /\ deferred = FALSE /\ told = TRUE

(* The other threads.  A worker enters the log only while nobody is in it.  *)
Enter(w, section) ==
  /\ w \notin Stopped /\ worker[w] = "idle"
  /\ section = "logging" => Logging = {} /\ ~logLocked /\ ~suppressed
  /\ worker' = [worker EXCEPT ![w] = section]
  /\ UNCHANGED <<pc, left, freezing, local, machine, logLocked,
                 drawing, windowStops, suspended, held, host, ghosts>>

Leave(w) ==
  /\ w \notin Stopped /\ worker[w] # "idle"
  /\ worker' = [worker EXCEPT ![w] = "idle"]
  /\ UNCHANGED <<pc, left, freezing, local, machine, logLocked,
                 drawing, windowStops, suspended, held, host, ghosts>>

(* An iteration of the window loop: gated on the flags at its start only.   *)
Draw ==
  /\ host # "main" /\ Window \notin Stopped
  /\ focus \/ drawing
  /\ drawing' = ~drawing
  /\ UNCHANGED <<pc, left, freezing, local, machine, logLocked,
                 worker, windowStops, suspended, held, host, ghosts>>

(* The player leaves the window or comes back: the engine's WndProc, which  *)
(* its thread runs whenever that is not stopped, in the waits of a rollback *)
(* and in all of one that could not hold it.  A switch while it is stopped  *)
(* is a message that waits, and is the same as one made right afterwards.   *)
Activate ==
  /\ IF host = "main" THEN pc = "idle" ELSE Window \notin Stopped
  /\ active' = ~active /\ focus' = ~active
  /\ told' = IF pc = "idle" THEN ~active ELSE told
  /\ UNCHANGED <<pc, left, freezing, local, capped, flushPaused, renderBlock, resimActive,
                 suppressed, logLocked, threads, host, deferred>>

----------------------------------------------------------------------------
(* do_rollback up to the first freeze.                                      *)

(* Entry: the fold is drained, the voices' flush is paused, the cap is off. *)
Begin ==
  /\ pc = "idle" /\ windowStops < MaxStops
  /\ host # "main" \/ focus          \* the main loop itself sleeps without focus
  /\ \E depth \in 1..MaxDepth : left' = depth
  /\ local' = [NoLocal EXCEPT !.cap = capped, !.entry = focus]
  /\ flushPaused' = TRUE /\ capped' = FALSE
  /\ pc' = "quiesce"
  /\ UNCHANGED <<freezing, focus, active, renderBlock, resimActive, suppressed,
                 logLocked, threads, host, ghosts>>

(* The window's deactivated state is entered; the wait that follows has a   *)
(* bound of 500 ms and goes on whether or not the iteration has ended.      *)
Quiesce ==
  /\ pc = "quiesce"
  /\ renderBlock' = TRUE /\ focus' = FALSE
  /\ local' = [local EXCEPT !.saved = focus]
  /\ pc' = "hold"
  /\ UNCHANGED <<left, freezing, active, capped, flushPaused, resimActive, suppressed,
                 logLocked, threads, host, ghosts>>

(* WT-HOLD: the thread is kept stopped when it is found in its Sleep;       *)
(* 200 tries that find it elsewhere give up.                                *)
HoldWindow ==
  /\ pc = "hold"
  /\ \/ /\ host # "main" /\ ~drawing
        /\ windowStops' = windowStops + 1
        /\ local' = [local EXCEPT !.hold = TRUE]
     \/ UNCHANGED <<windowStops, local>>
  /\ pc' = "gate"
  /\ UNCHANGED <<left, freezing, machine, logLocked, worker, drawing, suspended, held,
                 host, ghosts>>

(* resim_gate::wait_until_safe found every free list whole.                 *)
GatePassed ==
  /\ pc = "gate" /\ Splicing = {}
  /\ suppressed' = TRUE
  /\ pc' = "lock"
  /\ UNCHANGED <<left, freezing, local, focus, active, capped, flushPaused, renderBlock,
                 resimActive, logLocked, threads, host, ghosts>>

MutantNoBudget ==
  /\ pc = "gate" /\ Splicing # {}
  /\ UNCHANGED vars

(* Its 2 ms are over and a worker is still inside: the rollback is given up.*)
GateTimedOut ==
  /\ pc = "gate" /\ Splicing # {}
  /\ deferred' = TRUE
  /\ pc' = "idle"
  /\ UNCHANGED <<left, freezing, local, machine, logLocked, threads, host, told>>

----------------------------------------------------------------------------
(* suspend::freeze, for the load and again for the repair.                  *)

(* The log's critical section is taken, so that no thread stops inside it.  *)
LockLog ==
  /\ pc = "lock" /\ Logging = {}
  /\ logLocked' = TRUE
  /\ pc' = "suspend"
  /\ UNCHANGED <<left, freezing, local, machine, threads, host, ghosts>>

Reachable == IF host = "open" THEN Threads ELSE Workers

Suspend(t) ==
  /\ pc = "suspend" /\ t \in Reachable \ suspended
  /\ suspended' = suspended \cup {t}
  /\ UNCHANGED <<pc, left, freezing, local, machine, logLocked, worker, drawing,
                 windowStops, held, host, ghosts>>

(* Everyone is stopped: the log is let go and freeze writes its own lines   *)
(* through the suppression, which waits for whoever holds the log.          *)
Frozen ==
  /\ pc = "suspend" /\ Reachable \subseteq suspended
  /\ Logging = {}
  /\ logLocked' = FALSE /\ suppressed' = TRUE
  /\ pc' = "recheck"
  /\ UNCHANGED <<left, freezing, local, focus, active, capped, flushPaused, renderBlock,
                 resimActive, threads, host, ghosts>>

MutantStillSuppressed ==
  /\ suspended' = {} /\ held' = {}
  /\ UNCHANGED suppressed

(* thaw, which leaves the window thread down, then resume_held.             *)
ThawAll ==
  /\ suspended' = {} /\ held' = {}
  /\ suppressed' = FALSE

(* precond_no_alloc_cs_held, read again: a worker was stopped in a splice.  *)
CaughtSplicing ==
  /\ pc = "recheck" /\ Splicing # {}
  /\ ThawAll
  /\ IF freezing = "load"
     THEN pc' = "idle" /\ deferred' = TRUE
     ELSE pc' = "finish" /\ UNCHANGED deferred
  /\ UNCHANGED <<left, freezing, local, focus, active, capped, flushPaused, renderBlock,
                 resimActive, logLocked, worker, drawing, windowStops, host, told>>

MutantNoRecheck ==
  /\ pc = "recheck"
  /\ pc' = freezing
  /\ UNCHANGED <<left, freezing, local, machine, logLocked, threads, host, ghosts>>

CaughtNobody ==
  /\ pc = "recheck" /\ Splicing = {}
  /\ pc' = freezing
  /\ UNCHANGED <<left, freezing, local, machine, logLocked, threads, host, ghosts>>

----------------------------------------------------------------------------
(* The load, the replay and the way back.                                   *)

(* arena::load, which may bring back the flags of the target frame.         *)
Load ==
  /\ pc = "load"
  /\ focus' \in BOOLEAN
  /\ pc' = "thaw"
  /\ UNCHANGED <<left, freezing, local, active, capped, flushPaused, renderBlock, resimActive,
                 suppressed, logLocked, threads, host, ghosts>>

MutantThawEveryone ==
  /\ pc = "thaw"
  /\ suspended' = {} /\ held' = {}
  /\ suppressed' = FALSE /\ resimActive' = TRUE
  /\ pc' = "replay"
  /\ UNCHANGED <<left, freezing, local, focus, active, capped, flushPaused, renderBlock,
                 logLocked, worker, drawing, windowStops, host, ghosts>>

(* suspend::thaw: the workers run again, the window thread stays down.      *)
Thaw ==
  /\ pc = "thaw"
  /\ suspended' = {} /\ held' = suspended \cap {Window}
  /\ suppressed' = FALSE /\ resimActive' = TRUE
  /\ pc' = "replay"
  /\ UNCHANGED <<left, freezing, local, focus, active, capped, flushPaused, renderBlock,
                 logLocked, worker, drawing, windowStops, host, ghosts>>

(* One frame is run again; only the last one builds its picture.            *)
ReplayFrame ==
  /\ pc = "replay" /\ left > 0
  /\ renderBlock' = (left > 1)
  /\ left' = left - 1
  /\ UNCHANGED <<pc, freezing, local, focus, active, capped, flushPaused, resimActive,
                 suppressed, logLocked, threads, host, ghosts>>

MutantResumeUnheld ==
  /\ pc = "replay" /\ left = 0
  /\ held' = {}
  /\ windowStops' = windowStops - 1
  /\ renderBlock' = FALSE /\ resimActive' = FALSE
  /\ focus' = local.saved
  /\ pc' \in {"gate2", "finish"}
  /\ UNCHANGED <<left, freezing, local, active, capped, flushPaused, suppressed,
                 logLocked, worker, drawing, suspended, host, ghosts>>

(* resume_held, the window's handle, the flags; the second freeze follows   *)
(* when a repair or a check is switched on.                                 *)
ReplayDone ==
  /\ pc = "replay" /\ left = 0
  /\ held' = {}
  /\ windowStops' = IF local.hold THEN windowStops - 1 ELSE windowStops
  /\ renderBlock' = FALSE /\ resimActive' = FALSE
  /\ focus' = local.saved
  /\ pc' \in {"gate2", "finish"}
  /\ UNCHANGED <<left, freezing, local, active, capped, flushPaused, suppressed,
                 logLocked, worker, drawing, suspended, host, ghosts>>

(* The gate of the second freeze: with a worker inside past the budget the  *)
(* repair is skipped.                                                       *)
RepairGate ==
  /\ pc = "gate2"
  /\ IF Splicing = {} THEN freezing' = "repair" /\ pc' = "lock"
                      ELSE pc' = "finish" /\ UNCHANGED freezing
  /\ UNCHANGED <<left, local, machine, logLocked, threads, host, ghosts>>

Repair ==
  /\ pc = "repair"
  /\ ThawAll
  /\ pc' = "finish"
  /\ UNCHANGED <<left, freezing, local, focus, active, capped, flushPaused, renderBlock,
                 resimActive, logLocked, worker, drawing, windowStops, host, ghosts>>

(* The voices, the cap and, whatever became of them, the focus flags.       *)
Finish ==
  /\ pc = "finish"
  /\ flushPaused' = FALSE /\ capped' = local.cap /\ focus' = local.entry
  /\ freezing' = "load" /\ local' = NoLocal
  /\ pc' = "idle"
  /\ UNCHANGED <<left, active, renderBlock, resimActive, suppressed, logLocked, threads,
                 host, ghosts>>

Rollback ==
  \/ Quiesce \/ HoldWindow \/ GatePassed \/ GateTimedOut
  \/ LockLog \/ (\E t \in Threads : Suspend(t)) \/ Frozen
  \/ CaughtSplicing \/ CaughtNobody
  \/ Load \/ Thaw \/ ReplayFrame \/ ReplayDone
  \/ RepairGate \/ Repair \/ Finish

Next ==
  \/ Begin \/ Rollback
  \/ \E w \in Workers : Enter(w, "splicing") \/ Enter(w, "logging") \/ Leave(w)
  \/ Draw \/ Activate

(* The main thread goes on when it can, a worker leaves what it has entered *)
(* while it is not stopped, and a thread that waits for the log gets it in  *)
(* the end: the workers write to it now and then only.                      *)
Fairness ==
  /\ WF_vars(Rollback) /\ SF_vars(LockLog)
  /\ \A w \in Workers : WF_vars(Leave(w))

Spec == Init /\ [][Next]_vars /\ Fairness

----------------------------------------------------------------------------
(* Type correctness of the rollback's state.                                *)
TypeOK ==
  /\ pc \in {"idle", "quiesce", "hold", "gate", "lock", "suspend", "recheck", "load", "thaw",
             "replay", "gate2", "repair", "finish"}
  /\ left \in 0..MaxDepth /\ freezing \in {"load", "repair"}
  /\ local \in [cap : BOOLEAN, entry : BOOLEAN, saved : BOOLEAN, hold : BOOLEAN]
  /\ {focus, active, capped, flushPaused, renderBlock, resimActive, suppressed, logLocked,
      drawing, deferred, told} \subseteq BOOLEAN
  /\ host \in {"open", "closed", "main"}
  /\ worker \in [Workers -> {"idle", "splicing", "logging"}]
  /\ windowStops \in 0..MaxStops
  /\ suspended \subseteq Threads /\ held \subseteq Threads

(* Memory is loaded, and lists are repaired, only while every worker is     *)
(* stopped and none was stopped inside an allocator's critical section: the *)
(* gate alone cannot give this, because threads stop one after the other    *)
(* (the recheck after each freeze in do_rollback).                          *)
NothingTorn ==
  pc \in {"load", "thaw", "repair"} => Workers \subseteq suspended /\ Splicing = {}

(* From the load to the end of the replay the window thread does not move,  *)
(* if it could be held in its Sleep or freeze could open it, although the   *)
(* load may have brought its flags back (thaw, suspend.cpp).                *)
WindowStaysDown ==
  [][(host = "open" \/ local.hold) /\ pc \in {"load", "thaw", "replay"} => drawing' = drawing]_vars

(* Between rollbacks: what every one of them leaves in order, and what one  *)
(* that was not deferred does besides.                                      *)
EveryoneRuns == ~resimActive /\ ~suppressed /\ ~logLocked /\ suspended = {} /\ held = {}
InPlace      == capped /\ ~flushPaused /\ ~renderBlock /\ windowStops = 0 /\ focus = told

(* However a rollback ends, deferred ones included, the log is free and no  *)
(* thread is left stopped by a freeze.  As long as none has been deferred,  *)
(* it has also put back the cap, the voices' flush, the drawing, the window *)
(* thread's own stop, and the focus flags as it found them: what the WndProc*)
(* last wrote outside of a rollback, whatever the load brought back.  That  *)
(* is not always what the player did last: a switch during the rollback is  *)
(* overwritten at its exit (do_rollback, "WMGR FLAG PRESERVE").             *)
CompletePutsBack == pc = "idle" => EveryoneRuns /\ (~deferred => InPlace)

(* The main thread always comes out of a rollback: it never waits for a log *)
(* that a thread it has stopped holds (the lock around freeze's loop).      *)
RollbackEnds == pc # "idle" ~> pc = "idle"
=============================================================================
