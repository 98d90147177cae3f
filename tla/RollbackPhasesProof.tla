------------------------ MODULE RollbackPhasesProof ------------------------
(***************************************************************************)
(* Proofs about RollbackPhases, for any set of worker threads, any replay   *)
(* depth and any bound: type correctness, that nothing is loaded or         *)
(* repaired over a half-spliced list, what a rollback puts back, and that   *)
(* the window thread stays down while one runs.                             *)
(***************************************************************************)
EXTENDS RollbackPhases, TLAPS

BeforeReturn == {"gate", "lock", "suspend", "recheck", "load", "thaw", "replay"}

(* Which freeze is under way: the first one up to the end of the replay.    *)
WhichFreeze ==
  /\ pc \notin {"lock", "suspend", "recheck", "repair", "finish"} => freezing = "load"
  /\ pc = "repair" => freezing = "repair"

(* The handle of the window thread: a stop that do_rollback still owes.     *)
StopsOwed ==
  /\ pc \in {"quiesce", "hold"} => ~local.hold /\ windowStops < MaxStops
  /\ pc \in BeforeReturn /\ freezing = "load" /\ local.hold => windowStops > 0

(* Typing carries over with what it needs to know of the window's handle.   *)
TypeInv == TypeOK /\ WhichFreeze /\ StopsOwed

(* From the end of freeze's loop every worker is stopped, and from the      *)
(* recheck on none of them is inside an allocator's section.                *)
StoppedWhole ==
  /\ pc \in {"recheck", "load", "thaw", "repair"} => Workers \subseteq suspended
  /\ pc \in {"load", "thaw", "repair"} => Splicing = {}

USE ThreadsAssumption, PhasesAssumption

----------------------------------------------------------------------------
(* do_rollback's local variables, as TypeOK types them.                     *)
Locals == [cap : BOOLEAN, entry : BOOLEAN, saved : BOOLEAN, hold : BOOLEAN]

LEMMA InitTyped == Init => TypeInv
<1> SUFFICES ASSUME Init PROVE TypeInv
  OBVIOUS
<1>1. local \in Locals
  BY Zenon DEF Init, NoLocal, Locals
<1>2. {focus, active, capped, flushPaused, renderBlock, resimActive, suppressed, logLocked,
       drawing, deferred, told} \subseteq BOOLEAN
  BY Zenon DEF Init
<1>3. worker \in [Workers -> {"idle", "splicing", "logging"}]
  BY DEF Init
<1>4. WhichFreeze /\ StopsOwed
  BY DEF Init, WhichFreeze, StopsOwed, BeforeReturn
<1> QED
  BY <1>1, <1>2, <1>3, <1>4 DEF Init, TypeInv, TypeOK, Threads, Locals

(* Begin, HoldWindow and ReplayDone compute a local or the counter of       *)
(* stops; every other step copies typed values.                             *)
LEMMA StepTyped == TypeInv /\ [Next]_vars => TypeInv'
<1> SUFFICES ASSUME TypeInv, [Next]_vars PROVE TypeInv'
  OBVIOUS
<1> USE DEF TypeInv, TypeOK, WhichFreeze, StopsOwed, BeforeReturn, NoLocal, Threads,
            machine, threads, ghosts
<1>1. CASE Begin
  <2>1. local' = [cap |-> capped, entry |-> focus, saved |-> TRUE, hold |-> FALSE]
    BY <1>1 DEF Begin
  <2>2. capped \in BOOLEAN /\ focus \in BOOLEAN /\ FALSE \in BOOLEAN /\ TRUE \in BOOLEAN
    BY Zenon
  <2>3. local' \in Locals
    BY <2>1, <2>2, Zenon DEF Locals
  <2>4. {focus, active, capped, flushPaused, renderBlock, resimActive, suppressed, logLocked,
         drawing, deferred, told}' \subseteq BOOLEAN
    BY <1>1, <2>2, Zenon DEF Begin
  <2>5. ~local'.hold
    BY <2>1, Zenon
  <2> QED
    BY <1>1, <2>3, <2>4, <2>5 DEF Begin, Locals
<1>2. CASE Quiesce
  <2>1. local' = [local EXCEPT !.saved = focus] /\ focus \in BOOLEAN
    BY <1>2, Zenon DEF Quiesce
  <2>2. local' \in Locals /\ local'.hold = local.hold
    BY <2>1, Zenon DEF Locals
  <2> QED
    BY <1>2, <2>2 DEF Quiesce, Locals
<1>3. CASE HoldWindow
  <2>1. CASE UNCHANGED <<windowStops, local>>
    BY <1>3, <2>1 DEF HoldWindow
  <2>2. CASE windowStops' = windowStops + 1 /\ local' = [local EXCEPT !.hold = TRUE]
    <3>1. local' \in Locals
      BY <2>2, Zenon DEF Locals
    <3>2. windowStops' \in 0..MaxStops /\ windowStops' > 0
      BY <1>3, <2>2 DEF HoldWindow
    <3> QED
      BY <1>3, <3>1, <3>2 DEF HoldWindow, Locals
  <2> QED
    BY <1>3, <2>1, <2>2 DEF HoldWindow
<1>4. CASE GatePassed   BY <1>4 DEF GatePassed
<1>5. CASE GateTimedOut BY <1>5 DEF GateTimedOut
<1>6. CASE LockLog      BY <1>6 DEF LockLog
<1>7. ASSUME NEW t \in Threads, Suspend(t) PROVE TypeInv'
  BY <1>7 DEF Suspend
<1>8. CASE Frozen         BY <1>8 DEF Frozen
<1>9. CASE CaughtSplicing BY <1>9 DEF CaughtSplicing, ThawAll
<1>10. CASE CaughtNobody  BY <1>10 DEF CaughtNobody
<1>11. CASE Load          BY <1>11 DEF Load
<1>12. CASE Thaw          BY <1>12 DEF Thaw
<1>13. CASE ReplayFrame   BY <1>13 DEF ReplayFrame
<1>14. CASE ReplayDone
  <2>1. windowStops' \in 0..MaxStops
    BY <1>14 DEF ReplayDone
  <2>2. {focus, active, capped, flushPaused, renderBlock, resimActive, suppressed, logLocked,
         drawing, deferred, told}' \subseteq BOOLEAN
    <3>1. local.saved \in BOOLEAN
      BY Zenon
    <3> QED
      BY <1>14, <3>1, Zenon DEF ReplayDone
  <2>3. (WhichFreeze /\ StopsOwed)'
    BY <1>14 DEF ReplayDone
  <2> QED
    BY <1>14, <2>1, <2>2, <2>3 DEF ReplayDone
<1>15. CASE RepairGate    BY <1>15 DEF RepairGate
<1>16. CASE Repair        BY <1>16 DEF Repair, ThawAll
<1>17. CASE Finish        BY <1>17 DEF Finish
<1>18. ASSUME NEW w \in Workers, Enter(w, "splicing") \/ Enter(w, "logging") \/ Leave(w)
       PROVE  TypeInv'
  BY <1>18 DEF Enter, Leave
<1>19. CASE Draw     BY <1>19 DEF Draw
<1>20. CASE Activate
  <2>1. {focus, active, capped, flushPaused, renderBlock, resimActive, suppressed, logLocked,
         drawing, deferred, told}' \subseteq BOOLEAN
    BY <1>20, Zenon DEF Activate
  <2> QED
    BY <1>20, <2>1 DEF Activate
<1>21. CASE UNCHANGED vars BY <1>21 DEF vars
<1> QED
  BY <1>1, <1>2, <1>3, <1>4, <1>5, <1>6, <1>7, <1>8, <1>9, <1>10, <1>11, <1>12, <1>13,
     <1>14, <1>15, <1>16, <1>17, <1>18, <1>19, <1>20, <1>21 DEF Next, Rollback

(* THEOREM.  Every variable of a rollback keeps its type; in particular the *)
(* window thread is resumed no more often than it was stopped               *)
(* (suspend.cpp and WT-HOLD of do_rollback).                                *)
THEOREM TypeCorrect == Spec => []TypeOK
<1>1. TypeInv => TypeOK
  BY DEF TypeInv
<1> QED
  BY <1>1, InitTyped, StepTyped, PTL DEF Spec

----------------------------------------------------------------------------
LEMMA InitStopped == Init => StoppedWhole
  BY DEF Init, StoppedWhole

LEMMA StepStopped == TypeInv /\ StoppedWhole /\ [Next]_vars => StoppedWhole'
<1> SUFFICES ASSUME TypeInv, StoppedWhole, [Next]_vars PROVE StoppedWhole'
  OBVIOUS
<1> USE DEF StoppedWhole, Splicing, machine, threads, ghosts
(* The steps that lead into the phases of the invariant.                    *)
<1>1. CASE Frozen       BY <1>1 DEF Frozen, Reachable, Threads
<1>2. CASE CaughtNobody BY <1>2 DEF CaughtNobody, TypeInv, TypeOK
<1>3. CASE Load         BY <1>3 DEF Load
(* Those that lead out of them, or are taken in other phases.               *)
<1>4. CASE CaughtSplicing BY <1>4 DEF CaughtSplicing
<1>5. CASE Thaw           BY <1>5 DEF Thaw
<1>6. CASE Repair         BY <1>6 DEF Repair
<1>7. CASE Begin \/ Quiesce \/ HoldWindow \/ GatePassed \/ GateTimedOut
  BY <1>7 DEF Begin, Quiesce, HoldWindow, GatePassed, GateTimedOut
<1>8. CASE LockLog \/ \E t \in Threads : Suspend(t)
  BY <1>8 DEF LockLog, Suspend
<1>9. CASE ReplayFrame \/ ReplayDone \/ RepairGate \/ Finish
  BY <1>9 DEF ReplayFrame, ReplayDone, RepairGate, Finish
(* The other threads: a stopped worker does nothing.                        *)
<1>10. ASSUME NEW w \in Workers, Enter(w, "splicing") \/ Enter(w, "logging") \/ Leave(w)
       PROVE  StoppedWhole'
  <2>1. pc \notin {"recheck", "load", "thaw", "repair"}
    BY <1>10 DEF Enter, Leave, Stopped
  <2> QED
    BY <1>10, <2>1 DEF Enter, Leave
<1>11. CASE Draw \/ Activate BY <1>11 DEF Draw, Activate
<1>12. CASE UNCHANGED vars    BY <1>12 DEF vars
<1> QED
  BY <1>1, <1>2, <1>3, <1>4, <1>5, <1>6, <1>7, <1>8, <1>9, <1>10, <1>11, <1>12
  DEF Next, Rollback

(* THEOREM.  Whatever the workers do between the gate and the last of them  *)
(* being stopped, no memory is loaded and no list repaired while one of     *)
(* them is inside an allocator's critical section (the recheck after each   *)
(* freeze in do_rollback).                                                  *)
THEOREM NeverTorn == Spec => []NothingTorn
<1>1. StoppedWhole => NothingTorn
  BY DEF StoppedWhole, NothingTorn
<1> QED
  BY <1>1, InitTyped, StepTyped, InitStopped, StepStopped, PTL DEF Spec
----------------------------------------------------------------------------
(* What a rollback has out of place, phase by phase.  The threads a freeze   *)
(* has stopped, the log and the switches of the load come back however it    *)
(* ends.                                                                     *)
ThreadsKept ==
  /\ pc \notin {"suspend", "recheck", "load", "thaw", "repair"} => suspended = {}
  /\ pc # "replay" => held = {}

SwitchesKept ==
  /\ logLocked => pc = "suspend"
  /\ resimActive => pc = "replay"
  /\ suppressed => pc \in {"lock", "suspend", "recheck", "load", "thaw", "repair"}

(* What comes back with the end that no deferral cuts off: the focus as the  *)
(* WndProc left it outside of a rollback, the cap, the picture, and the stop *)
(* of the window thread, each with the variable that will bring it back.     *)
EntryKept ==
  /\ pc = "idle" => focus = told /\ capped /\ ~flushPaused
  /\ pc # "idle" => local.cap /\ local.entry = told
  /\ pc \in {"gate2", "finish", "repair"} \/ freezing = "repair" => ~renderBlock
  /\ pc = "idle" => ~renderBlock

WindowKept ==
  /\ windowStops > 0 => pc \in BeforeReturn /\ freezing = "load" /\ local.hold
  /\ windowStops < 2

OutOfPlace == ThreadsKept /\ SwitchesKept /\ (~deferred => EntryKept /\ WindowKept)

LEMMA InitInPlace == Init => OutOfPlace
  BY DEF Init, OutOfPlace, EntryKept, WindowKept, ThreadsKept, SwitchesKept, NoLocal

(* A freeze stops threads, its thaw lets all but the window thread go, and   *)
(* either the end of the replay or the other thaw lets that one go too.      *)
LEMMA StepReleases ==
  TypeInv /\ OutOfPlace /\ [Next]_vars => ThreadsKept' /\ SwitchesKept'
<1> SUFFICES ASSUME TypeInv, ThreadsKept, SwitchesKept, [Next]_vars
             PROVE  ThreadsKept' /\ SwitchesKept'
  BY DEF OutOfPlace
<1>0. freezing \in {"load", "repair"}
  BY DEF TypeInv, TypeOK
<1> USE DEF ThreadsKept, SwitchesKept, machine, threads, ghosts
<1>1. CASE Begin \/ Quiesce \/ HoldWindow \/ GatePassed \/ GateTimedOut
  BY <1>1 DEF Begin, Quiesce, HoldWindow, GatePassed, GateTimedOut
<1>2. CASE LockLog \/ \E t \in Threads : Suspend(t)
  BY <1>2 DEF LockLog, Suspend
<1>3. CASE Frozen         BY <1>3 DEF Frozen
<1>4. CASE CaughtSplicing BY <1>4 DEF CaughtSplicing, ThawAll
<1>5. CASE CaughtNobody   BY <1>0, <1>5 DEF CaughtNobody
<1>6. CASE Load \/ Thaw \/ ReplayFrame
  BY <1>6 DEF Load, Thaw, ReplayFrame
<1>7. CASE ReplayDone \/ RepairGate
  BY <1>7 DEF ReplayDone, RepairGate
<1>8. CASE Repair \/ Finish
  BY <1>8 DEF Repair, ThawAll, Finish
<1>9. ASSUME NEW w \in Workers, Enter(w, "splicing") \/ Enter(w, "logging") \/ Leave(w)
      PROVE  ThreadsKept' /\ SwitchesKept'
  BY <1>9 DEF Enter, Leave
<1>10. CASE Draw \/ Activate BY <1>10 DEF Draw, Activate
<1>11. CASE UNCHANGED vars   BY <1>11 DEF vars
<1> QED
  BY <1>1, <1>2, <1>3, <1>4, <1>5, <1>6, <1>7, <1>8, <1>9, <1>10, <1>11 DEF Next, Rollback

LEMMA StepInPlace == TypeInv /\ OutOfPlace /\ [Next]_vars => OutOfPlace'
<1> SUFFICES ASSUME TypeInv, OutOfPlace, [Next]_vars, ~deferred'
             PROVE  EntryKept' /\ WindowKept'
  BY StepReleases DEF OutOfPlace
<1>0. freezing \in {"load", "repair"} /\ windowStops \in Nat
  BY DEF TypeInv, TypeOK
<1> USE DEF OutOfPlace, EntryKept, WindowKept, WhichFreeze, BeforeReturn,
            TypeInv, machine, threads, ghosts
<1>1. CASE Begin
  <2>1. local' = [cap |-> capped, entry |-> focus, saved |-> TRUE, hold |-> FALSE]
    BY <1>1 DEF Begin, NoLocal
  <2>2. local'.cap = capped /\ local'.entry = focus
    BY <2>1, Zenon
  <2> QED
    BY <1>1, <2>2 DEF Begin
<1>2. CASE Quiesce
  <2>1. local'.cap = local.cap /\ local'.entry = local.entry /\ local'.hold = local.hold
    BY <1>2, Zenon DEF Quiesce, TypeOK, Locals
  <2> QED
    BY <1>2, <2>1 DEF Quiesce
<1>3. CASE HoldWindow
  <2>1. windowStops = 0 /\ freezing = "load" /\ ~deferred
    BY <1>0, <1>3 DEF HoldWindow
  <2>2. CASE UNCHANGED <<windowStops, local>>
    BY <1>3, <2>1, <2>2 DEF HoldWindow
  <2>3. CASE windowStops' = windowStops + 1 /\ local' = [local EXCEPT !.hold = TRUE]
    <3>1. local'.cap = local.cap /\ local'.entry = local.entry /\ local'.hold
      BY <2>3, Zenon DEF TypeOK, Locals
    <3> QED
      BY <1>3, <2>1, <2>3, <3>1 DEF HoldWindow
  <2> QED
    BY <1>3, <2>2, <2>3 DEF HoldWindow
<1>4. CASE GatePassed   BY <1>4 DEF GatePassed
<1>5. CASE GateTimedOut BY <1>5 DEF GateTimedOut
<1>6. CASE LockLog      BY <1>6 DEF LockLog
<1>7. ASSUME NEW t \in Threads, Suspend(t) PROVE EntryKept' /\ WindowKept'
  BY <1>7 DEF Suspend
<1>8. CASE Frozen         BY <1>8 DEF Frozen
<1>9. CASE CaughtSplicing BY <1>0, <1>9 DEF CaughtSplicing, ThawAll
<1>10. CASE CaughtNobody  BY <1>0, <1>10 DEF CaughtNobody
<1>11. CASE Load          BY <1>11 DEF Load
<1>12. CASE Thaw          BY <1>12 DEF Thaw
<1>13. CASE ReplayFrame   BY <1>13 DEF ReplayFrame
<1>14. CASE ReplayDone
  <2>1. ~deferred /\ freezing = "load"
    BY <1>14 DEF ReplayDone
  <2>2. windowStops' = 0
    BY <1>0, <1>14, <2>1 DEF ReplayDone, StopsOwed
  <2> QED
    BY <1>14, <2>1, <2>2 DEF ReplayDone
<1>15. CASE RepairGate    BY <1>15 DEF RepairGate
<1>16. CASE Repair        BY <1>16 DEF Repair, ThawAll
<1>17. CASE Finish        BY <1>17 DEF Finish
<1>18. ASSUME NEW w \in Workers, Enter(w, "splicing") \/ Enter(w, "logging") \/ Leave(w)
       PROVE  EntryKept' /\ WindowKept'
  BY <1>18 DEF Enter, Leave
<1>19. CASE Draw     BY <1>19 DEF Draw
(* The WndProc writes the flags between rollbacks, where they are the ones   *)
(* the next entry takes, or during one, where they are not looked at again.  *)
<1>20. CASE Activate
  <2>1. CASE pc = "idle"
    <3>1. focus' = told' /\ pc' = pc
      BY <1>20, <2>1, Zenon DEF Activate
    <3> QED
      BY <1>20, <2>1, <3>1 DEF Activate
  <2>2. CASE pc # "idle"
    BY <1>20, <2>2 DEF Activate
  <2> QED
    BY <2>1, <2>2
<1>21. CASE UNCHANGED vars BY <1>21 DEF vars
<1> QED
  BY <1>1, <1>2, <1>3, <1>4, <1>5, <1>6, <1>7, <1>8, <1>9, <1>10, <1>11, <1>12, <1>13,
     <1>14, <1>15, <1>16, <1>17, <1>18, <1>19, <1>20, <1>21 DEF Next, Rollback

(* THEOREM.  However a rollback ends, the log is free and no thread is left  *)
(* stopped by a freeze.  As long as none has been deferred, each one also    *)
(* brings back the cap, the voices, the drawing, the window thread and the   *)
(* focus flags it found at entry, wherever the WndProc or the load wrote     *)
(* them meanwhile, through whichever way the second freeze ended             *)
(* (do_rollback).                                                            *)
THEOREM PutsBack == Spec => []CompletePutsBack
<1>1. TypeInv /\ OutOfPlace => CompletePutsBack
  <2> SUFFICES ASSUME TypeInv, OutOfPlace, pc = "idle"
               PROVE  EveryoneRuns /\ (~deferred => InPlace)
    BY DEF CompletePutsBack
  <2>1. EveryoneRuns
    BY DEF OutOfPlace, ThreadsKept, SwitchesKept, EveryoneRuns
  <2>2. ASSUME ~deferred PROVE InPlace
    <3>1. EntryKept /\ WindowKept
      BY <2>2 DEF OutOfPlace
    <3>2. windowStops = 0
      BY <3>1 DEF WindowKept, BeforeReturn, TypeInv, TypeOK
    <3>3. focus = told /\ capped /\ ~flushPaused /\ ~renderBlock
      BY <3>1, Zenon DEF EntryKept
    <3> QED
      BY <3>2, <3>3 DEF InPlace
  <2> QED
    BY <2>1, <2>2
<1> QED
  BY <1>1, InitTyped, StepTyped, InitInPlace, StepInPlace, PTL DEF Spec
----------------------------------------------------------------------------
(* A window thread that freeze can open is stopped from the end of freeze's *)
(* loop to that of the replay: by the freeze, then by the thaw that leaves  *)
(* it out.                                                                  *)
WindowDown ==
  host = "open" =>
    /\ pc \in {"recheck", "load", "thaw"} => Window \in suspended
    /\ pc = "replay" => Window \in held

LEMMA InitDown == Init => WindowDown
  BY DEF Init, WindowDown

LEMMA StepDown == TypeInv /\ WindowDown /\ [Next]_vars => WindowDown'
<1> SUFFICES ASSUME TypeInv, WindowDown, [Next]_vars PROVE WindowDown'
  OBVIOUS
<1> USE DEF WindowDown, machine, threads, ghosts
<1>1. CASE Frozen       BY <1>1 DEF Frozen, Reachable, Threads
<1>2. CASE CaughtNobody \/ Load BY <1>2 DEF CaughtNobody, Load, TypeInv, TypeOK
<1>3. CASE Thaw         BY <1>3 DEF Thaw
<1>4. CASE CaughtSplicing \/ Repair BY <1>4 DEF CaughtSplicing, Repair
<1>5. CASE Begin \/ Quiesce \/ HoldWindow \/ GatePassed \/ GateTimedOut
  BY <1>5 DEF Begin, Quiesce, HoldWindow, GatePassed, GateTimedOut
<1>6. CASE LockLog \/ \E t \in Threads : Suspend(t)
  BY <1>6 DEF LockLog, Suspend
<1>7. CASE ReplayFrame \/ ReplayDone \/ RepairGate \/ Finish
  BY <1>7 DEF ReplayFrame, ReplayDone, RepairGate, Finish
<1>8. ASSUME NEW w \in Workers, Enter(w, "splicing") \/ Enter(w, "logging") \/ Leave(w)
      PROVE  WindowDown'
  BY <1>8 DEF Enter, Leave
<1>9. CASE Draw \/ Activate BY <1>9 DEF Draw, Activate
<1>10. CASE UNCHANGED vars  BY <1>10 DEF vars
<1> QED
  BY <1>1, <1>2, <1>3, <1>4, <1>5, <1>6, <1>7, <1>8, <1>9, <1>10 DEF Next, Rollback

(* Only the thread itself moves.                                            *)
LEMMA OnlyDrawDraws == [Next]_vars /\ ~Draw => drawing' = drawing
<1> SUFFICES ASSUME [Next]_vars, ~Draw PROVE drawing' = drawing
  OBVIOUS
<1> USE DEF machine, threads, ghosts
<1>1. CASE Begin \/ Activate \/ UNCHANGED vars
  BY <1>1 DEF Begin, Activate, vars
<1>2. CASE Rollback
  BY <1>2 DEF Rollback, Quiesce, HoldWindow, GatePassed, GateTimedOut, LockLog, Suspend,
     Frozen, CaughtSplicing, CaughtNobody, Load, Thaw, ReplayFrame, ReplayDone, RepairGate,
     Repair, Finish
<1>3. ASSUME NEW w \in Workers, Enter(w, "splicing") \/ Enter(w, "logging") \/ Leave(w)
      PROVE  drawing' = drawing
  BY <1>3 DEF Enter, Leave
<1> QED BY <1>1, <1>2, <1>3 DEF Next

(* THEOREM.  From the load to the end of the replay the window thread does  *)
(* not move, if it was caught in its Sleep or freeze can open it, whatever  *)
(* flags the load brought back and however many stops of earlier, deferred  *)
(* rollbacks there are (suspend.cpp, WT-HOLD of do_rollback).               *)
THEOREM WindowIsHeld == Spec => WindowStaysDown
<1>1. ASSUME TypeInv, WindowDown, [Next]_vars
      PROVE  [(host = "open" \/ local.hold) /\ pc \in {"load", "thaw", "replay"}
                => drawing' = drawing]_vars
  <2> SUFFICES ASSUME host = "open" \/ local.hold, pc \in {"load", "thaw", "replay"}
               PROVE  ~Draw
    BY <1>1, OnlyDrawDraws
  <2>1. local.hold => windowStops > 0
    BY <1>1 DEF TypeInv, WhichFreeze, StopsOwed, BeforeReturn
  <2>2. Window \in Stopped
    BY <1>1, <2>1 DEF WindowDown, Stopped
  <2> QED BY <2>2 DEF Draw
<1> QED
  BY <1>1, InitTyped, StepTyped, InitDown, StepDown, PTL DEF Spec, WindowStaysDown
=============================================================================
