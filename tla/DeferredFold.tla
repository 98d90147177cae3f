---------------------------- MODULE DeferredFold ----------------------------
(***************************************************************************)
(* arena.cpp's deferred fold.  When a save reuses a ring slot, the pages of *)
(* the old one age into the baseline.  With g_fold_defer on, the main       *)
(* thread queues the copying as a job, hands the job the slot's buffer, and *)
(* a worker thread copies the pages later; the buffer comes back through a  *)
(* return ring.  A load drains the queue first.                             *)
(*                                                                         *)
(* The bytes of a slot are named by the slot's number: slots are folded in  *)
(* the order 1, 2, 3, ...                                                   *)
(***************************************************************************)
EXTENDS Integers, Sequences, FiniteSets, FiniteSetsExt

CONSTANTS
  Pages,        \* pages of the arena
  RingSlots,    \* RING_SLOTS
  FoldRing,     \* FOLD_RING, the capacity of the queue and of the return ring
  MaxSlots,     \* bound of the model: slots folded in a behaviour
  MayToggle,    \* whether the Numpad+ switch is pressed
  ListMayFail,  \* whether the list of destinations can fail to grow
  MayRecapture  \* whether the engine is armed again

ASSUME FoldAssumption ==
  /\ RingSlots \in Nat \ {0} /\ FoldRing \in Nat \ {0} /\ MaxSlots \in Nat
  /\ {MayToggle, ListMayFail, MayRecapture} \subseteq BOOLEAN

VARIABLES
  baseline,   \* page -> number of the slot its copy came from
  captures,   \* ghost: how often a baseline has been captured
  overtaken,  \* ghost: a page was written while an older copy of it was queued
  folded,     \* slots handed to a fold so far
  buffer,     \* ring slot -> the buffer it owns, NoBuffer if none
  queue,      \* g_submit between tail and head
  returned,   \* g_return between tail and head
  submitted,  \* g_fold_submitted
  completed,  \* g_fold_completed
  wake,       \* g_fold_wake, an auto-reset event
  worker,     \* where fold_worker is
  left,       \* pages of its job it has still to copy
  done,       \* the job it has consumed and not yet reported
  main,       \* where the main thread is
  dirty,      \* pages of the slot the main thread is folding
  defer       \* g_fold_defer

workerVars == <<wake, worker, left, done>>
vars == <<baseline, captures, overtaken, folded, buffer, queue, returned, submitted, completed,
          workerVars, main, dirty, defer>>

NoBuffer == 0
Reused   == folded % RingSlots            \* the ring slot of the fold in progress
NoJob    == [slot |-> 0, pages |-> {}, buf |-> NoBuffer, seq |-> 0, of |-> 0]

InUse == {buffer[s] : s \in DOMAIN buffer} \cup {queue[i].buf : i \in DOMAIN queue}
         \cup {returned[i] : i \in DOMAIN returned} \cup {done.buf}
Pending(p) == {i \in DOMAIN queue : p \in queue[i].pages}
Fresh == Min((1..(RingSlots + 2 * FoldRing + 2)) \ InUse)

----------------------------------------------------------------------------
Init ==
  /\ baseline = [p \in Pages |-> 0] /\ captures = 1 /\ overtaken = FALSE
  /\ folded = 0 /\ buffer = [s \in 0..(RingSlots - 1) |-> s + 1]
  /\ queue = <<>> /\ returned = <<>> /\ submitted = 0 /\ completed = 0
  /\ wake = FALSE /\ worker = "waiting" /\ left = {} /\ done = NoJob
  /\ main = "idle" /\ dirty = {}
  /\ defer \in IF MayToggle THEN BOOLEAN ELSE {TRUE}

----------------------------------------------------------------------------
(* The main thread.                                                         *)

(* save reaches a valid slot: its pages are to be folded.                   *)
SaveReusesSlot ==
  /\ main = "idle" /\ folded < MaxSlots
  /\ folded' = folded + 1
  /\ \E D \in SUBSET Pages : dirty' = D
  /\ main' = "fold"
  /\ UNCHANGED <<baseline, captures, overtaken, buffer, queue, returned, submitted, completed,
                 workerVars, defer>>

(* The queue is full: wait until every job is done.                         *)
QueueFull ==
  /\ main = "fold" /\ defer /\ Len(queue) >= FoldRing
  /\ main' = "drain"
  /\ UNCHANGED <<baseline, captures, overtaken, folded, buffer, queue, returned, submitted, completed,
                 workerVars, dirty, defer>>

Drained == completed >= submitted

QueueDrained ==
  /\ main = "drain" /\ Drained
  /\ main' = "fold"
  /\ UNCHANGED <<baseline, captures, overtaken, folded, buffer, queue, returned, submitted, completed,
                 workerVars, dirty, defer>>

MutantBufferShared ==
  /\ main = "fold" /\ defer /\ Len(queue) < FoldRing
  /\ submitted' = submitted + 1
  /\ queue' = Append(queue, [slot |-> folded, pages |-> dirty, buf |-> buffer[Reused],
                             seq |-> submitted + 1, of |-> captures])
  /\ wake' = TRUE
  /\ main' = "idle" /\ dirty' = {}
  /\ UNCHANGED <<baseline, captures, overtaken, folded, buffer, returned, completed,
                 worker, left, done, defer>>

MutantNotWoken ==
  /\ main = "fold" /\ defer /\ Len(queue) < FoldRing
  /\ submitted' = submitted + 1
  /\ queue' = Append(queue, [slot |-> folded, pages |-> dirty, buf |-> buffer[Reused],
                             seq |-> submitted + 1, of |-> captures])
  /\ buffer' = [buffer EXCEPT ![Reused] = IF returned = <<>> THEN Fresh ELSE Head(returned)]
  /\ returned' = IF returned = <<>> THEN returned ELSE Tail(returned)
  /\ main' = "idle" /\ dirty' = {}
  /\ UNCHANGED <<baseline, captures, overtaken, folded, completed, workerVars, defer>>

(* The job takes the slot's buffer; the slot gets one the worker has given  *)
(* back, or a new one.  The job is published before the worker is woken.    *)
SubmitJob ==
  /\ main = "fold" /\ defer /\ Len(queue) < FoldRing
  /\ submitted' = submitted + 1
  /\ queue' = Append(queue, [slot |-> folded, pages |-> dirty, buf |-> buffer[Reused],
                             seq |-> submitted + 1, of |-> captures])
  /\ buffer' = [buffer EXCEPT ![Reused] = IF returned = <<>> THEN Fresh ELSE Head(returned)]
  /\ returned' = IF returned = <<>> THEN returned ELSE Tail(returned)
  /\ wake' = TRUE
  /\ main' = "idle" /\ dirty' = {}
  /\ UNCHANGED <<baseline, captures, overtaken, folded, completed, worker, left, done, defer>>

(* fold_into_baseline, on the main thread: the switch is off, or the job's  *)
(* list of destinations could not be had.                                   *)
FoldInline ==
  /\ main = "fold"
  /\ ~defer \/ (ListMayFail /\ Len(queue) < FoldRing)
  /\ baseline' = [p \in Pages |-> IF p \in dirty THEN folded ELSE baseline[p]]
  /\ main' = "idle" /\ dirty' = {}
  /\ overtaken' = (overtaken \/ \E p \in dirty : Pending(p) # {})
  /\ UNCHANGED <<captures, folded, buffer, queue, returned, submitted, completed,
                 workerVars, defer>>

(* do_rollback drains the queue before arena::load reads the baseline.      *)
RollbackDrain ==
  /\ main = "idle"
  /\ main' = "loading"
  /\ UNCHANGED <<baseline, captures, overtaken, folded, buffer, queue, returned, submitted, completed,
                 workerVars, dirty, defer>>

Loading == main = "loading" /\ Drained

RollbackDone ==
  /\ Loading
  /\ main' = "idle"
  /\ UNCHANGED <<baseline, captures, overtaken, folded, buffer, queue, returned, submitted, completed,
                 workerVars, dirty, defer>>

(* The Numpad+ switch.                                                      *)
Toggle ==
  /\ MayToggle /\ main = "idle"
  /\ defer' = ~defer
  /\ UNCHANGED <<baseline, captures, overtaken, folded, buffer, queue, returned, submitted, completed,
                 workerVars, main, dirty>>

(* capture_baseline frees the old baseline and builds another.              *)
Recapture ==
  /\ MayRecapture /\ main = "idle" /\ captures = 1
  /\ baseline' = [p \in Pages |-> folded]
  /\ captures' = captures + 1
  /\ overtaken' = (overtaken \/ queue # <<>>)
  /\ UNCHANGED <<folded, buffer, queue, returned, submitted, completed,
                 workerVars, main, dirty, defer>>

----------------------------------------------------------------------------
(* fold_worker.                                                             *)

Wake ==
  /\ worker = "waiting" /\ wake
  /\ wake' = FALSE /\ worker' = "looking"
  /\ UNCHANGED <<baseline, captures, overtaken, folded, buffer, queue, returned, submitted, completed,
                 left, done, main, dirty, defer>>

Look ==
  /\ worker = "looking"
  /\ IF queue = <<>> THEN worker' = "waiting" /\ left' = left
                     ELSE worker' = "copying" /\ left' = Head(queue).pages
  /\ UNCHANGED <<baseline, captures, overtaken, folded, buffer, queue, returned, submitted, completed,
                 wake, done, main, dirty, defer>>

(* One memcpy, into the page the job was given: a page of the baseline that *)
(* was in force when the job was made, which a new capture has freed.       *)
CopyPage ==
  /\ worker = "copying"
  /\ \E p \in left :
       /\ left' = left \ {p}
       /\ baseline' = IF Head(queue).of = captures
                      THEN [baseline EXCEPT ![p] = Head(queue).slot] ELSE baseline
  /\ UNCHANGED <<captures, overtaken, folded, buffer, queue, returned, submitted, completed,
                 wake, worker, done, main, dirty, defer>>

MutantConsumeEarly ==
  /\ worker = "copying"
  /\ done' = Head(queue) /\ queue' = Tail(queue)
  /\ worker' = "returning"
  /\ UNCHANGED <<baseline, captures, overtaken, folded, buffer, returned, submitted, completed,
                 wake, left, main, dirty, defer>>

Consume ==
  /\ worker = "copying" /\ left = {}
  /\ done' = Head(queue) /\ queue' = Tail(queue)
  /\ worker' = "returning"
  /\ UNCHANGED <<baseline, captures, overtaken, folded, buffer, returned, submitted, completed,
                 wake, left, main, dirty, defer>>

MutantReturnUnchecked ==
  /\ worker = "returning"
  /\ returned' = Append(returned, done.buf)
  /\ worker' = "reporting" /\ done' = [done EXCEPT !.buf = NoBuffer]
  /\ UNCHANGED <<baseline, captures, overtaken, folded, buffer, queue, submitted, completed,
                 wake, left, main, dirty, defer>>

(* push_return drops the buffer when the return ring is full.               *)
PushReturn ==
  /\ worker = "returning"
  /\ returned' = IF Len(returned) >= FoldRing THEN returned ELSE Append(returned, done.buf)
  /\ worker' = "reporting" /\ done' = [done EXCEPT !.buf = NoBuffer]
  /\ UNCHANGED <<baseline, captures, overtaken, folded, buffer, queue, submitted, completed,
                 wake, left, main, dirty, defer>>

Report ==
  /\ worker = "reporting"
  /\ completed' = done.seq /\ done' = NoJob
  /\ worker' = "looking"
  /\ UNCHANGED <<baseline, captures, overtaken, folded, buffer, queue, returned, submitted,
                 wake, left, main, dirty, defer>>

Worker == Wake \/ Look \/ CopyPage \/ Consume \/ PushReturn \/ Report

Main == SaveReusesSlot \/ QueueFull \/ QueueDrained \/ SubmitJob \/ FoldInline
        \/ RollbackDrain \/ RollbackDone \/ Toggle \/ Recapture

Next == Main \/ Worker

(* The worker thread runs, and the main thread leaves its waits.            *)
Fairness == WF_vars(Worker) /\ WF_vars(QueueDrained) /\ WF_vars(RollbackDone)

Spec == Init /\ [][Next]_vars /\ Fairness

----------------------------------------------------------------------------
(* Type correctness.                                                        *)
TypeOK ==
  /\ baseline \in [Pages -> 0..MaxSlots] /\ folded \in 0..MaxSlots
  /\ Len(queue) <= FoldRing /\ Len(returned) <= FoldRing
  /\ completed \in 0..submitted /\ submitted <= MaxSlots
  /\ left \subseteq Pages /\ dirty \subseteq Pages
  /\ worker \in {"waiting", "looking", "copying", "returning", "reporting"}
  /\ main \in {"idle", "fold", "drain", "loading"}

(* The page buffers: a job's bytes cannot change under the worker, because  *)
(* a buffer is in one place only - a ring slot's, a queued job's, the       *)
(* worker's or the return ring's (save's detach, push_return, pop_return).  *)
Owners(b) ==
  {<<"slot", s>> : s \in {t \in DOMAIN buffer : buffer[t] = b}}
  \cup {<<"job", i>> : i \in {j \in DOMAIN queue : queue[j].buf = b}}
  \cup {<<"spare", i>> : i \in {j \in DOMAIN returned : returned[j] = b}}
  \cup (IF done.buf = b THEN {<<"worker", 0>>} ELSE {})
OneOwner == \A b \in InUse \ {NoBuffer} : Cardinality(Owners(b)) = 1

(* The baseline and the jobs on it stand for one baseline, folded in order. *)
Logical ==
  [p \in Pages |-> IF Pending(p) = {} THEN baseline[p] ELSE queue[Max(Pending(p))].slot]

Folding == main \in {"fold", "drain"}

Abstract == INSTANCE BaselineFold WITH base <- Logical, slot <- folded, aging <- dirty, folding <- Folding

(* Deferring the copies changes nothing but their time: the steps are those *)
(* of a fold made at once, for as long as nothing has been folded inline,   *)
(* or captured anew, over a copy still in the queue.                        *)
ImplementsFold == [][overtaken' \/ Abstract!Next]_(Abstract!vars)

(* A drain always ends: no wake-up is lost (the SetEvent of save).          *)
DrainsEnd == /\ main = "drain" ~> main = "fold"
             /\ main = "loading" ~> main = "idle"
=============================================================================
