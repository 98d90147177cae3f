------------------------------ MODULE NetInput ------------------------------
(***************************************************************************)
(* The lockstep input exchange of net_input.cpp: two peers number their    *)
(* frames against an agreed timeline (an epoch), schedule each captured    *)
(* pad a fixed delay into the future, send every unacknowledged frame over *)
(* UDP, and run ahead of the other's confirmed input by guessing that the  *)
(* last pad repeats.  A late frame that contradicts its guess fires the    *)
(* rollback trigger, if the map from engine frames to net-frames still has *)
(* it.                                                                     *)
(*                                                                         *)
(* Everything below runs on the game's main thread (hk_main_proc): the     *)
(* datagrams are drained at the top of a tick, then the tick either holds  *)
(* or runs one frame.  So a handler and a tick are each one action.        *)
(* Of the rollback engine there is what it does to that map: an entry      *)
(* changes hands while the engine's counter stands still, when it comes    *)
(* round the ring, and in a replay.  The rest is in RollbackFrames.        *)
(* Pads are members of Blob.  The drift controller, the control-scheme     *)
(* hash and the counters of the log are left out.                          *)
(*                                                                         *)
(* A definition named Mutant... is a broken variant of the definition that *)
(* follows it, used nowhere: put in its place it must break a property.    *)
(***************************************************************************)
EXTENDS Integers, FiniteSets

CONSTANTS
    Peer,         \* the two machines
    Blob,         \* raw pad states
    Neutral,      \* the pad nobody touches, and the zeroed buffers
    None,         \* no guess recorded; frame not run (a model value)
    Ring,         \* RING, slots of each input queue
    Redundancy,   \* NET_INPUT_REDUNDANCY, frames one packet can carry
    GapCap,       \* the largest capture gap that is filled (32)
    Barrier,      \* MAX_PREDICTION of hk_main_proc
    FirstDelay,   \* the static initial value of g_delay
    Delays,       \* delays delay_for_link and the callers can choose
    MaxFrame,     \* bound: net-frames run in one epoch
    MaxEpoch,     \* bound: epochs proposed
    MaxAbandon,   \* bound: stalls abandoned by a peer (STALL_MAX)
    MaxNet        \* bound: datagrams that may still be delivered

ASSUME PeerAssumption == \E a, b \in Peer : a # b /\ Peer = {a, b}
ASSUME BlobAssumption == Neutral \in Blob /\ None \notin Blob
ASSUME SizeAssumption ==
    /\ Ring \in Nat \ {0} /\ Redundancy \in 1..Ring /\ GapCap \in 0..(Ring - 1)
    /\ Barrier \in Nat \ {0}
    /\ MaxFrame \in Nat /\ MaxEpoch \in Nat /\ MaxAbandon \in Nat
ASSUME DelayAssumption ==
    /\ FirstDelay \in Nat /\ 2 * FirstDelay < Ring
    /\ Delays \subseteq Nat /\ \A d \in Delays : 2 * d < Ring

VARIABLES
    epoch,         \* g_epoch; 0 until lockstep first activates (g_active)
    want,          \* g_want, the newest timeline this peer knows of
    delay,         \* g_delay
    netFrame,      \* g_net_frame
    lastCaptured,  \* g_last_captured
    remoteHigh,    \* g_remote_high, newest remote frame stored
    peerAcked,     \* g_peer_acked, newest of our frames the peer reported
    local,         \* g_local
    remote,        \* g_remote
    lastLocal,     \* g_last_local
    lastRemote,    \* g_last_remote
    guess,         \* g_pred where g_was_pred, None elsewhere
    unmapped,      \* guessed frames whose g_net_for_engine entry is taken
    net,           \* datagrams that can still arrive
    shown,         \* history: what the game was given, by frame of the epoch
    have,          \* history: remote frames held or seeded in this epoch
    corrected,     \* history: frames whose rollback trigger fired
    abandoned      \* history: stalls given up on, bounded by MaxAbandon

timelineVars == <<epoch, want, delay>>
queueVars == <<netFrame, lastCaptured, remoteHigh, peerAcked, local, remote,
               lastLocal, lastRemote, guess>>
historyVars == <<shown, have, corrected, abandoned>>
vars == <<timelineVars, queueVars, unmapped, net, historyVars>>

Slot == 0..(Ring - 1)
Pads == [own : Blob, other : Blob]
Entry == [frame : Int, blob : Blob]

Other(p) == CHOOSE q \in Peer : q # p
Active(p) == epoch[p] > 0
Newer(a, b) == IF a >= b THEN a ELSE b
Older(a, b) == IF a <= b THEN a ELSE b

-----------------------------------------------------------------------------
(* The queues: keyed by frame modulo Ring, validated by the frame number.  *)
(* An entry whose frame is -1 is an invalid one.                           *)

Idx(f) == f % Ring
Held(queue, f) == queue[Idx(f)].frame = f
BlobAt(queue, f) == IF Held(queue, f) THEN queue[Idx(f)].blob ELSE Neutral

\* The queue with every frame of F holding the pad of blobs.
Filled(queue, F, blobs) ==
    [i \in Slot |-> IF \E f \in F : Idx(f) = i
                    THEN LET f == CHOOSE g \in F : Idx(g) = i
                         IN [frame |-> f, blob |-> blobs[f]]
                    ELSE queue[i]]

\* seed_neutral: the first d frames are neutral, all other slots invalid.
Seeded(d) ==
    [i \in Slot |-> [frame |-> IF i < d THEN i ELSE -1, blob |-> Neutral]]
NoGuesses == [i \in Slot |-> None]
NothingShown == [f \in 0..MaxFrame |-> None]

-----------------------------------------------------------------------------
(* The wire.  A datagram in net arrives never, once or many times, in any  *)
(* order; when net is full one of its members is certainly lost.           *)

Transmit(sent) ==
    LET inFlight == net \cup sent
    IN IF Cardinality(inFlight) <= MaxNet
       THEN net' = inFlight
       ELSE \E m \in inFlight : net' = inFlight \ {m}

EpochPacket(p, e, d) == [type |-> "epoch", src |-> p, epoch |-> e, delay |-> d]

\* The window may begin below frame 0.
MutantWindowStart(p, upto) ==
    LET unacked == IF peerAcked[p] >= 0 THEN Older(peerAcked[p] + 1, upto)
                   ELSE upto - (Redundancy - 1)
    IN Newer(unacked, upto - (Redundancy - 1))

\* The window begins two frames after the newest one acknowledged.
MutantWindowSkipsOne(p, upto) ==
    LET unacked == IF peerAcked[p] >= 0 THEN Older(peerAcked[p] + 2, upto)
                   ELSE upto - (Redundancy - 1)
    IN Newer(Newer(unacked, upto - (Redundancy - 1)), 0)

\* The frames send_input selects when the newest scheduled one is upto.
WindowStart(p, upto) ==
    LET unacked == IF peerAcked[p] >= 0 THEN Older(peerAcked[p] + 1, upto)
                   ELSE upto - (Redundancy - 1)
    IN Newer(Newer(unacked, upto - (Redundancy - 1)), 0)

InputPacket(p, upto, queue) ==
    [type |-> "input", src |-> p, epoch |-> epoch[p], want |-> want[p],
     ack |-> remoteHigh[p], start |-> WindowStart(p, upto), upto |-> upto,
     blobs |-> [f \in WindowStart(p, upto)..upto |-> BlobAt(queue, f)]]

-----------------------------------------------------------------------------
Init ==
    /\ epoch = [p \in Peer |-> 0]
    /\ want = [p \in Peer |-> 0]
    /\ delay = [p \in Peer |-> FirstDelay]
    /\ netFrame = [p \in Peer |-> 0]
    /\ lastCaptured = [p \in Peer |-> -1]
    /\ remoteHigh = [p \in Peer |-> -1]
    /\ peerAcked = [p \in Peer |-> -1]
    /\ local = [p \in Peer |-> Seeded(0)]
    /\ remote = [p \in Peer |-> Seeded(0)]
    /\ lastLocal = [p \in Peer |-> Neutral]
    /\ lastRemote = [p \in Peer |-> Neutral]
    /\ guess = [p \in Peer |-> NoGuesses]
    /\ unmapped = [p \in Peer |-> {}]
    /\ net = {}
    /\ shown = [p \in Peer |-> NothingShown]
    /\ have = [p \in Peer |-> {}]
    /\ corrected = [p \in Peer |-> {}]
    /\ abandoned = [p \in Peer |-> 0]

\* The timeline adopted is not remembered as wanted.
MutantRestart(p, d, e) ==
    /\ epoch' = [epoch EXCEPT ![p] = e]
    /\ delay' = [delay EXCEPT ![p] = d]
    /\ netFrame' = [netFrame EXCEPT ![p] = 0]
    /\ lastCaptured' = [lastCaptured EXCEPT ![p] = -1]
    /\ local' = [local EXCEPT ![p] = Seeded(d)]
    /\ lastLocal' = [lastLocal EXCEPT ![p] = Neutral]
    /\ lastRemote' = [lastRemote EXCEPT ![p] = Neutral]
    /\ shown' = [shown EXCEPT ![p] = NothingShown]
    /\ unmapped' = [unmapped EXCEPT ![p] = {}]
    /\ UNCHANGED <<want, abandoned>>

\* activate_epoch with do_reset: everything restarts except g_peer_acked.  The
\* map keeps its entries, which are of frames of the timeline given up.
\* The queue fields a datagram can go on to change are left to the caller.
Restart(p, d, e) ==
    /\ epoch' = [epoch EXCEPT ![p] = e]
    /\ want' = [want EXCEPT ![p] = Newer(want[p], e)]
    /\ delay' = [delay EXCEPT ![p] = d]
    /\ netFrame' = [netFrame EXCEPT ![p] = 0]
    /\ lastCaptured' = [lastCaptured EXCEPT ![p] = -1]
    /\ local' = [local EXCEPT ![p] = Seeded(d)]
    /\ lastLocal' = [lastLocal EXCEPT ![p] = Neutral]
    /\ lastRemote' = [lastRemote EXCEPT ![p] = Neutral]
    /\ shown' = [shown EXCEPT ![p] = NothingShown]
    /\ unmapped' = [unmapped EXCEPT ![p] = {}]
    /\ UNCHANGED abandoned

\* The local trigger starts the timeline it proposes at once.
MutantProposeEpoch(p) ==
    \E d \in Delays :
        /\ want[p] < MaxEpoch
        /\ Restart(p, d, Newer(epoch[p], want[p]) + 1)
        /\ Transmit({EpochPacket(p, want'[p], d)})
        /\ remote' = [remote EXCEPT ![p] = Seeded(d)]
        /\ remoteHigh' = [remoteHigh EXCEPT ![p] = d - 1]
        /\ guess' = [guess EXCEPT ![p] = NoGuesses]
        /\ have' = [have EXCEPT ![p] = 0..(d - 1)]
        /\ corrected' = [corrected EXCEPT ![p] = {}]
        /\ UNCHANGED peerAcked

\* A local trigger: char-select entry, forced round seed, engine arm (force).
\* The delay is set before the debounce decides whether to propose.
ProposeEpoch(p) ==
    \E d \in Delays :
        /\ delay' = [delay EXCEPT ![p] = d]
        /\ \/ /\ want[p] < MaxEpoch
              /\ want' = [want EXCEPT ![p] = Newer(epoch[p], want[p]) + 1]
              /\ Transmit({EpochPacket(p, want'[p], d)})
           \/ /\ Active(p)                 \* within EPOCH_DEBOUNCE_MS
              /\ UNCHANGED <<want, net>>
        /\ UNCHANGED <<epoch, queueVars, unmapped, historyVars>>

\* An announcement of the running timeline restarts it.
MutantOnPeerEpoch(p, m) ==
    /\ m.epoch >= epoch[p]
    /\ Restart(p, m.delay, m.epoch)
    /\ remote' = [remote EXCEPT ![p] = Seeded(m.delay)]
    /\ remoteHigh' = [remoteHigh EXCEPT ![p] = m.delay - 1]
    /\ guess' = [guess EXCEPT ![p] = NoGuesses]
    /\ have' = [have EXCEPT ![p] = 0..(m.delay - 1)]
    /\ corrected' = [corrected EXCEPT ![p] = {}]
    /\ UNCHANGED <<peerAcked, net>>

OnPeerEpoch(p, m) ==
    \/ /\ m.epoch > epoch[p]
       /\ Restart(p, m.delay, m.epoch)
       /\ remote' = [remote EXCEPT ![p] = Seeded(m.delay)]
       /\ remoteHigh' = [remoteHigh EXCEPT ![p] = m.delay - 1]
       /\ guess' = [guess EXCEPT ![p] = NoGuesses]
       /\ have' = [have EXCEPT ![p] = 0..(m.delay - 1)]
       /\ corrected' = [corrected EXCEPT ![p] = {}]
       /\ UNCHANGED <<peerAcked, net>>
    \/ /\ m.epoch <= epoch[p] /\ want[p] > m.epoch
       /\ Transmit({EpochPacket(p, want[p], delay[p])})
       /\ UNCHANGED <<timelineVars, queueVars, unmapped, historyVars>>

-----------------------------------------------------------------------------
(* on_recv_input.  The stored part, over the queue, newest frame, guesses, *)
(* frames and triggers the peer has once the epoch gate has been passed.   *)

Missing(m, queue) == {f \in DOMAIN m.blobs : ~Held(queue, f)}

\* The newest frame once those of F are stored.
Highest(high, F) ==
    IF \E f \in F : f > high THEN CHOOSE f \in F : \A g \in F : g <= f
    ELSE high

\* The newest frame run is not judged.
MutantJudged(F, frame, guesses) ==
    {f \in F : f + 1 < frame /\ guesses[Idx(f)] # None}

\* Frames already run on a guess, whose input this packet is the first to bring.
Judged(F, frame, guesses) ==
    {f \in F : f < frame /\ guesses[Idx(f)] # None}

\* A contradicted guess asks for a rollback to the engine frame of f, so one
\* the map has lost asks for nothing.
StoreInput(p, m, queue, high, frame, guesses, held, triggers, taken) ==
    LET F == Missing(m, queue)
        J == Judged(F, frame, guesses)
    IN /\ remote' = [remote EXCEPT ![p] = Filled(queue, F, m.blobs)]
       /\ remoteHigh' = [remoteHigh EXCEPT ![p] = Highest(high, F)]
       /\ guess' = [guess EXCEPT ![p] =
              [i \in Slot |-> IF \E f \in J : Idx(f) = i THEN None
                              ELSE guesses[i]]]
       /\ corrected' = [corrected EXCEPT ![p] = triggers \cup
              {f \in J : guesses[Idx(f)] # m.blobs[f] /\ f \notin taken}]
       /\ have' = [have EXCEPT ![p] = held \cup F]
       /\ peerAcked' = [peerAcked EXCEPT ![p] = Newer(peerAcked[p], m.ack)]

\* The peer's timeline is ours: store what it brings.
RecvSameEpoch(p, m) ==
    /\ m.want <= epoch[p] /\ m.epoch = epoch[p]
    /\ StoreInput(p, m, remote[p], remoteHigh[p], netFrame[p], guess[p],
                  have[p], corrected[p], unmapped[p])
    /\ UNCHANGED <<timelineVars, netFrame, lastCaptured, local, lastLocal,
                   lastRemote, unmapped, net, shown, abandoned>>

\* The peer has moved on and runs the newer timeline: restart on it with our
\* own delay, then store.
RecvNewEpoch(p, m) ==
    /\ m.want > epoch[p] /\ m.epoch = m.want
    /\ Restart(p, delay[p], m.want)
    /\ StoreInput(p, m, Seeded(delay[p]), delay[p] - 1, 0, NoGuesses,
                  0..(delay[p] - 1), {}, {})
    /\ UNCHANGED net

\* The peer wants a newer timeline than the one its input is numbered on:
\* restart there, and discard the input.
RecvProposal(p, m) ==
    /\ m.want > epoch[p] /\ m.epoch # m.want
    /\ Restart(p, delay[p], m.want)
    /\ remote' = [remote EXCEPT ![p] = Seeded(delay[p])]
    /\ remoteHigh' = [remoteHigh EXCEPT ![p] = delay[p] - 1]
    /\ guess' = [guess EXCEPT ![p] = NoGuesses]
    /\ have' = [have EXCEPT ![p] = 0..(delay[p] - 1)]
    /\ corrected' = [corrected EXCEPT ![p] = {}]
    /\ UNCHANGED <<peerAcked, net>>

\* Input is ignored until lockstep is active.
MutantOnRecvInput(p, m) ==
    Active(p) /\ (RecvSameEpoch(p, m) \/ RecvNewEpoch(p, m) \/ RecvProposal(p, m))

\* A packet of an older timeline changes nothing, and is no step here.
OnRecvInput(p, m) ==
    RecvSameEpoch(p, m) \/ RecvNewEpoch(p, m) \/ RecvProposal(p, m)

Receive(p) ==
    \E m \in net :
        /\ m.src # p
        /\ \/ m.type = "epoch" /\ OnPeerEpoch(p, m)
           \/ m.type = "input" /\ OnRecvInput(p, m)

-----------------------------------------------------------------------------
FramesAhead(p) == netFrame[p] - remoteHigh[p]

\* A tick holds the frame at the barrier, while a fight lacks the remote pad,
\* or to give a frame back; STALL_MAX held ticks in a row release one frame.
Released(p) ==
    \/ FramesAhead(p) < Barrier /\ UNCHANGED abandoned
    \/ /\ FramesAhead(p) >= Barrier /\ abandoned[p] < MaxAbandon
       /\ abandoned' = [abandoned EXCEPT ![p] = @ + 1]

\* A held tick says again what the last frame said.
PumpStalled(p) ==
    /\ Active(p) /\ lastCaptured[p] >= 0
    /\ Transmit({InputPacket(p, lastCaptured[p] + delay[p], local[p])})
    /\ UNCHANGED <<timelineVars, queueVars, unmapped, historyVars>>

\* The gap begins at the frame scheduled last.
MutantCaptureFrames(p) ==
    LET sched == netFrame[p] + delay[p]
        next == IF lastCaptured[p] < 0 THEN sched ELSE lastCaptured[p] + delay[p]
    IN Newer(Older(next, sched), sched - GapCap)..sched

\* The frames one capture schedules: the newest, and the gap before it.
CaptureFrames(p) ==
    LET sched == netFrame[p] + delay[p]
        next == IF lastCaptured[p] < 0 THEN sched
                ELSE lastCaptured[p] + delay[p] + 1
    IN Newer(Older(next, sched), sched - GapCap)..sched

\* g_net_for_engine has one entry for each engine frame modulo Ring: another
\* frame takes that of f, which ran on a guess and waits for its pad.
TakeEntry(p) ==
    \E f \in Judged(0..MaxFrame, netFrame[p], guess[p]) \ unmapped[p] :
        unmapped' = [unmapped EXCEPT ![p] = @ \cup {f}]

\* on_frame_begin: capture the pad and send it, map the frame, then resolve
\* both pads.  The entry is that of an earlier frame when the engine is off,
\* whose counter then stands still, or when the counter has come round.
RunFrame(p) ==
    /\ Active(p) /\ netFrame[p] < MaxFrame
    /\ Released(p)
    /\ UNCHANGED unmapped \/ TakeEntry(p)
    /\ \E raw \in Blob :
        LET N == netFrame[p]
            F == CaptureFrames(p)
            queue == Filled(local[p], F, [f \in F |-> raw])
            own == IF Held(queue, N) THEN queue[Idx(N)].blob ELSE lastLocal[p]
            confirmed == Held(remote[p], N)
            other == IF confirmed THEN remote[p][Idx(N)].blob ELSE lastRemote[p]
        IN /\ local' = [local EXCEPT ![p] = queue]
           /\ Transmit({InputPacket(p, N + delay[p], queue)})
           /\ lastCaptured' = [lastCaptured EXCEPT ![p] = N]
           /\ lastLocal' = [lastLocal EXCEPT ![p] = own]
           /\ lastRemote' = [lastRemote EXCEPT ![p] = other]
           /\ guess' = [guess EXCEPT ![p][Idx(N)] =
                  IF confirmed THEN None
                  ELSE IF @ = None THEN other ELSE @]
           /\ shown' = [shown EXCEPT ![p][N] = [own |-> own, other |-> other]]
           /\ netFrame' = [netFrame EXCEPT ![p] = N + 1]
    /\ UNCHANGED <<timelineVars, remoteHigh, peerAcked, remote, have, corrected>>

\* A rollback, by the trigger of any frame or by hand, replays frames under a
\* counter that stands still.  Each comes by on_frame_begin, with the frame the
\* clock is at, and maps that one in place of the newest; what it captures and
\* resolves is what RunFrame does again.
ReplayFrames(p) ==
    /\ Active(p)
    /\ TakeEntry(p)
    /\ UNCHANGED <<timelineVars, queueVars, net, historyVars>>

\* The engine ran a frame without dispatching input: only advance_frame runs.
\* The bound leaves room for one more frame with input.
RunWithoutInput(p) ==
    /\ Active(p) /\ netFrame[p] + 1 < MaxFrame
    /\ Released(p)
    /\ netFrame' = [netFrame EXCEPT ![p] = @ + 1]
    /\ UNCHANGED <<timelineVars, lastCaptured, remoteHigh, peerAcked, local,
                   remote, lastLocal, lastRemote, guess, unmapped, net, shown,
                   have, corrected>>

Next ==
    \E p \in Peer :
        \/ ProposeEpoch(p)
        \/ Receive(p)
        \/ PumpStalled(p)
        \/ RunFrame(p)
        \/ ReplayFrames(p)
        \/ RunWithoutInput(p)

Spec == Init /\ [][Next]_vars

\* A wire that may also lose the last datagram it was given.
Lose ==
    /\ \E m \in net : net' = net \ {m}
    /\ UNCHANGED <<timelineVars, queueVars, unmapped, historyVars>>

\* The main loop keeps ticking, each machine enters char-select once, and a
\* datagram that keeps being sent, and would move its receiver to another
\* timeline, does arrive.
LossySpec ==
    /\ Init /\ [][Next \/ Lose]_vars
    /\ \A p \in Peer : /\ WF_vars(ProposeEpoch(p) /\ want[p] = 0)
                       /\ WF_vars(PumpStalled(p))
                       /\ WF_vars(RunFrame(p))
                       /\ SF_vars(Receive(p) /\ epoch' # epoch)

-----------------------------------------------------------------------------
(* Properties.                                                             *)

EpochMessage ==
    [type : {"epoch"}, src : Peer, epoch : Nat, delay : Delays \cup {FirstDelay}]
IsInputMessage(m) ==
    /\ m.type = "input" /\ m.src \in Peer
    /\ m.epoch \in Nat /\ m.want \in Nat /\ m.ack \in Int
    /\ m.start \in Nat /\ m.upto \in Nat
    /\ m.blobs \in [m.start..m.upto -> Blob]

\* Every variable keeps its type; g_net_frame stays within the bound.
TypeOK ==
    /\ epoch \in [Peer -> Nat]
    /\ want \in [Peer -> Nat]
    /\ delay \in [Peer -> Delays \cup {FirstDelay}]
    /\ netFrame \in [Peer -> 0..MaxFrame]
    /\ lastCaptured \in [Peer -> Int]
    /\ remoteHigh \in [Peer -> Int]
    /\ peerAcked \in [Peer -> Int]
    /\ local \in [Peer -> [Slot -> Entry]]
    /\ remote \in [Peer -> [Slot -> Entry]]
    /\ lastLocal \in [Peer -> Blob]
    /\ lastRemote \in [Peer -> Blob]
    /\ guess \in [Peer -> [Slot -> Blob \cup {None}]]
    /\ unmapped \in [Peer -> SUBSET (0..MaxFrame)]
    /\ \A m \in net : m \in EpochMessage \/ IsInputMessage(m)
    /\ shown \in [Peer -> [0..MaxFrame -> Pads \cup {None}]]
    /\ have \in [Peer -> SUBSET Nat]
    /\ corrected \in [Peer -> SUBSET Nat]
    /\ abandoned \in [Peer -> 0..MaxAbandon]

\* No peer numbers its frames on a timeline the other has not itself asked
\* for or adopted: a local event alone never restarts the clock on one side
\* (propose_epoch, activate_epoch).
SharedTimeline == \A p, q \in Peer : epoch[p] <= want[q]

\* Within one epoch the clock of a peer never runs backwards, and epochs only
\* go up: on_peer_epoch and on_recv_input never re-zero a running timeline.
ClockForward ==
    [][\A p \in Peer : /\ epoch'[p] >= epoch[p]
                       /\ epoch'[p] = epoch[p] => netFrame'[p] >= netFrame[p]
                       /\ want'[p] >= want[p]]_vars

\* With one delay, two peers on a timeline never hold different pads for a frame:
\* what a peer queued for its own slot is what the other has for that slot,
\* or the other has not got it (seed_neutral, on_frame_begin, on_recv_input).
InputAgreement ==
    \A p, q \in Peer : p # q /\ epoch[p] = epoch[q] =>
        \A i \in Slot : local[p][i].frame = remote[q][i].frame =>
                            local[p][i].blob = remote[q][i].blob

\* On the first timeline, and with one delay,
\* a frame keeps being sent until the peer confirms it: the newest remote
\* frame a peer reports as received has no lost frame below it, so a dropped
\* datagram costs latency and never the input (send_input, g_peer_acked).
NothingLost(p) == \A f \in 0..remoteHigh[p] : f \in have[p]
NoInputLostInFirstEpoch == \A p \in Peer : epoch[p] = 1 => NothingLost(p)

\* The games see the same pads: a frame that a peer's game ran, and whose
\* remote input that peer has by now, ran with the pad the other's own game
\* was given, or its rollback trigger fired.  Not so the frame whose entry in
\* the map was taken before its pad came: the engine was off, the ring came
\* round or a replay mapped another, and the frame stays as wrong as it was
\* (g_pred, g_was_pred, g_net_for_engine).
SameGameOrCorrected ==
    \A p, q \in Peer : p # q /\ epoch[p] = epoch[q] =>
        \A f \in 0..MaxFrame :
            (/\ shown[p][f] # None /\ shown[q][f] # None
             /\ f \in have[q] /\ f \notin unmapped[q]) =>
                \/ shown[q][f].other = shown[p][f].own
                \/ f \in corrected[q]

\* What the epoch numbers promise, whatever the queues do.
Agreement == INSTANCE EpochAgreement
ImplementsAgreement == Agreement!Spec

\* Once one peer runs, both end up on one timeline: every input packet, those
\* of a held frame included, states the timeline its sender wants (want_epoch).
TimelinesConverge ==
    (\E p \in Peer : Active(p)) ~> (\A p, q \in Peer : epoch[p] = epoch[q])

=============================================================================
