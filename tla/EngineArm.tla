----------------------------- MODULE EngineArm -----------------------------
(***************************************************************************)
(* net_engine_arm.cpp with its callers in resim.cpp: one press of F5 is to  *)
(* arm, or disarm, the rollback engines of both peers on one net-frame.     *)
(*                                                                         *)
(* A proposal names a net-frame some frames ahead and is re-sent until the  *)
(* proposer's own clock gets there; a disarm is sent once.  An engine that  *)
(* comes on proposes a new timeline, and a peer that adopts one starts its  *)
(* net-frames again at 0 (net_input.cpp).                                   *)
(*                                                                         *)
(* One step Frame is a pass of hk_main_proc; what its session_pump reads is *)
(* in the steps Receive before it.                                          *)
(***************************************************************************)
EXTENDS Integers, FiniteSets

CONSTANTS
  Peer,         \* the two machines
  Lead,         \* ARM_LEAD_FRAMES
  Disarms,      \* whether F5 is also pressed with the engine on
  Unreliable,   \* whether datagrams are lost and duplicated
  MayRefuse,    \* whether capture_baseline can refuse
  MayDrop,      \* whether a session can time out
  MaxPresses,   \* bound of the model: presses of F5
  MaxClock,     \* bound of the model: net-frames of a timeline
  MaxLine       \* bound of the model: timelines

ASSUME PeerAssumption == IsFiniteSet(Peer) /\ Cardinality(Peer) = 2
ASSUME ArmAssumption ==
  /\ {Lead, MaxPresses, MaxClock, MaxLine} \subseteq Nat /\ Lead > 0 /\ MaxLine > 0
  /\ {Disarms, Unreliable, MayRefuse, MayDrop} \subseteq BOOLEAN

VARIABLES
  arm,      \* per peer: on (g_engine_on), armed, pending, target, disarm (g_disarm_req)
  running,  \* session_running()
  clock,    \* net_input::net_frame()
  line,     \* net_input's g_epoch
  want,     \* net_input's g_want
  net,      \* datagrams in flight
  presses,  \* presses of F5 so far
  armedAt,  \* ghost: timeline and net-frame a peer last armed on
  refused,  \* ghost: peers whose baseline was refused, until a disarm clears the latch
  late      \* ghost: a proposal reached a peer after the frame it names

vars == <<arm, running, clock, line, want, net, presses, armedAt, refused, late>>

Other(p) == CHOOSE q \in Peer : q # p
Never    == [line |-> 0, frame |-> 0]

Proposal(p, t)  == [type |-> "arm",    to |-> Other(p), n |-> t]
DisarmNow(p)    == [type |-> "disarm", to |-> Other(p), n |-> 0]
Epoch(p, e)     == [type |-> "epoch",  to |-> Other(p), n |-> e]

Datagram == [type : {"arm", "disarm", "epoch"}, to : Peer, n : 0..(MaxClock + Lead + MaxLine)]

(* A peer whose session is down has closed its socket.                      *)
Sent(p, S) == IF running[p] THEN S ELSE {}

----------------------------------------------------------------------------
Init ==
  /\ arm = [p \in Peer |-> [on |-> FALSE, armed |-> FALSE, pending |-> FALSE,
                            target |-> -1, disarm |-> FALSE]]
  /\ running = [p \in Peer |-> TRUE]
  /\ clock = [p \in Peer |-> 0] /\ line = [p \in Peer |-> 1] /\ want = [p \in Peer |-> 1]
  /\ net = {} /\ presses = 0
  /\ armedAt = [p \in Peer |-> Never]
  /\ refused = {} /\ late = FALSE

----------------------------------------------------------------------------
(* A pass of the main loop.                                                 *)

(* propose()                                                                *)
Proposed(p) ==
  LET a == arm[p] IN
  IF a.armed \/ a.pending THEN a
  ELSE [a EXCEPT !.pending = TRUE, !.target = IF running[p] THEN clock[p] + Lead ELSE -1]

(* propose_disarm(), and on_peer_disarm() but for the datagram.             *)
DisarmAsked(p) ==
  LET a == arm[p] IN
  IF a.armed \/ a.pending THEN [a EXCEPT !.pending = FALSE, !.disarm = TRUE] ELSE a

Keyed(p, f5) ==
  IF ~f5 THEN arm[p] ELSE IF arm[p].on THEN DisarmAsked(p) ELSE Proposed(p)

MutantLatchKept(a) == IF a.disarm THEN [a EXCEPT !.disarm = FALSE, !.on = FALSE] ELSE a

(* consume_disarm()                                                         *)
Dropped(a) ==
  IF a.disarm THEN [a EXCEPT !.disarm = FALSE, !.armed = FALSE, !.on = FALSE] ELSE a

(* tick_should_arm(): the agreed frame has come.                            *)
Due(p, a) == ~a.on /\ ~a.armed /\ a.pending /\ clock[p] >= a.target

(* F5 without a session, which takes the pending proposal as it stands.     *)
Solo(p, a) == ~a.on /\ ~Due(p, a) /\ a.pending /\ ~running[p]

Landed(p, a, captured) ==
  LET b == IF Due(p, a) THEN [a EXCEPT !.pending = FALSE, !.armed = TRUE] ELSE a
  IN [b EXCEPT !.on = a.on \/ (captured /\ (Due(p, a) \/ Solo(p, a)))]

(* What the pass sends: the proposal of a press, or again after RESEND_MS;  *)
(* the disarm of a press; the timeline an engine that comes on asks for.    *)
FrameSends(p, f5, again, a, comesOn) ==
  (IF a.pending /\ ~a.on /\ (f5 \/ again) THEN {Proposal(p, a.target)} ELSE {})
  \cup (IF f5 /\ arm[p].on /\ (arm[p].armed \/ arm[p].pending) THEN {DisarmNow(p)} ELSE {})
  \cup (IF comesOn THEN {Epoch(p, want'[p])} ELSE {})

Newest(x, y) == IF x > y THEN x ELSE y

(* The bounds of the model on a press.                                      *)
Pressable(p, f5) ==
  f5 => presses < MaxPresses /\ (IF arm[p].on THEN Disarms ELSE running[p] => clock[p] + Lead <= MaxClock)

Frame(p, f5) ==
  /\ Pressable(p, f5)
  /\ \E again \in BOOLEAN, captured \in IF MayRefuse THEN BOOLEAN ELSE {TRUE} :
       LET a  == Dropped(Keyed(p, f5))
           b  == Landed(p, a, captured)
           comesOn == b.on /\ ~a.on
       IN /\ comesOn => Newest(line[p], want[p]) < MaxLine
          /\ arm' = [arm EXCEPT ![p] = b]
          /\ want' = [want EXCEPT ![p] = IF comesOn THEN Newest(line[p], @) + 1 ELSE @]
          /\ net' = net \cup Sent(p, FrameSends(p, f5, again, a, comesOn))
          /\ armedAt' = [armedAt EXCEPT ![p] = IF comesOn THEN [line |-> line[p], frame |-> clock[p]] ELSE @]
          /\ refused' = IF Due(p, a) /\ ~captured THEN refused \cup {p}
                        ELSE IF Keyed(p, f5).disarm THEN refused \ {p} ELSE refused
  /\ presses' = IF f5 THEN presses + 1 ELSE presses
  /\ clock' = [clock EXCEPT ![p] = IF @ < MaxClock THEN @ + 1 ELSE @]
  /\ UNCHANGED <<running, line, late>>

(* Input packets state the wanted timeline all the time (send_input).       *)
StateTimeline(p) ==
  /\ running[p] /\ want[p] > 1
  /\ net' = net \cup {Epoch(p, want[p])}
  /\ UNCHANGED <<arm, running, clock, line, want, presses, armedAt, refused, late>>

----------------------------------------------------------------------------
(* What session_pump hands on.                                              *)

MutantNewestWins(p, t, rest) ==
  /\ LET a == arm[p] IN
     \/ a.armed /\ net' = rest /\ UNCHANGED arm
     \/ /\ ~a.armed
        /\ arm' = [arm EXCEPT ![p].pending = TRUE, ![p].target = t]
        /\ net' = IF a.pending THEN rest ELSE rest \cup {Proposal(p, t)}
  /\ late' = (late \/ (~arm[p].armed /\ clock[p] > t)
                   \/ (arm[p].armed /\ armedAt[p].frame > t))
  /\ UNCHANGED <<clock, line, want>>

MutantPastIgnored(p, t, rest) ==
  /\ LET a == arm[p] IN
     \/ (a.armed \/ a.pending \/ t < clock[p]) /\ net' = rest /\ UNCHANGED arm
     \/ /\ ~a.armed /\ ~a.pending /\ t >= clock[p]
        /\ arm' = [arm EXCEPT ![p].pending = TRUE, ![p].target = t]
        /\ net' = rest \cup {Proposal(p, t)}
  /\ UNCHANGED <<clock, line, want, late>>

(* on_peer_propose()                                                        *)
OnPeerPropose(p, t, rest) ==
  /\ LET a == arm[p] IN
     \/ a.armed /\ net' = rest /\ UNCHANGED arm
     \/ /\ ~a.armed /\ a.pending /\ a.target <= t
        /\ net' \in {rest, rest \cup {Proposal(p, a.target)}}     \* RESEND_MS
        /\ UNCHANGED arm
     \/ /\ ~a.armed /\ ~(a.pending /\ a.target <= t)
        /\ arm' = [arm EXCEPT ![p].pending = TRUE, ![p].target = t]
        /\ net' = rest \cup {Proposal(p, t)}
  /\ late' = (late \/ (~arm[p].armed /\ clock[p] > t)
                   \/ (arm[p].armed /\ armedAt[p].frame > t))
  /\ UNCHANGED <<clock, line, want>>

OnPeerDisarm(p, rest) ==
  /\ arm' = [arm EXCEPT ![p] = DisarmAsked(p)]
  /\ net' = rest
  /\ UNCHANGED <<clock, line, want, late>>

(* on_peer_epoch(), activate_epoch()                                        *)
OnPeerEpoch(p, e, rest) ==
  /\ IF e > line[p]
     THEN /\ line' = [line EXCEPT ![p] = e] /\ want' = [want EXCEPT ![p] = Newest(@, e)]
          /\ clock' = [clock EXCEPT ![p] = 0]
          /\ net' = rest
     ELSE /\ net' = IF want[p] > e THEN rest \cup {Epoch(p, want[p])} ELSE rest
          /\ UNCHANGED <<clock, line, want>>
  /\ UNCHANGED <<arm, late>>

Receive(p, m) ==
  /\ m \in net /\ m.to = p /\ running[p]
  /\ \E rest \in {net \ {m}} \cup (IF Unreliable THEN {net} ELSE {}) :
       \/ m.type = "arm"    /\ OnPeerPropose(p, m.n, rest)
       \/ m.type = "disarm" /\ OnPeerDisarm(p, rest)
       \/ m.type = "epoch"  /\ OnPeerEpoch(p, m.n, rest)
  /\ UNCHANGED <<running, presses, armedAt, refused>>

Lose ==
  /\ Unreliable
  /\ \E m \in net : net' = net \ {m}
  /\ UNCHANGED <<arm, running, clock, line, want, presses, armedAt, refused, late>>

(* session_pump: nothing heard for DISCONNECT_MS.                           *)
Disconnect(p) ==
  /\ MayDrop /\ running[p]
  /\ running' = [running EXCEPT ![p] = FALSE]
  /\ UNCHANGED <<arm, clock, line, want, net, presses, armedAt, refused, late>>

Next ==
  \/ \E p \in Peer, f5 \in BOOLEAN : Frame(p, f5)
  \/ \E p \in Peer : StateTimeline(p) \/ Disconnect(p) \/ \E m \in net : Receive(p, m)
  \/ Lose

(* The main loop turns, and a datagram that is not lost arrives.            *)
Fairness ==
  \A p \in Peer : /\ WF_vars(Frame(p, FALSE))
                  /\ \A m \in Datagram : WF_vars(Receive(p, m))

Spec == Init /\ [][Next]_vars /\ Fairness

----------------------------------------------------------------------------
(* Type correctness.                                                        *)
TypeOK ==
  /\ arm \in [Peer -> [on : BOOLEAN, armed : BOOLEAN, pending : BOOLEAN,
                       target : -1..(MaxClock + Lead), disarm : BOOLEAN]]
  /\ running \in [Peer -> BOOLEAN]
  /\ clock \in [Peer -> 0..MaxClock]
  /\ line \in [Peer -> 1..MaxLine] /\ want \in [Peer -> 1..MaxLine]
  /\ \A p \in Peer : line[p] <= want[p]
  /\ net \subseteq Datagram
  /\ presses \in 0..MaxPresses /\ refused \subseteq Peer /\ late \in BOOLEAN

(* A press with the engine off is never swallowed: the peer that pressed    *)
(* has an arm under way or its engine on, whatever the session did and      *)
(* whatever the peer sent (propose, "must never SWALLOW a press").  Only    *)
(* the latch that a refused baseline leaves set swallows one, and only      *)
(* until a disarm has been through (tick_should_arm, consume_disarm).       *)
PressHasEffect ==
  [][\A p \in Peer \ refused :
       Frame(p, TRUE) /\ ~arm[p].on => arm'[p].on \/ arm'[p].pending \/ p \in refused']_vars

(* With both proposals on time and one timeline, the two engines arm on one *)
(* net-frame, though both players may have pressed (on_peer_propose).       *)
OverdueFor(p) == \E m \in net : m.to = p /\ m.type = "arm" /\ m.n < armedAt[p].frame
SameFrame ==
  (\A p \in Peer : arm[p].on /\ ~OverdueFor(p)) /\ ~late
    => \A p, q \in Peer : armedAt[p].line = armedAt[q].line => armedAt[p].frame = armedAt[q].frame

(* An arm once under way comes on at both peers, or is taken back.          *)
BothArm == \A p \in Peer : arm[p].pending ~> \A q \in Peer : arm[q].on

=============================================================================
