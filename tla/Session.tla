------------------------------ MODULE Session ------------------------------
(***************************************************************************)
(* The connection of two machines in matchmaker mode: the state machine of  *)
(* net_session.cpp over the two paths of net_transport.cpp, the relay and   *)
(* the punched direct path, as far as the frames of hk_main_proc drive it.  *)
(*                                                                         *)
(* Time passes in units of SYNC_RETRY_MS.  In each of them every machine    *)
(* that is up makes its passes of the main loop, in any order, and one      *)
(* stands for all: it drains what has arrived, and its periodic sends are   *)
(* due.  A datagram sent before the receiver's pass has arrived by then, or *)
(* is late.  Instants are kept as ages, in units.                           *)
(***************************************************************************)
EXTENDS Integers, FiniteSets

CONSTANTS
  Peer,             \* the two machines
  NumSync,          \* NUM_SYNC
  DisconnectAfter,  \* DISCONNECT_MS, in units
  StaleAfter,       \* DIRECT_STALE_MS, in units
  HalfOpen,         \* whether the direct path may carry one direction only
  MaxLate,          \* bound of the model: drains that find nothing of what was sent
  MaxFlips          \* bound of the model: changes of the direct path

ASSUME PeerAssumption == IsFiniteSet(Peer) /\ Cardinality(Peer) = 2
ASSUME TimeAssumption ==
  /\ {NumSync, DisconnectAfter, StaleAfter, MaxLate, MaxFlips} \subseteq Nat
  /\ NumSync > 0 /\ 0 < StaleAfter /\ StaleAfter < DisconnectAfter
  /\ HalfOpen \in BOOLEAN

VARIABLES
  state,        \* g_state; "dead" once the process is gone
  nonce,        \* g_sync_nonce: the nonces a peer makes are numbered
  syncOk,       \* g_sync_ok
  silent,       \* age of g_last_recv_ms
  peerRunning,  \* g_peer_running
  announced,    \* g_relay_armed of net_charsel: the timeline has been proposed
  active,       \* g_active of net_input: frames are exchanged
  punching,     \* g_have_peer and allow_direct()
  direct,       \* g_direct
  directAge,    \* age of g_last_direct_ms
  open,         \* per sender: whether the direct path carries its datagrams
  flips,        \* changes of open so far
  net,          \* datagrams in flight
  passed,       \* peers that have made their pass in this unit
  late,         \* drains so far that found nothing
  answered,     \* ghost: nonces of the other peer a peer has answered
  synced        \* ghost: peers that have been RUNNING

sessionVars   == <<state, nonce, syncOk, peerRunning, announced, active>>
transportVars == <<punching, direct>>
vars == <<sessionVars, transportVars, silent, directAge, open, flips, net, passed, late,
          answered, synced>>

Other(p) == CHOOSE q \in Peer : q # p
Up(p)    == state[p] \in {"syncing", "running"}

----------------------------------------------------------------------------
(* net_transport.cpp                                                        *)

MutantLive(p, isDirect, age) == punching[p] /\ isDirect

(* direct_is_live()                                                         *)
Live(p, isDirect, age) == punching[p] /\ isDirect /\ age < StaleAfter

(* transport_send_raw: by the relay until the direct path is live, and      *)
(* straight to the peer whenever its address is known.                      *)
Copies(p, S, live) ==
  {[to |-> Other(p), type |-> s.type, n |-> s.n, path |-> w] :
     s \in S, w \in (IF live THEN {} ELSE {"relay"})
                    \cup (IF punching[p] /\ open[p] THEN {"direct"} ELSE {})}

Message(type) == [type |-> type, n |-> 0]
Request(n)    == [type |-> "syncReq", n |-> n]
Reply(n)      == [type |-> "syncReply", n |-> n]

(* The box has told the peer's address, and punching is allowed: direct.on, *)
(* or the engine is armed.                                                  *)
StartPunch(p) ==
  /\ Up(p) /\ ~punching[p]
  /\ punching' = [punching EXCEPT ![p] = TRUE]
  /\ UNCHANGED <<sessionVars, direct, silent, directAge, open, flips, net, passed, late,
                 answered, synced>>

(* The networks between the two machines change their mind.                 *)
PathChanges ==
  /\ flips < MaxFlips
  /\ open' \in [Peer -> BOOLEAN] \ {open}
  /\ HalfOpen \/ \A p, q \in Peer : open'[p] = open'[q]
  /\ flips' = flips + 1
  /\ UNCHANGED <<sessionVars, transportVars, silent, directAge, net, passed, late,
                 answered, synced>>

----------------------------------------------------------------------------
(* session_init, at both peers.                                             *)
Init ==
  /\ state = [p \in Peer |-> "syncing"] /\ nonce = [p \in Peer |-> 1]
  /\ syncOk = [p \in Peer |-> 0] /\ silent = [p \in Peer |-> 0]
  /\ peerRunning = [p \in Peer |-> FALSE] /\ announced = [p \in Peer |-> FALSE]
  /\ active = [p \in Peer |-> FALSE]
  /\ punching = [p \in Peer |-> FALSE] /\ direct = [p \in Peer |-> FALSE]
  /\ directAge = [p \in Peer |-> StaleAfter] /\ open = [p \in Peer |-> FALSE] /\ flips = 0
  /\ net = {[to |-> p, type |-> "syncReq", n |-> 1, path |-> "relay"] : p \in Peer}
  /\ passed = {} /\ late = 0
  /\ answered = [p \in Peer |-> {}] /\ synced = {}

----------------------------------------------------------------------------
(* The drain of session_pump: In is what has arrived for p.                 *)

In(p) == {m \in net : m.to = p}

Heard(p, in, types) == \E m \in in : m.type \in types

(* A reply that echoes the nonce in force counts; the last one completes    *)
(* the handshake, the others open a round with another nonce.               *)
Counts(p, in) == state[p] = "syncing" /\ \E m \in in : m.type = "syncReply" /\ m.n = nonce[p]

Synced(p, in) == Counts(p, in) /\ syncOk[p] + 1 >= NumSync

MutantNextNonce(p, in) == nonce[p]

NextNonce(p, in) == IF Counts(p, in) /\ ~Synced(p, in) THEN nonce[p] + 1 ELSE nonce[p]

Answers(p, in) == {Reply(m.n) : m \in {r \in in : r.type = "syncReq"}}

(* The state the timers find.                                               *)
Drained(p, in) == IF Synced(p, in) THEN "running" ELSE state[p]

----------------------------------------------------------------------------
(* The rest of a pass of hk_main_proc: the timers of session_pump, the      *)
(* proposal of net_charsel, and the frame's input packet.                   *)

MutantTimerSends(p, in) == IF Drained(p, in) = "syncing" THEN {} ELSE {Message("keepalive")}

TimerSends(p, in) ==
  IF Drained(p, in) = "syncing" THEN {Request(NextNonce(p, in))} ELSE {Message("keepalive")}

FrameSends(p, in) ==
  (IF Drained(p, in) = "running" /\ ~announced[p] THEN {Message("epoch")} ELSE {})
  \cup (IF active[p] \/ Heard(p, in, {"input", "epoch"}) THEN {Message("input")} ELSE {})

MutantSilence(p, in) == 0

Silence(p, in) == IF in = {} THEN silent[p] ELSE 0

TimedOut(p, in) == Drained(p, in) = "running" /\ Silence(p, in) >= DisconnectAfter

(* The pass of a session that stays up.                                     *)
Continue(p, in, rest) ==
  LET fresh    == \E m \in in : m.path = "direct" /\ punching[p]
      age      == IF fresh THEN 0 ELSE directAge[p]
      live     == Live(p, direct[p] \/ fresh, age)
  IN /\ ~TimedOut(p, in)
     /\ net' = rest \cup Copies(p, Answers(p, in) \cup TimerSends(p, in) \cup FrameSends(p, in), live)
     /\ state' = [state EXCEPT ![p] = Drained(p, in)]
     /\ syncOk' = [syncOk EXCEPT ![p] = IF Counts(p, in) THEN @ + 1 ELSE @]
     /\ nonce' = [nonce EXCEPT ![p] = NextNonce(p, in)]
     /\ silent' = [silent EXCEPT ![p] = Silence(p, in)]
     /\ peerRunning' = [peerRunning EXCEPT ![p] = @ \/ Heard(p, in, {"input", "keepalive"})]
     /\ active' = [active EXCEPT ![p] = @ \/ Heard(p, in, {"input", "epoch"})]
     /\ announced' = [announced EXCEPT ![p] = @ \/ Drained(p, in) = "running"]
     /\ direct' = [direct EXCEPT ![p] = live] /\ directAge' = [directAge EXCEPT ![p] = age]
     /\ UNCHANGED punching

(* DISCONNECTED: the socket is closed, and nothing opens it again.          *)
GiveUp(p, in) ==
  /\ TimedOut(p, in)
  /\ net' = net \cup Copies(p, TimerSends(p, in), Live(p, direct[p], directAge[p]))
  /\ state' = [state EXCEPT ![p] = "disconnected"]
  /\ peerRunning' = [peerRunning EXCEPT ![p] = FALSE]
  /\ punching' = [punching EXCEPT ![p] = FALSE] /\ direct' = [direct EXCEPT ![p] = FALSE]
  /\ announced' = [announced EXCEPT ![p] = FALSE]
  /\ UNCHANGED <<nonce, syncOk, silent, active, directAge>>

(* What was sent has arrived; or, a bounded number of times, none of it     *)
(* has, and it comes later or not at all.                                   *)
Arrived(p, in) ==
  \/ in = In(p) /\ late' = late
  \/ in = {} /\ In(p) # {} /\ late < MaxLate /\ late' = late + 1

Pass(p) ==
  /\ Up(p) /\ p \notin passed
  /\ \E in \in {In(p), {}} :
       /\ Arrived(p, in)
       /\ \/ \E rest \in {net \ in, net \ In(p)} : Continue(p, in, rest)
          \/ GiveUp(p, in)
       /\ answered' = [answered EXCEPT ![p] = @ \cup {m.n : m \in {r \in in : r.type = "syncReq"}}]
       /\ synced' = IF Synced(p, in) THEN synced \cup {p} ELSE synced
  /\ passed' = passed \cup {p}
  /\ UNCHANGED <<open, flips>>

----------------------------------------------------------------------------
(* The process ends, or is killed.                                          *)
Die(p) ==
  /\ Up(p)
  /\ state' = [state EXCEPT ![p] = "dead"]
  /\ UNCHANGED <<nonce, syncOk, peerRunning, announced, active, transportVars, silent,
                 directAge, open, flips, net, passed, late, answered, synced>>

Older(age, most) == IF age < most THEN age + 1 ELSE age

Tick ==
  /\ \A p \in Peer : Up(p) => p \in passed
  /\ passed' = {}
  /\ net' = {m \in net : Up(m.to)}
  /\ silent' = [p \in Peer |-> IF Up(p) THEN Older(silent[p], DisconnectAfter) ELSE 0]
  /\ directAge' = [p \in Peer |-> Older(directAge[p], StaleAfter)]
  /\ UNCHANGED <<sessionVars, transportVars, open, flips, late, answered, synced>>

Next ==
  \/ \E p \in Peer : Pass(p) \/ StartPunch(p) \/ Die(p)
  \/ PathChanges
  \/ Tick

(* The main loops turn, and time passes.                                    *)
Fairness ==
  /\ WF_vars(Tick)
  /\ \A p \in Peer : WF_vars(Pass(p))

Spec == Init /\ [][Next]_vars /\ Fairness

----------------------------------------------------------------------------
Datagram ==
  [to : Peer, type : {"syncReq", "syncReply", "keepalive", "epoch", "input"},
   n : 0..NumSync, path : {"relay", "direct"}]

(* Type correctness.                                                        *)
TypeOK ==
  /\ state \in [Peer -> {"syncing", "running", "disconnected", "dead"}]
  /\ nonce \in [Peer -> 1..NumSync] /\ syncOk \in [Peer -> 0..NumSync]
  /\ silent \in [Peer -> 0..DisconnectAfter] /\ directAge \in [Peer -> 0..StaleAfter]
  /\ {peerRunning, announced, active, punching, direct, open} \subseteq [Peer -> BOOLEAN]
  /\ \A p \in Peer : direct[p] => punching[p]
  /\ flips \in 0..MaxFlips /\ late \in 0..MaxLate /\ passed \subseteq Peer
  /\ net \subseteq Datagram
  /\ answered \in [Peer -> SUBSET (1..NumSync)] /\ synced \subseteq Peer

(* RUNNING is earned: the peer has answered that many requests of this      *)
(* handshake, however often one was repeated or reached it twice            *)
(* (MSG_SYNC_REPLY in session_pump).                                        *)
SyncedByPeer ==
  \A p \in Peer : state[p] = "running" => Cardinality(answered[Other(p)]) >= NumSync

(* Only the end of the peer's process takes a session down: no change of    *)
(* the direct path does, nor do a few units that deliver nothing            *)
(* (direct_is_live, and the timeout at the end of session_pump).            *)
StaysUp == \A p \in Peer : state[p] = "disconnected" => state[Other(p)] = "dead"

(* A peer that is gone is noticed by one that was RUNNING.                  *)
DeathNoticed ==
  \A p \in Peer : (state[p] = "running" /\ state[Other(p)] = "dead") ~> ~Up(p)

(* The handshake completes, over late and lost datagrams, while the peer is *)
(* there to answer.                                                         *)
SyncCompletes ==
  \A p \in Peer : state[p] = "syncing" ~> (p \in synced \/ state[p] = "dead" \/ state[Other(p)] = "dead")
=============================================================================
