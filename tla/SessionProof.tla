----------------------------- MODULE SessionProof -----------------------------
(***************************************************************************)
(* Proofs about Session, for any number of rounds of the handshake and any  *)
(* time-outs: the types, and that a peer that is RUNNING has been answered  *)
(* by the other one in every round.  And that of two peers that are there   *)
(* neither gives up, for any time-outs that outlast what the network does.  *)
(***************************************************************************)
EXTENDS Session, FiniteSetTheorems, TLAPS

----------------------------------------------------------------------------
LEMMA TwoPeers ==
  \A p \in Peer : Other(p) \in Peer /\ Other(p) # p /\ Other(Other(p)) = p
<1> SUFFICES ASSUME NEW p \in Peer PROVE Other(p) \in Peer /\ Other(p) # p /\ Other(Other(p)) = p
  OBVIOUS
<1>1. IsFiniteSet(Peer \ {p}) /\ Cardinality(Peer \ {p}) = 1
  <2>1. Cardinality(Peer \ {p}) = Cardinality(Peer) - 1 /\ IsFiniteSet(Peer \ {p})
    BY PeerAssumption, FS_RemoveElement
  <2> QED BY <2>1, PeerAssumption
<1>2. PICK q : Peer \ {p} = {q}
  BY <1>1, FS_Singleton
<1>3. q \in Peer /\ q # p /\ \A r \in Peer : r = p \/ r = q
  BY <1>2
<1>4. \A r : r \in Peer /\ r # p <=> r = q
  BY <1>3
<1>5. Other(p) = q
  BY <1>4 DEF Other
<1>6. Other(q) = p
  BY <1>3 DEF Other
<1> QED BY <1>3, <1>5, <1>6

LEMMA SizesAreNat ==
  /\ NumSync \in Nat /\ DisconnectAfter \in Nat /\ StaleAfter \in Nat
  /\ MaxLate \in Nat /\ MaxFlips \in Nat /\ 0 < NumSync
BY TimeAssumption

----------------------------------------------------------------------------
(* The inductive invariant.                                                 *)

(* While the handshake goes on the nonce in force is one beyond the rounds  *)
(* answered; a session is RUNNING after all of them.                        *)
RoundsCounted ==
  \A p \in Peer : /\ state[p] = "syncing" => nonce[p] = syncOk[p] + 1 /\ syncOk[p] < NumSync
                  /\ state[p] = "running" => syncOk[p] = NumSync

(* A round counted was answered by the other peer, and so was whatever a    *)
(* reply in flight echoes.                                                  *)
RoundsAnswered ==
  /\ \A p \in Peer : \A n \in 1..syncOk[p] : n \in answered[Other(p)]
  /\ \A m \in net : m.type = "syncReply" => m.n \in answered[Other(m.to)]

RequestsTyped == \A m \in net : m.type = "syncReq" => m.n \in 1..NumSync

SessionInv == TypeOK /\ RequestsTyped /\ RoundsCounted /\ RoundsAnswered

----------------------------------------------------------------------------
(* What a pass sends.                                                       *)

LEMMA NonceTyped ==
  ASSUME SessionInv, NEW p \in Peer, NEW in
  PROVE  NextNonce(p, in) \in 1..NumSync
<1>1. nonce[p] \in 1..NumSync
  BY DEF SessionInv, TypeOK
<1>2. CASE Counts(p, in) /\ ~Synced(p, in)
  <2>1. nonce[p] = syncOk[p] + 1 /\ syncOk[p] \in Nat
    BY <1>2 DEF Counts, SessionInv, RoundsCounted, TypeOK
  <2>2. ~(syncOk[p] + 1 >= NumSync)
    BY <1>2 DEF Synced
  <2> QED BY <1>2, <2>1, <2>2, SizesAreNat DEF NextNonce
<1> QED BY <1>1, <1>2 DEF NextNonce

(* Each datagram of a pass is a datagram to the other peer; a request of    *)
(* its carries a nonce of this handshake, and a reply echoes a request that *)
(* has arrived.                                                             *)
SendsOf(p, in, m) ==
  /\ m \in Datagram /\ m.to = Other(p)
  /\ m.type = "syncReq" => m.n \in 1..NumSync
  /\ m.type = "syncReply" => \E r \in in : r.type = "syncReq" /\ r.n = m.n

LEMMA PassSends ==
  ASSUME SessionInv, NEW p \in Peer, NEW in \in SUBSET net, NEW live,
         NEW m \in Copies(p, Answers(p, in) \cup TimerSends(p, in) \cup FrameSends(p, in), live)
  PROVE  SendsOf(p, in, m)
<1>1. PICK s \in Answers(p, in) \cup TimerSends(p, in) \cup FrameSends(p, in) :
        \E w \in {"relay", "direct"} : m = [to |-> Other(p), type |-> s.type, n |-> s.n, path |-> w]
  BY DEF Copies
<1>2. Other(p) \in Peer
  BY TwoPeers
<1>3. CASE s \in Answers(p, in)
  <2>1. PICK r \in in : r.type = "syncReq" /\ s = [type |-> "syncReply", n |-> r.n]
    BY <1>3 DEF Answers, Reply
  <2>2. r.n \in 1..NumSync
    BY <2>1 DEF SessionInv, RequestsTyped
  <2>3. r.n \in 0..NumSync
    BY <2>2, SizesAreNat
  <2> QED BY <1>1, <1>2, <2>1, <2>3 DEF SendsOf, Datagram
<1>4. CASE s \in TimerSends(p, in)
  <2>1. \/ s = [type |-> "syncReq", n |-> NextNonce(p, in)]
        \/ s = [type |-> "keepalive", n |-> 0]
    BY <1>4 DEF TimerSends, Request, Message
  <2>2. NextNonce(p, in) \in 1..NumSync /\ NextNonce(p, in) \in 0..NumSync /\ 0 \in 0..NumSync
    BY NonceTyped, SizesAreNat
  <2> QED BY <1>1, <1>2, <2>1, <2>2 DEF SendsOf, Datagram
<1>5. CASE s \in FrameSends(p, in)
  <2>1. s = [type |-> "epoch", n |-> 0] \/ s = [type |-> "input", n |-> 0]
    BY <1>5 DEF FrameSends, Message
  <2>2. 0 \in 0..NumSync
    BY SizesAreNat
  <2> QED BY <1>1, <1>2, <2>1, <2>2 DEF SendsOf, Datagram
<1> QED BY <1>1, <1>3, <1>4, <1>5

LEMMA GiveUpSends ==
  ASSUME SessionInv, NEW p \in Peer, NEW in \in SUBSET net, NEW live,
         NEW m \in Copies(p, TimerSends(p, in), live)
  PROVE  SendsOf(p, in, m)
<1>1. m \in Copies(p, Answers(p, in) \cup TimerSends(p, in) \cup FrameSends(p, in), live)
  BY DEF Copies
<1> QED BY <1>1, PassSends

(* How a pass leaves the handshake and the datagrams.                       *)
LEMMA PassIs ==
  ASSUME SessionInv, NEW p \in Peer, Pass(p)
  PROVE  \E in \in SUBSET net :
           /\ \A m \in in : m.to = p
           /\ answered' = [answered EXCEPT ![p] = @ \cup {m.n : m \in {r \in in : r.type = "syncReq"}}]
           /\ synced' = IF Synced(p, in) THEN synced \cup {p} ELSE synced
           /\ passed' = passed \cup {p}
           /\ late' = late \/ (late < MaxLate /\ late' = late + 1)
           /\ \A m \in net' : m \in net \/ SendsOf(p, in, m)
           /\ (\E rest : Continue(p, in, rest)) \/ GiveUp(p, in)
           /\ UNCHANGED <<open, flips>>
<1>1. PICK in \in {In(p), {}} :
       /\ Arrived(p, in)
       /\ \/ \E rest \in {net \ in, net \ In(p)} : Continue(p, in, rest)
          \/ GiveUp(p, in)
       /\ answered' = [answered EXCEPT ![p] = @ \cup {m.n : m \in {r \in in : r.type = "syncReq"}}]
       /\ synced' = IF Synced(p, in) THEN synced \cup {p} ELSE synced
  BY DEF Pass
<1>2. in \in SUBSET net /\ \A m \in in : m.to = p
  BY DEF In
<1>3. late' = late \/ (late < MaxLate /\ late' = late + 1)
  BY <1>1 DEF Arrived
<1>4. ASSUME NEW m \in net' PROVE m \in net \/ SendsOf(p, in, m)
  <2>1. CASE \E rest \in {net \ in, net \ In(p)} : Continue(p, in, rest)
    <3>1. PICK rest \in {net \ in, net \ In(p)} : Continue(p, in, rest)
      BY <2>1
    <3>2. \E live :
            net' = rest \cup Copies(p, Answers(p, in) \cup TimerSends(p, in) \cup FrameSends(p, in), live)
      BY <3>1 DEF Continue
    <3> QED BY <1>2, <3>2, PassSends
  <2>2. CASE GiveUp(p, in)
    <3>1. \E live : net' = net \cup Copies(p, TimerSends(p, in), live)
      BY <2>2 DEF GiveUp
    <3> QED BY <1>2, <3>1, GiveUpSends
  <2> QED BY <1>1, <2>1, <2>2
<1>5. (\E rest : Continue(p, in, rest)) \/ GiveUp(p, in)
  BY <1>1
<1>6. passed' = passed \cup {p} /\ UNCHANGED <<open, flips>>
  BY DEF Pass
<1> QED BY <1>1, <1>2, <1>3, <1>4, <1>5, <1>6

----------------------------------------------------------------------------
(* The invariant is kept: the rounds by a pass, the rest by every step.     *)

LEMMA PassRounds ==
  ASSUME SessionInv, NEW p \in Peer, Pass(p)
  PROVE  /\ RoundsCounted'
         /\ RoundsAnswered' /\ RequestsTyped'
         /\ state' \in [Peer -> {"syncing", "running", "disconnected", "dead"}]
         /\ syncOk' \in [Peer -> 0..NumSync] /\ nonce' \in [Peer -> 1..NumSync]
         /\ answered' \in [Peer -> SUBSET (1..NumSync)] /\ net' \subseteq Datagram
<1>1. PICK in \in SUBSET net :
        /\ \A m \in in : m.to = p
        /\ answered' = [answered EXCEPT ![p] = @ \cup {m.n : m \in {r \in in : r.type = "syncReq"}}]
        /\ \A m \in net' : m \in net \/ SendsOf(p, in, m)
        /\ (\E rest : Continue(p, in, rest)) \/ GiveUp(p, in)
  BY PassIs
<1>2. /\ state \in [Peer -> {"syncing", "running", "disconnected", "dead"}]
      /\ syncOk \in [Peer -> 0..NumSync] /\ nonce \in [Peer -> 1..NumSync]
      /\ answered \in [Peer -> SUBSET (1..NumSync)] /\ net \subseteq Datagram
  BY DEF SessionInv, TypeOK
<1>3. \A n \in {m.n : m \in {r \in in : r.type = "syncReq"}} : n \in 1..NumSync
  BY DEF SessionInv, RequestsTyped
<1>4. answered' \in [Peer -> SUBSET (1..NumSync)]
  BY <1>1, <1>2, <1>3
<1>5. \A q \in Peer : answered[q] \subseteq answered'[q]
  BY <1>1, <1>2
<1>6. \A r \in in : r.type = "syncReq" => r.n \in answered'[p]
  BY <1>1, <1>2
<1>7. net' \subseteq Datagram /\ RequestsTyped'
  BY <1>1, <1>2 DEF SendsOf, SessionInv, RequestsTyped
<1>8. ASSUME NEW m \in net', m.type = "syncReply" PROVE m.n \in answered'[Other(m.to)]
  <2>1. CASE m \in net
    <3>1. m.n \in answered[Other(m.to)] /\ m.to \in Peer
      BY <1>2, <1>8, <2>1 DEF SessionInv, RoundsAnswered, Datagram
    <3> QED BY <1>5, <3>1, TwoPeers
  <2>2. CASE SendsOf(p, in, m)
    BY <1>6, <1>8, <2>2, TwoPeers DEF SendsOf
  <2> QED BY <1>1, <2>1, <2>2
<1>9. CASE \E rest : Continue(p, in, rest)
  <2>1. /\ state' = [state EXCEPT ![p] = Drained(p, in)]
        /\ syncOk' = [syncOk EXCEPT ![p] = IF Counts(p, in) THEN @ + 1 ELSE @]
        /\ nonce' = [nonce EXCEPT ![p] = NextNonce(p, in)]
    BY <1>9 DEF Continue
  <2>2. NextNonce(p, in) \in 1..NumSync
    BY NonceTyped
  <2>3. nonce' \in [Peer -> 1..NumSync]
    BY <1>2, <2>1, <2>2
  <2>4. Drained(p, in) \in {"syncing", "running", "disconnected", "dead"}
    BY <1>2 DEF Drained
  <2>5. state' \in [Peer -> {"syncing", "running", "disconnected", "dead"}]
    BY <1>2, <2>1, <2>4
  <2>6. Counts(p, in) =>
          /\ state[p] = "syncing" /\ nonce[p] = syncOk[p] + 1 /\ syncOk[p] < NumSync
          /\ \E m \in net : m.type = "syncReply" /\ m.to = p /\ m.n = nonce[p]
    BY <1>1 DEF Counts, SessionInv, RoundsCounted
  <2>7. syncOk' \in [Peer -> 0..NumSync]
    <3>1. syncOk[p] \in Nat /\ syncOk[p] <= NumSync
      BY <1>2, SizesAreNat
    <3>2. (IF Counts(p, in) THEN syncOk[p] + 1 ELSE syncOk[p]) \in 0..NumSync
      BY <2>6, <3>1, SizesAreNat
    <3> QED BY <1>2, <2>1, <3>2
  <2>8. ASSUME NEW q \in Peer, NEW n \in 1..syncOk'[q] PROVE n \in answered'[Other(q)]
    <3>1. Other(q) \in Peer /\ syncOk[q] \in Nat
      BY <1>2, TwoPeers
    <3>2. CASE n \in 1..syncOk[q]
      BY <1>5, <3>1, <3>2 DEF SessionInv, RoundsAnswered
    <3>3. CASE n \notin 1..syncOk[q]
      <4>1. q = p /\ Counts(p, in) /\ n = nonce[p]
        <5>1. q = p /\ Counts(p, in)
          BY <1>2, <2>1, <3>3
        <5>2. syncOk'[q] = syncOk[q] + 1
          BY <1>2, <2>1, <5>1
        <5> QED BY <2>6, <3>1, <3>3, <5>1, <5>2
      <4>2. nonce[p] \in answered[Other(p)]
        BY <2>6, <4>1 DEF SessionInv, RoundsAnswered
      <4> QED BY <1>5, <3>1, <4>1, <4>2
    <3> QED BY <3>2, <3>3
  <2>9. RoundsCounted'
    <3> SUFFICES ASSUME NEW q \in Peer
                 PROVE  /\ state'[q] = "syncing" => nonce'[q] = syncOk'[q] + 1 /\ syncOk'[q] < NumSync
                        /\ state'[q] = "running" => syncOk'[q] = NumSync
      BY DEF RoundsCounted
    <3>1. CASE q # p
      BY <1>2, <2>1, <3>1 DEF SessionInv, RoundsCounted
    <3>2. CASE q = p /\ ~Counts(p, in)
      <4>1. state'[p] = state[p] /\ syncOk'[p] = syncOk[p] /\ nonce'[p] = nonce[p]
        BY <1>2, <2>1, <3>2 DEF Drained, Synced, NextNonce
      <4> QED BY <3>2, <4>1 DEF SessionInv, RoundsCounted
    <3>3. CASE q = p /\ Counts(p, in) /\ Synced(p, in)
      <4>1. state'[p] = "running" /\ syncOk'[p] = syncOk[p] + 1
        BY <1>2, <2>1, <3>3 DEF Drained
      <4>2. syncOk[p] + 1 >= NumSync /\ syncOk[p] \in Nat
        BY <1>2, <3>3 DEF Synced
      <4>3. syncOk'[p] = NumSync
        BY <2>6, <3>3, <4>1, <4>2, SizesAreNat
      <4> QED BY <3>3, <4>1, <4>3
    <3>4. CASE q = p /\ Counts(p, in) /\ ~Synced(p, in)
      <4>1. state'[p] = state[p] /\ syncOk'[p] = syncOk[p] + 1 /\ nonce'[p] = nonce[p] + 1
        BY <1>2, <2>1, <3>4 DEF Drained, NextNonce
      <4>2. ~(syncOk[p] + 1 >= NumSync) /\ syncOk[p] \in Nat
        BY <1>2, <3>4 DEF Synced
      <4>3. state[p] = "syncing" /\ nonce[p] = syncOk[p] + 1
        BY <2>6, <3>4
      <4>4. nonce'[p] = syncOk'[p] + 1 /\ syncOk'[p] < NumSync
        BY <4>1, <4>2, <4>3, SizesAreNat
      <4>5. state'[p] # "running"
        BY <4>1, <4>3
      <4> QED BY <3>4, <4>4, <4>5
    <3> QED BY <3>1, <3>2, <3>3, <3>4
  <2> QED BY <1>4, <1>7, <1>8, <2>3, <2>5, <2>7, <2>8, <2>9 DEF RoundsAnswered
<1>10. CASE GiveUp(p, in)
  <2>1. state' = [state EXCEPT ![p] = "disconnected"] /\ UNCHANGED <<nonce, syncOk>>
    BY <1>10 DEF GiveUp
  <2>2. RoundsCounted'
    BY <1>2, <2>1 DEF SessionInv, RoundsCounted
  <2>3. \A q \in Peer : \A n \in 1..syncOk'[q] : n \in answered'[Other(q)]
    BY <1>5, <2>1, TwoPeers DEF SessionInv, RoundsAnswered
  <2> QED BY <1>2, <1>4, <1>7, <1>8, <2>1, <2>2, <2>3 DEF RoundsAnswered
<1> QED BY <1>1, <1>9, <1>10

LEMMA FlagSet ==
  ASSUME NEW f \in [Peer -> BOOLEAN], NEW p \in Peer, NEW b \in BOOLEAN
  PROVE  [f EXCEPT ![p] = b] \in [Peer -> BOOLEAN] /\ f[p] \in BOOLEAN
OBVIOUS

LEMMA AgeSet ==
  ASSUME NEW most \in Nat, NEW f \in [Peer -> 0..most], NEW p \in Peer, NEW a \in 0..most
  PROVE  [f EXCEPT ![p] = a] \in [Peer -> 0..most] /\ f[p] \in 0..most
OBVIOUS

LEMMA FlagsTyped ==
  TypeOK => /\ peerRunning \in [Peer -> BOOLEAN] /\ announced \in [Peer -> BOOLEAN]
            /\ active \in [Peer -> BOOLEAN] /\ punching \in [Peer -> BOOLEAN]
            /\ direct \in [Peer -> BOOLEAN] /\ open \in [Peer -> BOOLEAN]
BY DEF TypeOK

(* The flags and ages of the session after a pass.                          *)
LEMMA ContinueTyped ==
  ASSUME TypeOK, NEW p \in Peer, NEW in, NEW rest, Continue(p, in, rest)
  PROVE  /\ peerRunning' \in [Peer -> BOOLEAN] /\ announced' \in [Peer -> BOOLEAN]
         /\ active' \in [Peer -> BOOLEAN] /\ punching' \in [Peer -> BOOLEAN]
         /\ direct' \in [Peer -> BOOLEAN] /\ \A q \in Peer : direct'[q] => punching'[q]
         /\ silent' \in [Peer -> 0..DisconnectAfter] /\ directAge' \in [Peer -> 0..StaleAfter]
<1> USE FlagsTyped
<1> DEFINE heard   == peerRunning[p] \/ Heard(p, in, {"input", "keepalive"})
           playing == active[p] \/ Heard(p, in, {"input", "epoch"})
           said    == announced[p] \/ Drained(p, in) = "running"
           fresh   == \E m \in in : m.path = "direct" /\ punching[p]
           age     == IF fresh THEN 0 ELSE directAge[p]
           live    == Live(p, direct[p] \/ fresh, age)
<1>1. /\ peerRunning' = [peerRunning EXCEPT ![p] = heard]
      /\ active' = [active EXCEPT ![p] = playing]
      /\ announced' = [announced EXCEPT ![p] = said]
      /\ direct' = [direct EXCEPT ![p] = live] /\ directAge' = [directAge EXCEPT ![p] = age]
      /\ silent' = [silent EXCEPT ![p] = Silence(p, in)] /\ punching' = punching
  BY DEF Continue
<1>2. heard \in BOOLEAN /\ playing \in BOOLEAN /\ said \in BOOLEAN /\ live \in BOOLEAN
  BY DEF Heard, Live
<1>3. live => punching[p]
  BY DEF Live
<1>4. silent \in [Peer -> 0..DisconnectAfter] /\ directAge \in [Peer -> 0..StaleAfter]
  BY DEF TypeOK
<1>5. age \in 0..StaleAfter /\ Silence(p, in) \in 0..DisconnectAfter
  BY <1>4, SizesAreNat DEF Silence
<1>6. \A q \in Peer : direct[q] => punching[q]
  BY DEF TypeOK
<1> HIDE DEF heard, playing, said, age, live
<1>7. peerRunning' \in [Peer -> BOOLEAN] /\ active' \in [Peer -> BOOLEAN]
  BY <1>1, <1>2, FlagSet
<1>8. announced' \in [Peer -> BOOLEAN] /\ direct' \in [Peer -> BOOLEAN]
  BY <1>1, <1>2, FlagSet
<1>9. silent' \in [Peer -> 0..DisconnectAfter] /\ directAge' \in [Peer -> 0..StaleAfter]
  BY <1>1, <1>4, <1>5, AgeSet, SizesAreNat
<1>10. ASSUME NEW q \in Peer, direct'[q] PROVE punching'[q]
  <2>1. CASE q = p
    BY <1>1, <1>3, <1>10, <2>1
  <2>2. CASE q # p
    BY <1>1, <1>6, <1>10, <2>2
  <2> QED BY <2>1, <2>2
<1> QED BY <1>1, <1>7, <1>8, <1>9, <1>10

LEMMA GiveUpTyped ==
  ASSUME TypeOK, NEW p \in Peer, NEW in, GiveUp(p, in)
  PROVE  /\ peerRunning' \in [Peer -> BOOLEAN] /\ announced' \in [Peer -> BOOLEAN]
         /\ active' \in [Peer -> BOOLEAN] /\ punching' \in [Peer -> BOOLEAN]
         /\ direct' \in [Peer -> BOOLEAN] /\ \A q \in Peer : direct'[q] => punching'[q]
         /\ silent' \in [Peer -> 0..DisconnectAfter] /\ directAge' \in [Peer -> 0..StaleAfter]
<1> USE FlagsTyped
<1>1. /\ peerRunning' = [peerRunning EXCEPT ![p] = FALSE]
      /\ punching' = [punching EXCEPT ![p] = FALSE] /\ direct' = [direct EXCEPT ![p] = FALSE]
      /\ announced' = [announced EXCEPT ![p] = FALSE]
      /\ UNCHANGED <<silent, active, directAge>>
  BY DEF GiveUp
<1>2. \A q \in Peer : direct[q] => punching[q]
  BY DEF TypeOK
<1>3. \A q \in Peer : direct'[q] => punching'[q]
  BY <1>1, <1>2
<1>4. peerRunning' \in [Peer -> BOOLEAN] /\ punching' \in [Peer -> BOOLEAN]
  BY <1>1, FlagSet
<1>5. direct' \in [Peer -> BOOLEAN] /\ announced' \in [Peer -> BOOLEAN]
  BY <1>1, FlagSet
<1> QED BY <1>1, <1>3, <1>4, <1>5 DEF TypeOK

LEMMA PassKept ==
  ASSUME SessionInv, NEW p \in Peer, Pass(p)
  PROVE  SessionInv'
<1>1. PICK in \in SUBSET net :
        /\ synced' = IF Synced(p, in) THEN synced \cup {p} ELSE synced
        /\ passed' = passed \cup {p}
        /\ late' = late \/ (late < MaxLate /\ late' = late + 1)
        /\ (\E rest : Continue(p, in, rest)) \/ GiveUp(p, in)
        /\ UNCHANGED <<open, flips>>
  BY PassIs
<1>2. TypeOK
  BY DEF SessionInv
<1>3. /\ peerRunning' \in [Peer -> BOOLEAN] /\ announced' \in [Peer -> BOOLEAN]
      /\ active' \in [Peer -> BOOLEAN] /\ punching' \in [Peer -> BOOLEAN]
      /\ direct' \in [Peer -> BOOLEAN] /\ \A q \in Peer : direct'[q] => punching'[q]
      /\ silent' \in [Peer -> 0..DisconnectAfter] /\ directAge' \in [Peer -> 0..StaleAfter]
  BY <1>1, <1>2, ContinueTyped, GiveUpTyped
<1>4. open' \in [Peer -> BOOLEAN] /\ flips' \in 0..MaxFlips /\ synced' \subseteq Peer /\ passed' \subseteq Peer
  BY <1>1, <1>2 DEF TypeOK
<1>5. late' \in 0..MaxLate
  BY <1>1, <1>2, SizesAreNat DEF TypeOK
<1>6. /\ RoundsCounted' /\ RoundsAnswered' /\ RequestsTyped'
      /\ state' \in [Peer -> {"syncing", "running", "disconnected", "dead"}]
      /\ syncOk' \in [Peer -> 0..NumSync] /\ nonce' \in [Peer -> 1..NumSync]
      /\ answered' \in [Peer -> SUBSET (1..NumSync)] /\ net' \subseteq Datagram
  BY PassRounds
<1>7. TypeOK'
  BY <1>3, <1>4, <1>5, <1>6 DEF TypeOK
<1> QED BY <1>6, <1>7 DEF SessionInv

LEMMA DieKept ==
  ASSUME SessionInv, NEW p \in Peer, Die(p)
  PROVE  SessionInv'
<1>1. /\ state' = [state EXCEPT ![p] = "dead"]
      /\ UNCHANGED <<nonce, syncOk, peerRunning, announced, active, punching, direct, silent,
                 directAge, open, flips, net, passed, late, answered, synced>>
  BY DEF Die, transportVars
<1>2. TypeOK'
  BY <1>1 DEF SessionInv, TypeOK
<1>3. RoundsCounted'
  <2>1. state \in [Peer -> {"syncing", "running", "disconnected", "dead"}]
    BY DEF SessionInv, TypeOK
  <2> QED BY <1>1, <2>1 DEF SessionInv, RoundsCounted
<1>4. RoundsAnswered' /\ RequestsTyped'
  BY <1>1 DEF SessionInv, RoundsAnswered, RequestsTyped
<1> QED BY <1>2, <1>3, <1>4 DEF SessionInv

(* The steps of the networks and of time leave the handshake alone.         *)
LEMMA OthersKept ==
  ASSUME SessionInv,
         (\E p \in Peer : StartPunch(p)) \/ PathChanges \/ Tick \/ UNCHANGED vars
  PROVE  SessionInv'
<1> USE FlagsTyped DEF SessionInv
<1>1. UNCHANGED <<state, nonce, syncOk, answered>> /\ net' \subseteq net
  BY DEF StartPunch, PathChanges, Tick, vars, sessionVars
<1>2. RoundsCounted' /\ RoundsAnswered' /\ RequestsTyped'
  BY <1>1 DEF RoundsCounted, RoundsAnswered, RequestsTyped
<1>3. /\ state' \in [Peer -> {"syncing", "running", "disconnected", "dead"}]
      /\ syncOk' \in [Peer -> 0..NumSync] /\ nonce' \in [Peer -> 1..NumSync]
      /\ answered' \in [Peer -> SUBSET (1..NumSync)] /\ net' \subseteq Datagram
  BY <1>1 DEF TypeOK
<1>4. CASE \E p \in Peer : StartPunch(p)
  <2>1. PICK p \in Peer : StartPunch(p)
    BY <1>4
  <2>2. /\ punching' = [punching EXCEPT ![p] = TRUE]
        /\ UNCHANGED <<peerRunning, announced, active, direct, silent, directAge, open, flips,
                       passed, late, synced>>
    BY <2>1 DEF StartPunch, sessionVars
  <2>3. punching' \in [Peer -> BOOLEAN]
    BY <2>2, FlagSet
  <2>4. \A q \in Peer : direct'[q] => punching'[q]
    BY <2>2 DEF TypeOK
  <2>5. TypeOK'
    BY <1>3, <2>2, <2>3, <2>4 DEF TypeOK
  <2> QED BY <1>2, <2>5
<1>5. CASE PathChanges
  <2>1. /\ open' \in [Peer -> BOOLEAN] /\ flips < MaxFlips /\ flips' = flips + 1
        /\ UNCHANGED <<peerRunning, announced, active, punching, direct, silent, directAge,
                       passed, late, synced>>
    BY <1>5 DEF PathChanges, sessionVars, transportVars
  <2>2. flips' \in 0..MaxFlips
    BY <2>1, SizesAreNat DEF TypeOK
  <2>3. TypeOK'
    BY <1>3, <2>1, <2>2 DEF TypeOK
  <2> QED BY <1>2, <2>3
<1>6. CASE Tick
  <2>1. /\ passed' = {}
        /\ silent' = [p \in Peer |-> IF Up(p) THEN Older(silent[p], DisconnectAfter) ELSE 0]
        /\ directAge' = [p \in Peer |-> Older(directAge[p], StaleAfter)]
        /\ UNCHANGED <<peerRunning, announced, active, punching, direct, open, flips, late, synced>>
    BY <1>6 DEF Tick, sessionVars, transportVars
  <2>2. \A most \in Nat : \A a \in 0..most : Older(a, most) \in 0..most
    BY DEF Older
  <2>3. silent' \in [Peer -> 0..DisconnectAfter] /\ directAge' \in [Peer -> 0..StaleAfter]
    BY <2>1, <2>2, SizesAreNat DEF TypeOK
  <2>4. TypeOK'
    BY <1>3, <2>1, <2>3 DEF TypeOK
  <2> QED BY <1>2, <2>4
<1>7. CASE UNCHANGED vars
  <2>1. UNCHANGED <<peerRunning, announced, active, punching, direct, silent, directAge, open,
                    flips, passed, late, synced>>
    BY <1>7 DEF vars, sessionVars, transportVars
  <2>2. TypeOK'
    BY <1>3, <2>1 DEF TypeOK
  <2> QED BY <1>2, <2>2
<1> QED BY <1>4, <1>5, <1>6, <1>7

LEMMA SessionStarts == Init => SessionInv
<1> SUFFICES ASSUME Init PROVE SessionInv
  OBVIOUS
<1>1. /\ state = [p \in Peer |-> "syncing"] /\ nonce = [p \in Peer |-> 1]
      /\ syncOk = [p \in Peer |-> 0] /\ silent = [p \in Peer |-> 0]
      /\ directAge = [p \in Peer |-> StaleAfter] /\ flips = 0 /\ late = 0
      /\ passed = {} /\ answered = [p \in Peer |-> {}] /\ synced = {}
      /\ net = {[to |-> p, type |-> "syncReq", n |-> 1, path |-> "relay"] : p \in Peer}
  BY DEF Init
<1>2. /\ {peerRunning, announced, active, punching, direct, open} \subseteq [Peer -> BOOLEAN]
      /\ \A p \in Peer : ~direct[p]
  BY DEF Init
<1>3. 1 \in 1..NumSync /\ 1 \in 0..NumSync /\ 0 \in 0..NumSync
  BY SizesAreNat
<1>4. net \subseteq Datagram
  BY <1>1, <1>3 DEF Datagram
<1>5. TypeOK
  BY <1>1, <1>2, <1>3, <1>4, SizesAreNat DEF TypeOK
<1>6. RequestsTyped /\ RoundsAnswered
  BY <1>1, <1>3 DEF RequestsTyped, RoundsAnswered
<1>7. RoundsCounted
  BY <1>1, SizesAreNat DEF RoundsCounted
<1> QED BY <1>5, <1>6, <1>7 DEF SessionInv

LEMMA SessionKept == SessionInv /\ [Next]_vars => SessionInv'
BY PassKept, DieKept, OthersKept DEF Next

----------------------------------------------------------------------------
(* Every variable of the session and of its transport keeps its type.       *)
THEOREM TypeCorrect == Spec => []TypeOK
<1>1. Spec => []SessionInv
  BY SessionStarts, SessionKept, PTL DEF Spec
<1>2. SessionInv => TypeOK
  BY DEF SessionInv
<1> QED BY <1>1, <1>2, PTL

LEMMA RunningIsAnswered == SessionInv => SyncedByPeer
<1> SUFFICES ASSUME SessionInv, NEW p \in Peer, state[p] = "running"
             PROVE  Cardinality(answered[Other(p)]) >= NumSync
  BY DEF SyncedByPeer
<1>1. syncOk[p] = NumSync
  BY DEF SessionInv, RoundsCounted
<1>2. 1..NumSync \subseteq answered[Other(p)]
  BY <1>1 DEF SessionInv, RoundsAnswered
<1>3. answered[Other(p)] \subseteq 1..NumSync
  BY TwoPeers DEF SessionInv, TypeOK
<1>4. answered[Other(p)] = 1..NumSync
  BY <1>2, <1>3
<1>5. Cardinality(1..NumSync) = NumSync
  <2>1. 1 \in Int /\ NumSync \in Int /\ ~(1 > NumSync)
    BY SizesAreNat
  <2>2. Cardinality(1..NumSync) = NumSync - 1 + 1
    BY <2>1, FS_Interval
  <2> QED BY <2>2, SizesAreNat
<1> QED BY <1>4, <1>5, SizesAreNat

(* A session is RUNNING only after the other peer has answered every round  *)
(* of the handshake, for any number of rounds, whichever datagrams are      *)
(* late, lost or arrive by both paths, and whatever becomes of the direct   *)
(* path (MSG_SYNC_REPLY in session_pump).                                   *)
THEOREM RunningIsEarned == Spec => []SyncedByPeer
<1>1. Spec => []SessionInv
  BY SessionStarts, SessionKept, PTL DEF Spec
<1> QED BY <1>1, RunningIsAnswered, PTL

----------------------------------------------------------------------------
(* How long a peer waits for the other's next datagram.                     *)

(* The time-out is long enough for the bounds of the model: for every       *)
(* change of the direct path a peer may go on to take it for live until it  *)
(* is stale, and every drain that finds nothing costs two units at most.    *)
Patient ==
  /\ HalfOpen = FALSE
  /\ DisconnectAfter >= StaleAfter * (MaxFlips + 1) + 2 * (MaxLate + 1)

(* A datagram on its way by the direct path.                                *)
DirectTo(q) == \E m \in net : m.to = q /\ m.path = "direct"

(* The age of the direct path at q's pass of this unit, or if that is over  *)
(* at its next pass, less one.  A path that is open delivers, and where q   *)
(* has none it relays: both are as good as stale.                           *)
Staleness(q) ==
  LET turn == IF q \in passed THEN 1 ELSE 0
  IN IF open[q] \/ (~DirectTo(q) /\ ~direct[q]) THEN StaleAfter - turn
     ELSE IF DirectTo(q) THEN 0 - turn
     ELSE directAge[q]

(* What is on its way to p puts its silence off by a pass.                  *)
Slack(p) ==
  IF In(p) = {} THEN 0
  ELSE (IF p \in passed THEN 0 ELSE 1) + (IF Other(p) \in passed THEN 1 ELSE 0)

Budget == StaleAfter * (flips + 1) + 2 * (late + 1)

(* The silence so far and the one still to come, until the other peer finds *)
(* its path stale and relays, are within the budget.                        *)
WaitBounded(p) == silent[p] + (StaleAfter + 1 - Staleness(Other(p))) <= Budget + Slack(p)

PathsInv ==
  /\ \A p, q \in Peer : open[p] = open[q]
  /\ \A p \in Peer : p \in passed /\ direct[p] => directAge[p] < StaleAfter

PatienceInv ==
  /\ SessionInv /\ PathsInv /\ StaysUp
  /\ \A p \in Peer : Up(p) /\ Up(Other(p)) => WaitBounded(p)

LEMMA OnlyTwo == \A p, q \in Peer : q = p \/ q = Other(p)
<1> SUFFICES ASSUME NEW p \in Peer, NEW q \in Peer, q # p PROVE q = Other(p)
  OBVIOUS
<1>1. Cardinality(Peer \ {p}) = 1 /\ IsFiniteSet(Peer \ {p})
  <2>1. Cardinality(Peer \ {p}) = Cardinality(Peer) - 1 /\ IsFiniteSet(Peer \ {p})
    BY PeerAssumption, FS_RemoveElement
  <2> QED BY <2>1, PeerAssumption
<1>2. PICK r : Peer \ {p} = {r}
  BY <1>1, FS_Singleton
<1> QED BY <1>2, TwoPeers

LEMMA Monotone ==
  ASSUME NEW a \in Nat, NEW b \in Nat, NEW c \in Nat, a <= b
  PROVE  c * a <= c * b
<1> DEFINE d == b - a
<1>1. d \in Nat /\ b = a + d
  OBVIOUS
<1>2. c * b = c * a + c * d
  BY <1>1
<1>3. c * d \in Nat /\ c * a \in Nat
  BY <1>1
<1> QED BY <1>2, <1>3

LEMMA BudgetIs ==
  ASSUME TypeOK
  PROVE  /\ Budget \in Nat /\ StaleAfter + 2 <= Budget
         /\ UNCHANGED <<flips, late>> => Budget' = Budget
         /\ flips' = flips /\ late' = late + 1 => Budget' = Budget + 2
         /\ late' = late /\ flips' = flips + 1 => Budget' = Budget + StaleAfter
         /\ Patient => Budget <= DisconnectAfter
         /\ Patient /\ late < MaxLate => Budget + 2 <= DisconnectAfter
<1>1. flips \in 0..MaxFlips /\ late \in 0..MaxLate
  BY DEF TypeOK
<1>2. StaleAfter * (flips + 1) = StaleAfter * flips + StaleAfter
  BY <1>1, SizesAreNat
<1>3. StaleAfter * (flips + 1 + 1) = StaleAfter * (flips + 1) + StaleAfter
  BY <1>1, SizesAreNat
<1>4. StaleAfter * (flips + 1) <= StaleAfter * (MaxFlips + 1)
  BY <1>1, SizesAreNat, Monotone
<1>5. StaleAfter * flips \in Nat /\ StaleAfter * (MaxFlips + 1) \in Nat
  BY <1>1, SizesAreNat
<1> DEFINE x == StaleAfter * (flips + 1)
           y == StaleAfter * (MaxFlips + 1)
<1>6. x \in Nat /\ y \in Nat /\ x <= y /\ StaleAfter <= x
  BY <1>2, <1>4, <1>5, SizesAreNat
<1>7. Budget = x + 2 * (late + 1)
  BY DEF Budget
<1>8. UNCHANGED <<flips, late>> => Budget' = Budget
  BY DEF Budget
<1>9. flips' = flips /\ late' = late + 1 => Budget' = x + 2 * (late + 1 + 1)
  BY DEF Budget
<1>10. late' = late /\ flips' = flips + 1 => Budget' = x + StaleAfter + 2 * (late + 1)
  BY <1>3 DEF Budget
<1>11. Patient => DisconnectAfter >= y + 2 * (MaxLate + 1)
  BY DEF Patient
<1> HIDE DEF x, y
<1>12. Budget \in Nat /\ StaleAfter + 2 <= Budget
  BY <1>1, <1>6, <1>7, SizesAreNat
<1>13. flips' = flips /\ late' = late + 1 => Budget' = Budget + 2
  BY <1>1, <1>6, <1>7, <1>9
<1>14. late' = late /\ flips' = flips + 1 => Budget' = Budget + StaleAfter
  BY <1>1, <1>6, <1>7, <1>10, SizesAreNat
<1>15. Patient => Budget <= DisconnectAfter
  BY <1>1, <1>6, <1>7, <1>11, SizesAreNat
<1>16. Patient /\ late < MaxLate => Budget + 2 <= DisconnectAfter
  BY <1>1, <1>6, <1>7, <1>11, SizesAreNat
<1> QED BY <1>8, <1>12, <1>13, <1>14, <1>15, <1>16

LEMMA StalenessIs ==
  ASSUME TypeOK, PathsInv, NEW q \in Peer
  PROVE  /\ Staleness(q) \in Int /\ Staleness(q) <= StaleAfter
         /\ q \in passed => 0 - 1 <= Staleness(q) /\ Staleness(q) <= StaleAfter - 1
         /\ q \notin passed => 0 <= Staleness(q)
<1>1. directAge[q] \in 0..StaleAfter /\ StaleAfter \in Nat /\ 0 < StaleAfter
  BY TimeAssumption DEF TypeOK
<1>2. q \in passed /\ direct[q] => directAge[q] < StaleAfter
  BY DEF PathsInv
<1>3. CASE q \in passed
  <2>1. \/ Staleness(q) = StaleAfter - 1
        \/ Staleness(q) = 0 - 1
        \/ Staleness(q) = directAge[q] /\ direct[q]
    BY <1>3 DEF Staleness
  <2> QED BY <1>1, <1>2, <1>3, <2>1
<1>4. CASE q \notin passed
  <2>1. Staleness(q) \in {StaleAfter - 0, 0 - 0, directAge[q]}
    BY <1>4 DEF Staleness
  <2> QED BY <1>1, <1>4, <2>1
<1> QED BY <1>3, <1>4

LEMMA SlackIs ==
  ASSUME NEW p \in Peer
  PROVE  /\ Slack(p) \in {0, 1, 2} /\ (In(p) = {} => Slack(p) = 0)
         /\ Other(p) \notin passed => Slack(p) <= 1
         /\ p \in passed => Slack(p) <= 1
BY DEF Slack

(* No peer that is up runs out of patience with one that is up.             *)
LEMMA NoTimeOut ==
  ASSUME Patient, TypeOK, PathsInv, NEW p \in Peer, WaitBounded(p), NEW in \in {In(p), {}},
         Arrived(p, in)
  PROVE  ~TimedOut(p, in)
<1> DEFINE s == Staleness(Other(p))
           k == Slack(p)
<1>1. Other(p) \in Peer /\ silent[p] \in Nat /\ StaleAfter \in Nat /\ DisconnectAfter \in Nat
      /\ 0 < DisconnectAfter
  BY TwoPeers, TimeAssumption DEF TypeOK
<1>2. /\ s \in Int /\ s <= StaleAfter
      /\ Other(p) \in passed => s <= StaleAfter - 1
  BY <1>1, StalenessIs
<1>3. /\ k \in {0, 1, 2} /\ (In(p) = {} => k = 0)
      /\ Other(p) \notin passed => k <= 1
  BY SlackIs
<1>4. silent[p] + (StaleAfter + 1 - s) <= Budget + k /\ Budget \in Nat
  BY BudgetIs DEF WaitBounded
<1>5. Budget <= DisconnectAfter /\ (late < MaxLate => Budget + 2 <= DisconnectAfter)
  BY BudgetIs
<1> HIDE DEF s, k
<1>6. CASE in # {}
  BY <1>1, <1>6 DEF TimedOut, Silence
<1>7. CASE in = {} /\ In(p) = {}
  <2>1. silent[p] < DisconnectAfter
    BY <1>1, <1>2, <1>3, <1>4, <1>5, <1>7
  <2> QED BY <1>1, <1>7, <2>1 DEF TimedOut, Silence
<1>8. CASE in = {} /\ In(p) # {}
  <2>1. late < MaxLate
    BY <1>8 DEF Arrived
  <2>2. silent[p] <= Budget
    BY <1>1, <1>2, <1>3, <1>4
  <2>3. silent[p] < DisconnectAfter
    BY <1>1, <1>4, <1>5, <2>1, <2>2
  <2> QED BY <1>1, <1>8, <2>3 DEF TimedOut, Silence
<1> QED BY <1>6, <1>7, <1>8

(* What p sends goes to the other, and directly only over an open path.     *)
LEMMA CopiesGo ==
  ASSUME NEW p, NEW S, NEW live, NEW m \in Copies(p, S, live)
  PROVE  m.to = Other(p) /\ (m.path = "direct" => punching[p] /\ open[p])
BY DEF Copies

(* A pass of p itself ends its wait, or finds nothing.                      *)
LEMMA OwnPassBounded ==
  ASSUME TypeOK, PathsInv, NEW p \in Peer, p \notin passed, WaitBounded(p),
         NEW in \in {In(p), {}}, Arrived(p, in), NEW rest \in {net \ in, net \ In(p)},
         Continue(p, in, rest), passed' = passed \cup {p}, UNCHANGED <<open, flips>>
  PROVE  WaitBounded(p)'
<1> DEFINE q == Other(p)
           s == Staleness(q)
           k == Slack(p)
           sent == Copies(p, Answers(p, in) \cup TimerSends(p, in) \cup FrameSends(p, in),
                          Live(p, direct[p] \/ (\E m \in in : m.path = "direct" /\ punching[p]),
                               IF \E m \in in : m.path = "direct" /\ punching[p] THEN 0 ELSE directAge[p]))
<1>1. q \in Peer /\ q # p
  BY TwoPeers
<1>2. net' = rest \cup sent
  BY DEF Continue
<1>3. \A m \in sent : m.to = q /\ (m.path = "direct" => open[p])
  BY CopiesGo
<1>4. /\ silent' = [silent EXCEPT ![p] = Silence(p, in)]
      /\ direct'[q] = direct[q] /\ directAge'[q] = directAge[q] /\ open'[q] = open[q]
  BY <1>1 DEF Continue, TypeOK
<1>5. open[p] = open[q]
  BY <1>1 DEF PathsInv
<1>6. \A m \in net : m.to # p => m \in rest
  BY DEF In
<1>7. rest \subseteq net
  OBVIOUS
<1> HIDE DEF sent
<1>8. ~open[q] => (DirectTo(q)' <=> DirectTo(q))
  BY <1>1, <1>2, <1>3, <1>5, <1>6, <1>7 DEF DirectTo
<1>9. q \in passed' <=> q \in passed
  BY <1>1
<1>10. Staleness(q)' = s
  BY <1>4, <1>8, <1>9 DEF Staleness
<1>11. In(p)' = {m \in rest : m.to = p}
  BY <1>1, <1>2, <1>3 DEF In
<1>12. /\ Slack(p)' \in {0, 1}
       /\ In(p)' = {} => Slack(p)' = 0
       /\ In(p)' # {} /\ q \in passed => Slack(p)' = 1
  BY <1>9 DEF Slack
<1>13. silent[p] \in Nat /\ StaleAfter \in Nat /\ silent'[p] = Silence(p, in)
  BY <1>4, SizesAreNat DEF TypeOK
<1>14. /\ s \in Int /\ s <= StaleAfter
       /\ q \in passed => 0 - 1 <= s /\ s <= StaleAfter - 1
       /\ q \notin passed => 0 <= s
  BY <1>1, StalenessIs
<1>15. k \in {0, 1, 2} /\ (In(p) = {} => k = 0) /\ (q \notin passed => k <= 1)
  BY SlackIs
<1>16. silent[p] + (StaleAfter + 1 - s) <= Budget + k /\ Budget \in Nat /\ StaleAfter + 2 <= Budget
  BY BudgetIs DEF WaitBounded
<1>17. UNCHANGED <<flips, late>> => Budget' = Budget
  BY BudgetIs
<1>18. flips' = flips /\ late' = late + 1 => Budget' = Budget + 2
  BY BudgetIs
<1> DEFINE k1 == Slack(p)'
           b1 == Budget'
<1> HIDE DEF s, k, k1, b1
<1>19. silent'[p] + (StaleAfter + 1 - s) <= b1 + k1
  <2>1. CASE in = In(p) /\ late' = late
    <3>1. In(p)' = {}
      BY <1>11, <2>1 DEF In
    <3>2. k1 = 0 /\ b1 = Budget
      BY <1>12, <1>17, <2>1, <3>1 DEF k1, b1
    <3>3. CASE In(p) = {}
      <4>1. silent'[p] = silent[p] /\ k = 0
        BY <1>13, <1>15, <2>1, <3>3 DEF Silence
      <4> QED BY <1>16, <3>2, <4>1
    <3>4. CASE In(p) # {}
      <4>1. silent'[p] = 0
        BY <1>13, <2>1, <3>4 DEF Silence
      <4>2. 0 - 1 <= s
        BY <1>14
      <4> QED BY <1>13, <1>14, <1>16, <3>2, <4>1, <4>2
    <3> QED BY <3>3, <3>4
  <2>2. CASE in = {} /\ late' = late + 1
    <3>1. silent'[p] = silent[p]
      BY <1>13, <2>2 DEF Silence
    <3>2. b1 = Budget + 2 /\ k1 \in {0, 1}
      BY <1>12, <1>18, <2>2 DEF k1, b1
    <3> QED BY <1>13, <1>14, <1>15, <1>16, <3>1, <3>2
  <2> QED BY <2>1, <2>2 DEF Arrived
<1> QED BY <1>10, <1>19 DEF WaitBounded, k1, b1

(* A pass of the other peer sends to p, unless its direct path seems fresh  *)
(* and is closed; then it has become that much older, or has just heard.    *)
LEMMA OtherPassBounded ==
  ASSUME TypeOK, PathsInv, NEW p \in Peer, NEW q \in Peer, q = Other(p), q \notin passed,
         WaitBounded(p), NEW in \in {In(q), {}}, Arrived(q, in),
         NEW rest \in {net \ in, net \ In(q)},
         Continue(q, in, rest), passed' = passed \cup {q}, UNCHANGED <<open, flips>>
  PROVE  WaitBounded(p)'
<1> DEFINE s     == Staleness(q)
           k     == Slack(p)
           fresh == \E m \in in : m.path = "direct" /\ punching[q]
           age   == IF fresh THEN 0 ELSE directAge[q]
           live  == Live(q, direct[q] \/ fresh, age)
           S     == Answers(q, in) \cup TimerSends(q, in) \cup FrameSends(q, in)
           sent  == Copies(q, S, live)
<1>1. p # q /\ Other(q) = p
  BY TwoPeers
<1>2. net' = rest \cup sent
  BY DEF Continue
<1>3. \A m \in sent : m.to = p
  BY <1>1, CopiesGo
<1>4. PICK t : t \in S
  BY DEF TimerSends
<1>5. open[q] \/ ~live => sent # {}
  <2>1. live => punching[q]
    BY DEF Live
  <2>2. CASE open[q] /\ live
    <3>1. [to |-> Other(q), type |-> t.type, n |-> t.n, path |-> "direct"] \in sent
      BY <1>4, <2>1, <2>2 DEF Copies
    <3> QED BY <3>1
  <2>3. CASE ~live
    <3>1. [to |-> Other(q), type |-> t.type, n |-> t.n, path |-> "relay"] \in sent
      BY <1>4, <2>3 DEF Copies
    <3> QED BY <3>1
  <2> QED BY <2>2, <2>3
<1>6. /\ silent' = [silent EXCEPT ![q] = Silence(q, in)]
      /\ direct' = [direct EXCEPT ![q] = live] /\ directAge' = [directAge EXCEPT ![q] = age]
  BY DEF Continue
<1>7. /\ silent'[p] = silent[p] /\ direct'[q] = live /\ directAge'[q] = age /\ open'[q] = open[q]
      /\ punching[q] \in BOOLEAN
  BY <1>1, <1>6 DEF TypeOK
<1>8. In(p) \cup sent = In(p)'
  BY <1>1, <1>2, <1>3 DEF In
<1>9. /\ live => age < StaleAfter /\ (direct[q] \/ fresh) /\ punching[q]
      /\ fresh => DirectTo(q)
      /\ ~fresh => age = directAge[q]
      /\ fresh => age = 0
  <2>1. in \subseteq In(q)
    OBVIOUS
  <2> QED BY <2>1 DEF Live, DirectTo, In
<1>10. DirectTo(q)' => DirectTo(q) /\ in = {} /\ late' = late + 1
  <2> SUFFICES ASSUME NEW m \in net', m.to = q, m.path = "direct"
               PROVE  DirectTo(q) /\ in = {} /\ late' = late + 1
    BY DEF DirectTo
  <2>1. m \in rest /\ m \in In(q)
    BY <1>1, <1>2, <1>3 DEF In
  <2>2. in # In(q)
    BY <2>1
  <2> QED BY <2>1, <2>2 DEF DirectTo, Arrived, In
<1>11. in = {} => ~fresh
  OBVIOUS
<1>12. in # {} /\ punching[q] /\ DirectTo(q) => fresh
  BY DEF DirectTo, In
<1>13. q \in passed' /\ (p \in passed' <=> p \in passed)
  BY <1>1
<1>14. directAge[q] \in 0..StaleAfter /\ StaleAfter \in Nat /\ 0 < StaleAfter /\ silent[p] \in Nat
  BY TimeAssumption DEF TypeOK
<1>15. Arrived(q, in) => (late' = late \/ (in = {} /\ late' = late + 1))
  BY DEF Arrived
<1>0. late # late + 1
  BY DEF TypeOK
<1>16. in = {} /\ late' = late => ~DirectTo(q)
  BY <1>0 DEF Arrived, DirectTo, In
<1> HIDE DEF sent, S, live, fresh, age
<1> DEFINE s1 == Staleness(q)'
<1>17. s1 = (IF open[q] \/ (~DirectTo(q)' /\ ~live) THEN StaleAfter - 1
             ELSE IF DirectTo(q)' THEN 0 - 1 ELSE age)
  BY <1>7, <1>13 DEF Staleness
<1>18. s = (IF open[q] \/ (~DirectTo(q) /\ ~direct[q]) THEN StaleAfter - 0
            ELSE IF DirectTo(q) THEN 0 - 0 ELSE directAge[q])
  BY DEF Staleness
<1> HIDE DEF s, s1
<1>19. s1 \in Int /\ s \in Int /\ s - 1 <= s1
  <2>1. CASE open[q]
    BY <1>14, <1>17, <1>18, <2>1
  <2>2. CASE ~open[q] /\ DirectTo(q)'
    BY <1>10, <1>14, <1>17, <1>18, <2>2
  <2>3. CASE ~open[q] /\ ~DirectTo(q)' /\ ~live
    BY <1>14, <1>17, <1>18, <2>3
  <2>4. CASE ~open[q] /\ ~DirectTo(q)' /\ live
    <3>1. s1 = age
      BY <1>17, <2>4
    <3>2. CASE fresh
      BY <1>9, <1>14, <1>18, <2>4, <3>1, <3>2
    <3>3. CASE ~fresh
      BY <1>9, <1>14, <1>18, <2>4, <3>1, <3>3
    <3> QED BY <3>2, <3>3
  <2> QED BY <2>1, <2>2, <2>3, <2>4
<1>20. sent = {} /\ late' = late => s <= s1
  <2> SUFFICES ASSUME sent = {}, late' = late PROVE s <= s1
    OBVIOUS
  <2>1. ~open[q] /\ live /\ ~DirectTo(q)'
    BY <1>0, <1>5, <1>10
  <2>2. s1 = age
    BY <1>17, <2>1
  <2>3. CASE fresh
    BY <1>9, <1>14, <1>18, <2>1, <2>2, <2>3
  <2>4. CASE ~fresh
    <3>1. ~DirectTo(q) /\ direct[q] /\ age = directAge[q]
      BY <1>9, <1>12, <1>16, <2>1, <2>4
    <3> QED BY <1>14, <1>18, <2>1, <2>2, <3>1
  <2> QED BY <2>3, <2>4
<1>21. /\ Slack(p)' \in {0, 1, 2} /\ k \in {0, 1, 2} /\ k <= Slack(p)'
       /\ sent # {} => k + 1 <= Slack(p)'
  <2>1. In(p) # {} => In(p)' # {}
    BY <1>8
  <2>2. sent # {} => In(p)' # {}
    BY <1>8
  <2>3. Slack(p)' = (IF In(p)' = {} THEN 0 ELSE (IF p \in passed THEN 0 ELSE 1) + 1)
    BY <1>13 DEF Slack
  <2>4. k = (IF In(p) = {} THEN 0 ELSE (IF p \in passed THEN 0 ELSE 1) + 0)
    BY DEF Slack
  <2> HIDE DEF k
  <2> QED BY <2>1, <2>2, <2>3, <2>4
<1>22. silent[p] + (StaleAfter + 1 - s) <= Budget + k /\ Budget \in Nat
  BY BudgetIs DEF WaitBounded, s
<1>23. UNCHANGED <<flips, late>> => Budget' = Budget
  BY BudgetIs
<1>24. flips' = flips /\ late' = late + 1 => Budget' = Budget + 2
  BY BudgetIs
<1> DEFINE k1 == Slack(p)'
           b1 == Budget'
<1> HIDE DEF k, k1, b1
<1>25. silent[p] + (StaleAfter + 1 - s1) <= b1 + k1
  <2>1. CASE late' = late
    <3>1. b1 = Budget
      BY <1>23, <2>1 DEF b1
    <3>2. CASE sent = {}
      BY <1>14, <1>19, <1>20, <1>21, <1>22, <2>1, <3>1, <3>2 DEF k1
    <3>3. CASE sent # {}
      BY <1>14, <1>19, <1>21, <1>22, <3>1, <3>3 DEF k1
    <3> QED BY <3>2, <3>3
  <2>2. CASE late' = late + 1
    <3>1. b1 = Budget + 2
      BY <1>24, <2>2 DEF b1
    <3> QED BY <1>14, <1>19, <1>21, <1>22, <3>1 DEF k1
  <2> QED BY <1>15, <2>1, <2>2
<1> QED BY <1>7, <1>25 DEF WaitBounded, k1, b1, s1

(* Time passes: the silence is longer, and the other's path is older.       *)
LEMMA TickBounded ==
  ASSUME TypeOK, PathsInv, NEW p \in Peer, Up(p), Up(Other(p)), WaitBounded(p), Tick
  PROVE  WaitBounded(p)'
<1> DEFINE q == Other(p)
           s == Staleness(q)
           s1 == Staleness(q)'
<1>1. q \in Peer /\ Up(q)
  BY TwoPeers
<1>2. p \in passed /\ q \in passed /\ passed' = {} /\ net' = {m \in net : Up(m.to)}
  BY <1>1 DEF Tick
<1>3. /\ silent'[p] = Older(silent[p], DisconnectAfter)
      /\ directAge'[q] = Older(directAge[q], StaleAfter)
      /\ UNCHANGED <<direct, open, flips, late>>
  BY <1>1 DEF Tick, transportVars
<1>4. DirectTo(q)' <=> DirectTo(q)
  BY <1>1, <1>2 DEF DirectTo
<1>5. In(p)' = In(p)
  BY <1>2 DEF In
<1>6. silent[p] \in Nat /\ silent'[p] \in Nat /\ silent'[p] <= silent[p] + 1
  BY <1>3, SizesAreNat DEF TypeOK, Older
<1>7. directAge[q] \in Nat /\ StaleAfter \in Nat /\ (direct[q] => directAge'[q] = directAge[q] + 1)
  BY <1>1, <1>2, <1>3, SizesAreNat DEF TypeOK, PathsInv, Older
<1>8. s1 = s + 1 /\ s \in Int
  <2>1. s = (IF open[q] \/ (~DirectTo(q) /\ ~direct[q]) THEN StaleAfter - 1
             ELSE IF DirectTo(q) THEN 0 - 1 ELSE directAge[q])
    BY <1>2 DEF Staleness
  <2>2. s1 = (IF open[q] \/ (~DirectTo(q) /\ ~direct[q]) THEN StaleAfter - 0
              ELSE IF DirectTo(q) THEN 0 - 0 ELSE directAge'[q])
    BY <1>2, <1>3, <1>4 DEF Staleness
  <2> HIDE DEF s, s1
  <2> QED BY <1>7, <2>1, <2>2
<1>9. Slack(p)' = Slack(p)
  BY <1>2, <1>5 DEF Slack
<1>10. Budget' = Budget /\ Budget \in Nat /\ Slack(p) \in {0, 1, 2}
  BY <1>3, BudgetIs, SlackIs
<1>11. silent[p] + (StaleAfter + 1 - s) <= Budget + Slack(p)
  BY DEF WaitBounded
<1> HIDE DEF s, s1
<1>12. silent'[p] + (StaleAfter + 1 - s1) <= Budget + Slack(p)
  BY <1>6, <1>7, <1>8, <1>10, <1>11
<1> QED BY <1>9, <1>10, <1>12 DEF WaitBounded, s1

(* A path that closes costs what it takes to find it stale.                 *)
LEMMA FlipBounded ==
  ASSUME TypeOK, PathsInv, PathsInv', NEW p \in Peer, WaitBounded(p), PathChanges
  PROVE  WaitBounded(p)'
<1> DEFINE q == Other(p)
           s == Staleness(q)
           s1 == Staleness(q)'
<1>1. q \in Peer /\ UNCHANGED <<silent, net, passed, direct, directAge, late>> /\ flips' = flips + 1
  BY TwoPeers DEF PathChanges, transportVars
<1>2. In(p)' = In(p) /\ (DirectTo(q)' <=> DirectTo(q))
  BY <1>1 DEF In, DirectTo
<1>3. Slack(p)' = Slack(p)
  BY <1>1, <1>2 DEF Slack
<1>4. s - StaleAfter <= s1 /\ s \in Int /\ s1 \in Int
  <2>1. directAge[q] \in 0..StaleAfter /\ StaleAfter \in Nat /\ 0 < StaleAfter
    BY <1>1, TimeAssumption DEF TypeOK
  <2>2. direct[q] /\ q \in passed => directAge[q] < StaleAfter
    BY <1>1 DEF PathsInv
  <2> DEFINE turn == IF q \in passed THEN 1 ELSE 0
  <2>3. s = (IF open[q] \/ (~DirectTo(q) /\ ~direct[q]) THEN StaleAfter - turn
             ELSE IF DirectTo(q) THEN 0 - turn ELSE directAge[q])
    BY DEF Staleness
  <2>4. s1 = (IF open'[q] \/ (~DirectTo(q) /\ ~direct[q]) THEN StaleAfter - turn
              ELSE IF DirectTo(q) THEN 0 - turn ELSE directAge[q])
    BY <1>1, <1>2 DEF Staleness
  <2> HIDE DEF s, s1
  <2>5. turn \in {0, 1} /\ (turn = 1 <=> q \in passed)
    OBVIOUS
  <2> HIDE DEF turn
  <2> QED BY <2>1, <2>2, <2>3, <2>4, <2>5
<1>5. /\ Budget' = Budget + StaleAfter /\ Budget \in Nat /\ StaleAfter \in Nat
      /\ Slack(p) \in {0, 1, 2} /\ silent[p] \in Nat
  BY <1>1, BudgetIs, SlackIs, SizesAreNat DEF TypeOK
<1>6. silent[p] + (StaleAfter + 1 - s) <= Budget + Slack(p)
  BY DEF WaitBounded
<1> HIDE DEF s, s1
<1>7. silent[p] + (StaleAfter + 1 - s1) <= Budget + StaleAfter + Slack(p)
  BY <1>4, <1>5, <1>6
<1> QED BY <1>1, <1>3, <1>5, <1>7 DEF WaitBounded, s1

(* The direct path stays the same in both directions, and one that is taken *)
(* for live has been heard of.                                              *)
LEMMA PathsKept ==
  ASSUME HalfOpen = FALSE, SessionInv, PathsInv, [Next]_vars
  PROVE  PathsInv'
<1>0. TypeOK
  BY DEF SessionInv
<1>1. CASE \E p \in Peer : Pass(p)
  <2>1. PICK p \in Peer : Pass(p)
    BY <1>1
  <2>2. UNCHANGED open /\ passed' = passed \cup {p}
    BY <2>1 DEF Pass
  <2>3. /\ direct'[p] => directAge'[p] < StaleAfter
        /\ \A r \in Peer : r # p => direct'[r] = direct[r] /\ directAge'[r] = directAge[r]
    <3>1. PICK in : (\E rest : Continue(p, in, rest)) \/ GiveUp(p, in)
      BY <2>1 DEF Pass
    <3>2. CASE \E rest : Continue(p, in, rest)
      <4> DEFINE fresh == \E m \in in : m.path = "direct" /\ punching[p]
                 age   == IF fresh THEN 0 ELSE directAge[p]
                 live  == Live(p, direct[p] \/ fresh, age)
      <4>1. /\ direct' = [direct EXCEPT ![p] = live]
            /\ directAge' = [directAge EXCEPT ![p] = age]
        BY <3>2 DEF Continue
      <4>2. live => age < StaleAfter
        BY DEF Live
      <4> HIDE DEF live, age
      <4> QED BY <1>0, <4>1, <4>2 DEF TypeOK
    <3>3. CASE GiveUp(p, in)
      BY <1>0, <3>3 DEF GiveUp, TypeOK
    <3> QED BY <3>1, <3>2, <3>3
  <2> QED BY <2>2, <2>3 DEF PathsInv
<1>2. CASE PathChanges
  BY <1>2 DEF PathChanges, transportVars, PathsInv
<1>3. CASE Tick
  BY <1>3 DEF Tick, PathsInv
<1>4. CASE \E p \in Peer : StartPunch(p) \/ Die(p)
  BY <1>4 DEF StartPunch, Die, transportVars, PathsInv
<1>5. CASE UNCHANGED vars
  BY <1>5 DEF vars, transportVars, PathsInv
<1> QED BY <1>1, <1>2, <1>3, <1>4, <1>5 DEF Next

LEMMA PatienceStarts == Patient /\ Init => PatienceInv
<1> SUFFICES ASSUME Patient, Init PROVE PatienceInv
  OBVIOUS
<1>1. SessionInv /\ TypeOK
  BY SessionStarts DEF SessionInv
<1>2. PathsInv /\ StaysUp
  BY DEF Init, PathsInv, StaysUp
<1>3. ASSUME NEW p \in Peer PROVE WaitBounded(p)
  <2>1. Other(p) \in Peer
    BY TwoPeers
  <2>2. /\ Other(p) \notin passed /\ silent[p] = 0 /\ ~direct[Other(p)]
        /\ \A m \in net : m.path = "relay"
    BY <2>1 DEF Init
  <2>3. ~DirectTo(Other(p))
    BY <2>2 DEF DirectTo
  <2>4. Staleness(Other(p)) = StaleAfter - 0
    BY <2>2, <2>3 DEF Staleness
  <2>5. Slack(p) \in {0, 1, 2} /\ StaleAfter + 2 <= Budget /\ Budget \in Nat /\ StaleAfter \in Nat
    BY <1>1, SlackIs, BudgetIs, SizesAreNat
  <2>6. 0 + (StaleAfter + 1 - Staleness(Other(p))) <= Budget + Slack(p)
    BY <2>4, <2>5
  <2> QED BY <2>2, <2>6 DEF WaitBounded
<1> QED BY <1>1, <1>2, <1>3 DEF PatienceInv

(* Of two peers that are up neither gives up.                               *)
LEMMA PassPatient ==
  ASSUME Patient, PatienceInv, PathsInv', NEW r \in Peer, Pass(r)
  PROVE  StaysUp' /\ \A p \in Peer : (Up(p) /\ Up(Other(p)))' => WaitBounded(p)'
<1>0. /\ SessionInv /\ TypeOK /\ PathsInv /\ StaysUp
      /\ \A p \in Peer : Up(p) /\ Up(Other(p)) => WaitBounded(p)
  BY DEF PatienceInv, SessionInv
<1>1. PICK in \in {In(r), {}} :
        /\ Arrived(r, in)
        /\ (\E rest \in {net \ in, net \ In(r)} : Continue(r, in, rest)) \/ GiveUp(r, in)
  BY DEF Pass
<1>2. Up(r) /\ r \notin passed /\ passed' = passed \cup {r} /\ UNCHANGED <<open, flips>>
  BY DEF Pass
<1>3. Other(r) \in Peer /\ Other(r) # r /\ Other(Other(r)) = r
      /\ \A p \in Peer : p = r \/ p = Other(r)
  <2>1. \A p \in Peer : p = r \/ p = Other(r)
    BY OnlyTwo
  <2> QED BY <2>1, TwoPeers
<1>4. CASE \E rest \in {net \ in, net \ In(r)} : Continue(r, in, rest)
  <2>1. PICK rest \in {net \ in, net \ In(r)} : Continue(r, in, rest)
    BY <1>4
  <2>2. state' = [state EXCEPT ![r] = Drained(r, in)] /\ Drained(r, in) \in {"running", state[r]}
    BY <2>1 DEF Continue, Drained
  <2>3. Up(r)' /\ (Up(Other(r))' <=> Up(Other(r))) /\ state'[Other(r)] = state[Other(r)]
    BY <1>0, <1>2, <1>3, <2>2 DEF Up, TypeOK
  <2>4. StaysUp'
    BY <1>0, <1>2, <1>3, <2>3 DEF StaysUp, Up
  <2>5. ASSUME Up(Other(r))' PROVE WaitBounded(r)' /\ WaitBounded(Other(r))'
    <3>1. WaitBounded(r) /\ WaitBounded(Other(r))
      BY <1>0, <1>2, <1>3, <2>3, <2>5
    <3>2. WaitBounded(r)'
      BY <1>0, <1>1, <1>2, <2>1, <3>1, OwnPassBounded
    <3>3. WaitBounded(Other(r))'
      BY <1>0, <1>1, <1>2, <1>3, <2>1, <3>1, OtherPassBounded
    <3> QED BY <3>2, <3>3
  <2> QED BY <1>3, <2>3, <2>4, <2>5
<1>5. CASE GiveUp(r, in)
  <2>1. ~Up(Other(r))
    <3> SUFFICES ASSUME Up(Other(r)) PROVE FALSE
      OBVIOUS
    <3>1. ~TimedOut(r, in)
      BY <1>0, <1>1, <1>2, NoTimeOut
    <3> QED BY <1>5, <3>1 DEF GiveUp
  <2>2. state[Other(r)] = "dead"
    BY <1>0, <1>2, <1>3, <2>1 DEF TypeOK, StaysUp, Up
  <2>3. state' = [state EXCEPT ![r] = "disconnected"]
    BY <1>5 DEF GiveUp
  <2>4. state'[r] = "disconnected" /\ state'[Other(r)] = "dead"
    BY <1>0, <1>3, <2>2, <2>3 DEF TypeOK
  <2> QED BY <1>3, <2>4 DEF StaysUp, Up
<1> QED BY <1>1, <1>4, <1>5

LEMMA OthersPatient ==
  ASSUME Patient, PatienceInv, PathsInv',
         (\E r \in Peer : StartPunch(r) \/ Die(r)) \/ PathChanges \/ Tick \/ UNCHANGED vars
  PROVE  StaysUp' /\ \A p \in Peer : (Up(p) /\ Up(Other(p)))' => WaitBounded(p)'
<1>0. /\ SessionInv /\ TypeOK /\ PathsInv /\ StaysUp
      /\ \A p \in Peer : Up(p) /\ Up(Other(p)) => WaitBounded(p)
  BY DEF PatienceInv, SessionInv
<1>1. ASSUME UNCHANGED state PROVE StaysUp'
  BY <1>0, <1>1 DEF StaysUp
<1>2. ASSUME UNCHANGED <<silent, net, passed, direct, directAge, open, flips, late>>, NEW p \in Peer
      PROVE  WaitBounded(p)' <=> WaitBounded(p)
  BY <1>2 DEF WaitBounded, Staleness, DirectTo, Slack, In, Budget
<1>3. CASE Tick
  <2>1. UNCHANGED state
    BY <1>3 DEF Tick, sessionVars
  <2>2. \A p \in Peer : (Up(p) /\ Up(Other(p)))' => Up(p) /\ Up(Other(p))
    BY <2>1 DEF Up
  <2> QED BY <1>0, <1>1, <1>3, <2>1, <2>2, TickBounded
<1>4. CASE PathChanges
  <2>1. UNCHANGED state
    BY <1>4 DEF PathChanges, sessionVars
  <2>2. \A p \in Peer : (Up(p) /\ Up(Other(p)))' => Up(p) /\ Up(Other(p))
    BY <2>1 DEF Up
  <2> QED BY <1>0, <1>1, <1>4, <2>1, <2>2, FlipBounded
<1>5. CASE (\E r \in Peer : StartPunch(r)) \/ UNCHANGED vars
  <2>1. UNCHANGED state /\ UNCHANGED <<silent, net, passed, direct, directAge, open, flips, late>>
    BY <1>5 DEF StartPunch, vars, sessionVars, transportVars
  <2>2. \A p \in Peer : (Up(p) /\ Up(Other(p)))' => Up(p) /\ Up(Other(p))
    BY <2>1 DEF Up
  <2> QED BY <1>0, <1>1, <1>2, <2>1, <2>2
<1>6. CASE \E r \in Peer : Die(r)
  <2>1. PICK r \in Peer : Die(r)
    BY <1>6
  <2>2. /\ state' = [state EXCEPT ![r] = "dead"] /\ Up(r)
        /\ UNCHANGED <<silent, net, passed, direct, directAge, open, flips, late>>
    BY <2>1 DEF Die, transportVars
  <2>3. \A p \in Peer : state'[p] = state[p] \/ state'[p] = "dead"
    BY <1>0, <2>2 DEF TypeOK
  <2>4. \A p \in Peer : Other(p) \in Peer
    BY TwoPeers
  <2>5. \A p \in Peer : (Up(p) /\ Up(Other(p)))' => Up(p) /\ Up(Other(p))
    BY <2>3, <2>4 DEF Up
  <2>6. StaysUp'
    BY <1>0, <2>3, <2>4 DEF StaysUp
  <2> QED BY <1>0, <1>2, <2>2, <2>5, <2>6
<1> QED BY <1>3, <1>4, <1>5, <1>6

LEMMA PatienceKept == Patient /\ PatienceInv /\ [Next]_vars => PatienceInv'
<1> SUFFICES ASSUME Patient, PatienceInv, [Next]_vars PROVE PatienceInv'
  OBVIOUS
<1>1. SessionInv' /\ PathsInv'
  BY SessionKept, PathsKept DEF PatienceInv, Patient
<1>2. StaysUp' /\ \A p \in Peer : (Up(p) /\ Up(Other(p)))' => WaitBounded(p)'
  BY <1>1, PassPatient, OthersPatient DEF Next
<1> QED BY <1>1, <1>2 DEF PatienceInv

(* No session goes down while the other peer's process is there, if both    *)
(* directions of the direct path open and close together and the time-out   *)
(* is long enough for the times the path changes and for the drains that    *)
(* find nothing: the code's 6 s against 1 s allow two of each, whenever     *)
(* they come (direct_is_live, and the timeout at the end of session_pump).  *)
THEOREM NobodyGivesUp ==
  ASSUME Patient
  PROVE  Spec => []StaysUp
<1>1. Init => PatienceInv
  BY PatienceStarts
<1>2. PatienceInv /\ [Next]_vars => PatienceInv'
  BY PatienceKept
<1>3. PatienceInv => StaysUp
  BY DEF PatienceInv
<1> QED BY <1>1, <1>2, <1>3, PTL DEF Spec

=============================================================================
