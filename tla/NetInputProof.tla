--------------------------- MODULE NetInputProof ---------------------------
(***************************************************************************)
(* Proofs about NetInput, in four parts.  The first holds for every set of *)
(* two peers, every ring, window, barrier and set of delays: the type       *)
(* invariant, the properties of the timelines, and that the exchange        *)
(* implements EpochAgreement.  The second is about one input delay that     *)
(* never changes: the peers agree on the inputs they hold.  The third is    *)
(* about the first timeline: no input is lost on it.  The fourth is about   *)
(* the first timeline too: the games see the same pads, or a rollback is    *)
(* triggered.                                                               *)
(*                                                                         *)
(* The lemmas first say what the operators of the queues and of the wire    *)
(* return; the inductive invariant then has one lemma per action.           *)
(***************************************************************************)
EXTENDS NetInput, TLAPS

\* Every frame number has a slot (idx).
LEMMA SlotOfFrame == ASSUME NEW f \in Nat PROVE Idx(f) \in Slot
  BY SizeAssumption DEF Idx, Slot

\* A datagram in flight after a send was in flight before, or is the one sent.
LEMMA OnlySentArrives ==
  ASSUME NEW S, Transmit(S) PROVE net' \subseteq net \cup S
  BY DEF Transmit

\* A queue R in which the frames of F have been stored over another: each slot
\* is as before, or holds a frame of F with the pad stored for it.
StoredOver(R, queue, F, blobs) ==
  \A i \in Slot :
    \/ R[i] = queue[i] /\ \A f \in F : Idx(f) # i
    \/ \E f \in F : Idx(f) = i /\ R[i] = [frame |-> f, blob |-> blobs[f]]

LEMMA FilledSlots ==
  ASSUME NEW queue \in [Slot -> Entry], NEW F \in SUBSET Nat, NEW blobs,
         \A f \in F : blobs[f] \in Blob
  PROVE  /\ Filled(queue, F, blobs) \in [Slot -> Entry]
         /\ StoredOver(Filled(queue, F, blobs), queue, F, blobs)
  <1> SUFFICES ASSUME NEW i \in Slot
               PROVE  /\ Filled(queue, F, blobs)[i] \in Entry
                      /\ \/ /\ Filled(queue, F, blobs)[i] = queue[i]
                            /\ \A f \in F : Idx(f) # i
                         \/ \E f \in F :
                              /\ Idx(f) = i
                              /\ Filled(queue, F, blobs)[i]
                                    = [frame |-> f, blob |-> blobs[f]]
    BY Zenon DEF Filled, StoredOver
  <1>1. CASE \E f \in F : Idx(f) = i
    <2>1. PICK found : found = CHOOSE g \in F : Idx(g) = i
      OBVIOUS
    <2>2. found \in F /\ Idx(found) = i
      BY <1>1, <2>1
    <2>3. Filled(queue, F, blobs)[i] = [frame |-> found, blob |-> blobs[found]]
      BY <1>1, <2>1 DEF Filled
    <2>4. found \in Int /\ blobs[found] \in Blob
      BY <2>2
    <2> QED BY <2>2, <2>3, <2>4 DEF Entry
  <1>2. CASE ~ \E f \in F : Idx(f) = i
    BY <1>2 DEF Filled
  <1> QED BY <1>1, <1>2

\* The frame a slot holds after storing.
LEMMA StoredFrame ==
  ASSUME NEW R, NEW queue, NEW F, NEW blobs, StoredOver(R, queue, F, blobs),
         NEW i \in Slot
  PROVE  \/ R[i] = queue[i]
         \/ \E f \in F : /\ Idx(f) = i
                         /\ R[i].frame = f /\ R[i].blob = blobs[f]
  <1>1. ASSUME NEW f \in F, R[i] = [frame |-> f, blob |-> blobs[f]]
        PROVE  R[i].frame = f /\ R[i].blob = blobs[f]
    BY <1>1
  <1> QED BY <1>1 DEF StoredOver

\* The newest frame after storing F, when what was missing lies below upto
\* and a frame that was not missing is no newer than the newest before.
LEMMA HighestFrame ==
  ASSUME NEW high \in Int, NEW F \in SUBSET Nat, NEW upto \in Nat,
         \A f \in F : f <= upto, upto \in F \/ upto <= high \/ F = {}
  PROVE  /\ Highest(high, F) \in Int
         /\ Highest(high, F) >= high
         /\ \A f \in F : f <= Highest(high, F)
         /\ Highest(high, F) = high \/ (Highest(high, F) = upto /\ upto \in F)
  <1>1. CASE \E f \in F : f > high
    <2>1. upto \in F
      BY <1>1
    <2>2. PICK h : h = CHOOSE f \in F : \A g \in F : g <= f
      OBVIOUS
    <2>3. h \in F /\ \A g \in F : g <= h
      BY <2>1, <2>2
    <2>4. h = upto
      BY <2>1, <2>3
    <2>5. Highest(high, F) = h
      BY <1>1, <2>2 DEF Highest
    <2> QED BY <1>1, <2>1, <2>3, <2>4, <2>5
  <1>2. CASE ~ \E f \in F : f > high
    BY <1>2 DEF Highest
  <1> QED BY <1>1, <1>2

-----------------------------------------------------------------------------
(* Type correctness, and that no peer runs on a timeline the other does    *)
(* not know.  The first needs that the newest stored frame is the newest   *)
(* one a queue holds; the second, that no datagram announces a timeline    *)
(* its sender does not want.                                               *)

AnnouncedIsWanted ==
  \A m \in net :
    /\ m.epoch <= want[m.src]
    /\ m.type = "input" => m.epoch <= m.want /\ m.want <= want[m.src]

NoneAbove(queue, high) ==
  \A i \in Slot : queue[i].frame <= high \/ queue[i].frame = -1
StoredBelowHigh == \A p \in Peer : NoneAbove(remote[p], remoteHigh[p])

IInv == TypeOK /\ AnnouncedIsWanted /\ StoredBelowHigh /\ SharedTimeline

\* Delays are natural numbers, whoever chose them.
LEMMA DelayIsNat == ASSUME NEW d \in Delays \cup {FirstDelay} PROVE d \in Nat
  BY DelayAssumption

\* A queue seeded with neutral frames (seed_neutral).
LEMMA SeededQueue ==
  ASSUME NEW d \in Delays \cup {FirstDelay}
  PROVE  /\ Seeded(d) \in [Slot -> Entry]
         /\ NoneAbove(Seeded(d), d - 1)
         /\ \A i \in Slot : Seeded(d)[i].blob = Neutral
  <1>1. d \in Nat
    BY DelayIsNat
  <1>2. ASSUME NEW i \in Slot
        PROVE  /\ Seeded(d)[i] = [frame |-> IF i < d THEN i ELSE -1,
                                  blob |-> Neutral]
               /\ Seeded(d)[i] \in Entry
    BY <1>1, BlobAssumption, SizeAssumption DEF Seeded, Slot, Entry
  <1>3. Seeded(d) \in [Slot -> Entry]
    BY <1>2 DEF Seeded
  <1>4. NoneAbove(Seeded(d), d - 1)
    <2> SUFFICES ASSUME NEW i \in Slot
                 PROVE Seeded(d)[i].frame <= d - 1 \/ Seeded(d)[i].frame = -1
      BY DEF NoneAbove
    <2>1. Seeded(d)[i].frame = IF i < d THEN i ELSE -1
      BY DEF Seeded
    <2>2. i \in Int
      BY SizeAssumption DEF Slot
    <2> QED BY <1>1, <2>1, <2>2
  <1> QED BY <1>2, <1>3, <1>4

\* send_input always builds a well-formed packet.
LEMMA PacketType ==
  ASSUME TypeOK, NEW p \in Peer, NEW upto \in Nat, NEW queue \in [Slot -> Entry]
  PROVE  IsInputMessage(InputPacket(p, upto, queue))
  <1>1. WindowStart(p, upto) \in Nat
    BY SizeAssumption DEF TypeOK, WindowStart, Newer, Older
  <1>2. ASSUME NEW f \in Nat PROVE BlobAt(queue, f) \in Blob
    BY SlotOfFrame, BlobAssumption DEF BlobAt, Held, Entry
  <1>3. [f \in WindowStart(p, upto)..upto |-> BlobAt(queue, f)]
          \in [WindowStart(p, upto)..upto -> Blob]
    BY <1>1, <1>2
  <1> QED BY <1>1, <1>3 DEF IsInputMessage, InputPacket, TypeOK

\* What activate_epoch restarts.
LEMMA RestartType ==
  ASSUME TypeOK, NEW p \in Peer, NEW d \in Delays \cup {FirstDelay},
         NEW e \in Nat, Restart(p, d, e)
  PROVE  /\ epoch' \in [Peer -> Nat] /\ want' \in [Peer -> Nat]
         /\ delay' \in [Peer -> Delays \cup {FirstDelay}]
         /\ netFrame' \in [Peer -> 0..MaxFrame]
         /\ lastCaptured' \in [Peer -> Int]
         /\ local' \in [Peer -> [Slot -> Entry]]
         /\ lastLocal' \in [Peer -> Blob] /\ lastRemote' \in [Peer -> Blob]
         /\ shown' \in [Peer -> [0..MaxFrame -> Pads \cup {None}]]
         /\ abandoned' \in [Peer -> 0..MaxAbandon]
         /\ unmapped' \in [Peer -> SUBSET (0..MaxFrame)]
  <1>1. Seeded(d) \in [Slot -> Entry]
    BY SeededQueue
  <1>2. NothingShown \in [0..MaxFrame -> Pads \cup {None}]
    BY DEF NothingShown
  <1> QED BY <1>1, <1>2, BlobAssumption, SizeAssumption
          DEF TypeOK, Restart, Newer

\* The newest frame after a packet is stored: the newest before, or the newest
\* of the packet.
LEMMA NewestStored ==
  ASSUME NEW m, IsInputMessage(m), NEW queue \in [Slot -> Entry],
         NEW high \in Int, NoneAbove(queue, high)
  PROVE  LET top == Highest(high, Missing(m, queue))
         IN /\ top \in Int /\ top >= high /\ (top = high \/ top = m.upto)
            /\ \A f \in Missing(m, queue) : f <= top
  <1>1. PICK F : F = Missing(m, queue)
    OBVIOUS
  <1>2. /\ m.start \in Nat /\ m.upto \in Nat /\ DOMAIN m.blobs = m.start..m.upto
    BY DEF IsInputMessage
  <1>3. F \in SUBSET Nat /\ \A f \in F : f <= m.upto
    BY <1>1, <1>2 DEF Missing
  <1>4. m.upto \in F \/ m.upto <= high \/ F = {}
    <2>1. CASE m.start <= m.upto /\ Held(queue, m.upto)
      <3>1. Idx(m.upto) \in Slot /\ queue[Idx(m.upto)].frame = m.upto
        BY <1>2, <2>1, SlotOfFrame DEF Held
      <3> QED BY <1>2, <3>1 DEF NoneAbove
    <2>2. CASE m.start <= m.upto /\ ~ Held(queue, m.upto)
      BY <1>1, <1>2, <2>2 DEF Missing
    <2>3. CASE m.start > m.upto
      BY <1>1, <1>2, <2>3 DEF Missing
    <2> QED BY <1>2, <2>1, <2>2, <2>3
  <1> QED BY <1>1, <1>2, <1>3, <1>4, HighestFrame

\* What on_recv_input stores, whatever queue it starts from.
LEMMA StoreType ==
  ASSUME TypeOK, NEW p \in Peer, NEW m, IsInputMessage(m),
         NEW queue \in [Slot -> Entry], NEW high \in Int,
         NoneAbove(queue, high), NEW frame \in Nat,
         NEW guesses \in [Slot -> Blob \cup {None}],
         NEW held \in SUBSET Nat, NEW triggers \in SUBSET Nat, NEW taken,
         StoreInput(p, m, queue, high, frame, guesses, held, triggers, taken)
  PROVE  /\ remote' \in [Peer -> [Slot -> Entry]]
         /\ remoteHigh' \in [Peer -> Int]
         /\ guess' \in [Peer -> [Slot -> Blob \cup {None}]]
         /\ corrected' \in [Peer -> SUBSET Nat]
         /\ have' \in [Peer -> SUBSET Nat]
         /\ peerAcked' \in [Peer -> Int]
         /\ StoredBelowHigh => StoredBelowHigh'
  <1> DEFINE F == Missing(m, queue)
             J == Judged(F, frame, guesses)
             newQueue == Filled(queue, F, m.blobs)
             newHigh == Highest(high, F)
             newGuess == [i \in Slot |-> IF \E f \in J : Idx(f) = i THEN None
                                         ELSE guesses[i]]
  <1>1. /\ F \in SUBSET Nat /\ \A f \in F : f <= m.upto /\ m.blobs[f] \in Blob
        /\ m.upto \in Nat
    BY DEF IsInputMessage, Missing
  <1>2. /\ newQueue \in [Slot -> Entry]
        /\ \A i \in Slot : \/ newQueue[i] = queue[i]
                           \/ \E f \in F : newQueue[i].frame = f
    <2>1. PICK G, b : G = F /\ b = m.blobs
      OBVIOUS
    <2>2. G \in SUBSET Nat /\ \A f \in G : b[f] \in Blob
      BY <1>1, <2>1
    <2>3. /\ Filled(queue, G, b) \in [Slot -> Entry]
          /\ StoredOver(Filled(queue, G, b), queue, G, b)
      BY <2>2, FilledSlots
    <2>4. newQueue = Filled(queue, G, b)
      BY <2>1
    <2> HIDE DEF newQueue, F
    <2>5. ASSUME NEW i \in Slot
          PROVE  newQueue[i] = queue[i] \/ \E f \in F : newQueue[i].frame = f
      BY <2>1, <2>3, <2>4, StoredFrame
    <2> QED BY <2>3, <2>4, <2>5
  <1>4. newHigh \in Int /\ newHigh >= high /\ \A f \in F : f <= newHigh
    BY NewestStored
  <1>5. NoneAbove(newQueue, newHigh)
    BY <1>1, <1>2, <1>4 DEF NoneAbove, Entry
  <1>6. newGuess \in [Slot -> Blob \cup {None}]
    OBVIOUS
  <1>7. J \in SUBSET Nat
    BY <1>1 DEF Judged
  <1>8. {f \in J : guesses[Idx(f)] # m.blobs[f] /\ f \notin taken} \in SUBSET Nat
    BY <1>7
  <1> HIDE DEF F, J, newQueue, newHigh, newGuess
  <1>9. /\ remote' = [remote EXCEPT ![p] = newQueue]
        /\ remoteHigh' = [remoteHigh EXCEPT ![p] = newHigh]
        /\ guess' = [guess EXCEPT ![p] = newGuess]
        /\ corrected' = [corrected EXCEPT ![p] = triggers \cup
              {f \in J : guesses[Idx(f)] # m.blobs[f] /\ f \notin taken}]
        /\ have' = [have EXCEPT ![p] = held \cup F]
        /\ peerAcked' = [peerAcked EXCEPT ![p] = Newer(peerAcked[p], m.ack)]
    BY DEF StoreInput, F, J, newQueue, newHigh, newGuess
  <1>10. /\ remote' \in [Peer -> [Slot -> Entry]]
         /\ remoteHigh' \in [Peer -> Int]
         /\ guess' \in [Peer -> [Slot -> Blob \cup {None}]]
    BY <1>2, <1>4, <1>6, <1>9 DEF TypeOK
  <1>11. corrected' \in [Peer -> SUBSET Nat] /\ have' \in [Peer -> SUBSET Nat]
    BY <1>1, <1>8, <1>9 DEF TypeOK
  <1>12. peerAcked' \in [Peer -> Int]
    BY <1>9 DEF TypeOK, Newer, IsInputMessage
  <1>13. StoredBelowHigh => StoredBelowHigh'
    BY <1>5, <1>9 DEF StoredBelowHigh, TypeOK
  <1> QED BY <1>10, <1>11, <1>12, <1>13

\* A datagram in flight is one of the two kinds, and says which.
LEMMA MessageKinds ==
  ASSUME TypeOK, NEW m \in net
  PROVE  /\ m.src \in Peer /\ m.epoch \in Nat
         /\ m.type = "epoch" => m \in EpochMessage
         /\ m.type = "input" => IsInputMessage(m)
  <1>1. CASE m \in EpochMessage
    BY <1>1 DEF EpochMessage
  <1>2. CASE IsInputMessage(m)
    BY <1>2 DEF IsInputMessage
  <1> QED BY <1>1, <1>2 DEF TypeOK

\* Sending keeps what is known of the datagrams, as long as no peer comes to
\* want an older timeline and the datagram sent announces no more than its
\* sender wants.
LEMMA SendKeepsNet ==
  ASSUME TypeOK, AnnouncedIsWanted,
         want' \in [Peer -> Nat], \A q \in Peer : want'[q] >= want[q],
         NEW m, Transmit({m}), m \in EpochMessage \/ IsInputMessage(m),
         m.epoch <= want'[m.src],
         m.type = "input" => m.epoch <= m.want /\ m.want <= want'[m.src]
  PROVE  /\ \A n \in net' : n \in EpochMessage \/ IsInputMessage(n)
         /\ AnnouncedIsWanted'
  <1>1. net' \subseteq net \cup {m}
    BY OnlySentArrives
  <1>2. \A n \in net' : n \in EpochMessage \/ IsInputMessage(n)
    BY <1>1 DEF TypeOK
  <1>3. ASSUME NEW n \in net'
        PROVE  /\ n.epoch <= want'[n.src]
               /\ n.type = "input" => n.epoch <= n.want /\ n.want <= want'[n.src]
    <2>1. CASE n = m
      BY <2>1
    <2>2. CASE n \in net
      <3>1. n.src \in Peer /\ n.epoch \in Nat
            /\ (n.type = "input" => n.want \in Nat)
        BY <2>2, MessageKinds DEF IsInputMessage
      <3>2. want'[n.src] >= want[n.src] /\ want[n.src] \in Nat
            /\ want'[n.src] \in Nat
        BY <3>1 DEF TypeOK
      <3>3. /\ n.epoch <= want[n.src]
            /\ n.type = "input" => n.epoch <= n.want /\ n.want <= want[n.src]
        BY <2>2 DEF AnnouncedIsWanted
      <3> QED BY <3>1, <3>2, <3>3
    <2> QED BY <1>1, <2>1, <2>2
  <1> QED BY <1>2, <1>3 DEF AnnouncedIsWanted

\* The datagrams keep what is known of them while nothing is sent.
LEMMA QuietKeepsNet ==
  ASSUME TypeOK, AnnouncedIsWanted,
         want' \in [Peer -> Nat], \A q \in Peer : want'[q] >= want[q],
         net' = net
  PROVE  /\ \A n \in net' : n \in EpochMessage \/ IsInputMessage(n)
         /\ AnnouncedIsWanted'
  <1>1. ASSUME NEW n \in net
        PROVE  /\ n.epoch <= want'[n.src]
               /\ n.type = "input" => n.epoch <= n.want /\ n.want <= want'[n.src]
    <2>1. n.src \in Peer /\ n.epoch \in Nat /\ (n.type = "input" => n.want \in Nat)
      BY MessageKinds DEF IsInputMessage
    <2>2. want'[n.src] >= want[n.src] /\ want[n.src] \in Nat /\ want'[n.src] \in Nat
      BY <2>1 DEF TypeOK
    <2>3. /\ n.epoch <= want[n.src]
          /\ n.type = "input" => n.epoch <= n.want /\ n.want <= want[n.src]
      BY DEF AnnouncedIsWanted
    <2> QED BY <2>1, <2>2, <2>3
  <1> QED BY <1>1 DEF AnnouncedIsWanted, TypeOK

\* A packet a peer builds announces its own timeline and the one it wants.
LEMMA PacketAnnounces ==
  ASSUME TypeOK, SharedTimeline, NEW p \in Peer, NEW upto, NEW queue
  PROVE  LET m == InputPacket(p, upto, queue)
         IN /\ m.src = p /\ m.epoch = epoch[p] /\ m.want = want[p]
            /\ m.epoch <= m.want /\ m.type = "input" /\ m.epoch <= want[p]
  BY DEF InputPacket, SharedTimeline

LEMMA InvProposeEpoch ==
  ASSUME IInv, NEW p \in Peer, ProposeEpoch(p)
  PROVE  IInv'
  <1> USE DEF IInv
  <1>1. PICK d \in Delays :
          /\ delay' = [delay EXCEPT ![p] = d]
          /\ \/ /\ want' = [want EXCEPT ![p] = Newer(epoch[p], want[p]) + 1]
                /\ Transmit({EpochPacket(p, want'[p], d)})
             \/ UNCHANGED <<want, net>>
          /\ UNCHANGED <<epoch, queueVars, unmapped, historyVars>>
    BY DEF ProposeEpoch
  <1>2. delay' \in [Peer -> Delays \cup {FirstDelay}]
    BY <1>1 DEF TypeOK
  <1>3. want' \in [Peer -> Nat] /\ \A q \in Peer : want'[q] >= want[q]
    <2>1. want \in [Peer -> Nat] /\ epoch[p] \in Nat /\ want[p] \in Nat
      BY DEF TypeOK
    <2>2. /\ Newer(epoch[p], want[p]) + 1 \in Nat
          /\ Newer(epoch[p], want[p]) + 1 >= want[p]
      BY <2>1 DEF Newer
    <2> QED BY <1>1, <2>1, <2>2
  <1>4. /\ \A n \in net' : n \in EpochMessage \/ IsInputMessage(n)
        /\ AnnouncedIsWanted'
    <2>1. CASE Transmit({EpochPacket(p, want'[p], d)})
      <3> DEFINE m == EpochPacket(p, want'[p], d)
      <3>1. /\ m \in EpochMessage /\ m.epoch = want'[p] /\ m.src = p
            /\ m.type # "input"
        BY <1>3 DEF EpochPacket, EpochMessage
      <3>2. m.epoch <= want'[m.src]
        BY <1>3, <3>1
      <3> HIDE DEF m
      <3> QED BY <1>3, <2>1, <3>1, <3>2, SendKeepsNet DEF m
    <2>2. CASE UNCHANGED <<want, net>>
      BY <1>3, <2>2, QuietKeepsNet
    <2> QED BY <1>1, <2>1, <2>2
  <1>5. TypeOK'
    BY <1>1, <1>2, <1>3, <1>4 DEF TypeOK, queueVars, historyVars
  <1>6. StoredBelowHigh'
    BY <1>1 DEF StoredBelowHigh, NoneAbove, queueVars
  <1>7. SharedTimeline'
    <2>1. epoch' = epoch /\ epoch \in [Peer -> Nat] /\ want \in [Peer -> Nat]
      BY <1>1 DEF TypeOK
    <2> QED BY <1>3, <2>1 DEF SharedTimeline
  <1> QED BY <1>4, <1>5, <1>6, <1>7

\* A restart on a timeline its proposer wants keeps the timelines shared.
LEMMA RestartKeepsShared ==
  ASSUME TypeOK, SharedTimeline, NEW p \in Peer, NEW q \in Peer,
         p # q, NEW d, NEW e \in Nat,
         e > epoch[p], e <= want[q], Restart(p, d, e)
  PROVE  /\ SharedTimeline'
         /\ want' \in [Peer -> Nat] /\ \A r \in Peer : want'[r] >= want[r]
  <1>1. /\ epoch \in [Peer -> Nat] /\ want \in [Peer -> Nat]
        /\ epoch' = [epoch EXCEPT ![p] = e]
        /\ want' = [want EXCEPT ![p] = Newer(want[p], e)]
    BY DEF TypeOK, Restart
  <1>2. /\ Newer(want[p], e) \in Nat /\ Newer(want[p], e) >= want[p]
        /\ Newer(want[p], e) >= e
    BY <1>1 DEF Newer
  <1>3. want' \in [Peer -> Nat] /\ \A r \in Peer : want'[r] >= want[r]
    BY <1>1, <1>2
  <1>4. \A r \in Peer : r = p \/ r = q
    BY PeerAssumption
  <1>5. ASSUME NEW r \in Peer, NEW t \in Peer PROVE epoch'[r] <= want'[t]
    <2>1. CASE r = p
      BY <1>1, <1>2, <1>3, <1>4, <2>1
    <2>2. CASE r # p
      BY <1>1, <1>3, <2>2 DEF SharedTimeline
    <2> QED BY <2>1, <2>2
  <1> QED BY <1>3, <1>5 DEF SharedTimeline

\* Restarting with an empty remote queue, on a datagram that brings no input
\* for the new timeline.
LEMMA InvRestartOnly ==
  ASSUME IInv, NEW p \in Peer, NEW q \in Peer, p # q,
         NEW d \in Delays \cup {FirstDelay}, NEW e \in Nat,
         e > epoch[p], e <= want[q], Restart(p, d, e),
         remote' = [remote EXCEPT ![p] = Seeded(d)],
         remoteHigh' = [remoteHigh EXCEPT ![p] = d - 1],
         guess' = [guess EXCEPT ![p] = NoGuesses],
         have' = [have EXCEPT ![p] = 0..(d - 1)],
         corrected' = [corrected EXCEPT ![p] = {}],
         UNCHANGED <<peerAcked, net>>
  PROVE  IInv'
  <1> USE DEF IInv
  <1>1. d \in Nat /\ 0..(d - 1) \in SUBSET Nat
    BY DelayIsNat
  <1>2. /\ remote' \in [Peer -> [Slot -> Entry]]
        /\ remoteHigh' \in [Peer -> Int]
        /\ guess' \in [Peer -> [Slot -> Blob \cup {None}]]
        /\ have' \in [Peer -> SUBSET Nat]
        /\ corrected' \in [Peer -> SUBSET Nat]
        /\ peerAcked' \in [Peer -> Int]
    BY <1>1, SeededQueue DEF TypeOK, NoGuesses
  <1>3. /\ SharedTimeline'
        /\ want' \in [Peer -> Nat] /\ \A r \in Peer : want'[r] >= want[r]
    BY RestartKeepsShared
  <1>4. /\ \A n \in net' : n \in EpochMessage \/ IsInputMessage(n)
        /\ AnnouncedIsWanted'
    BY <1>3, QuietKeepsNet
  <1>5. TypeOK'
    BY <1>2, <1>4, RestartType DEF TypeOK
  <1>6. StoredBelowHigh'
    BY <1>1, SeededQueue DEF StoredBelowHigh, TypeOK
  <1> QED BY <1>3, <1>4, <1>5, <1>6

LEMMA InvOnPeerEpoch ==
  ASSUME IInv, NEW p \in Peer, NEW m \in net, m.src # p, m.type = "epoch",
         OnPeerEpoch(p, m)
  PROVE  IInv'
  <1> USE DEF IInv
  <1>1. /\ m.src \in Peer /\ m.epoch \in Nat /\ m \in EpochMessage
        /\ m.delay \in Delays \cup {FirstDelay} /\ m.epoch <= want[m.src]
    BY MessageKinds DEF EpochMessage, AnnouncedIsWanted
  <1>2. CASE /\ m.epoch > epoch[p]
             /\ Restart(p, m.delay, m.epoch)
             /\ remote' = [remote EXCEPT ![p] = Seeded(m.delay)]
             /\ remoteHigh' = [remoteHigh EXCEPT ![p] = m.delay - 1]
             /\ guess' = [guess EXCEPT ![p] = NoGuesses]
             /\ have' = [have EXCEPT ![p] = 0..(m.delay - 1)]
             /\ corrected' = [corrected EXCEPT ![p] = {}]
             /\ UNCHANGED <<peerAcked, net>>
    BY <1>1, <1>2, InvRestartOnly
  <1>3. CASE /\ Transmit({EpochPacket(p, want[p], delay[p])})
             /\ UNCHANGED <<timelineVars, queueVars, unmapped, historyVars>>
    <2> DEFINE n == EpochPacket(p, want[p], delay[p])
    <2>1. /\ n \in EpochMessage /\ n.epoch = want[p] /\ n.src = p
          /\ n.type # "input"
      BY DEF EpochPacket, EpochMessage, TypeOK
    <2>2. want' = want /\ want \in [Peer -> Nat]
      BY <1>3 DEF timelineVars, TypeOK
    <2>3. want' \in [Peer -> Nat] /\ \A r \in Peer : want'[r] >= want[r]
          /\ n.epoch <= want'[n.src]
      BY <2>1, <2>2
    <2>4. Transmit({n})
      BY <1>3
    <2> HIDE DEF n
    <2>5. /\ \A x \in net' : x \in EpochMessage \/ IsInputMessage(x)
          /\ AnnouncedIsWanted'
      BY <2>1, <2>3, <2>4, SendKeepsNet
    <2>6. TypeOK'
      BY <1>3, <2>5 DEF TypeOK, timelineVars, queueVars, historyVars
    <2> QED BY <1>3, <2>5, <2>6
            DEF timelineVars, queueVars, StoredBelowHigh, NoneAbove, SharedTimeline
  <1> QED BY <1>2, <1>3 DEF OnPeerEpoch

LEMMA InvRecvSameEpoch ==
  ASSUME IInv, NEW p \in Peer, NEW m \in net, m.type = "input",
         RecvSameEpoch(p, m)
  PROVE  IInv'
  <1> USE DEF IInv
  <1>1. IsInputMessage(m)
    BY MessageKinds
  <1>2. /\ remote' \in [Peer -> [Slot -> Entry]]
        /\ remoteHigh' \in [Peer -> Int]
        /\ guess' \in [Peer -> [Slot -> Blob \cup {None}]]
        /\ corrected' \in [Peer -> SUBSET Nat]
        /\ have' \in [Peer -> SUBSET Nat]
        /\ peerAcked' \in [Peer -> Int]
        /\ StoredBelowHigh'
    <2>1. /\ remote[p] \in [Slot -> Entry] /\ remoteHigh[p] \in Int
          /\ netFrame[p] \in Nat /\ guess[p] \in [Slot -> Blob \cup {None}]
          /\ have[p] \in SUBSET Nat /\ corrected[p] \in SUBSET Nat
          /\ NoneAbove(remote[p], remoteHigh[p])
      BY SizeAssumption DEF TypeOK, StoredBelowHigh
    <2>2. StoreInput(p, m, remote[p], remoteHigh[p], netFrame[p], guess[p],
                     have[p], corrected[p], unmapped[p])
      BY DEF RecvSameEpoch
    <2> QED BY <1>1, <2>1, <2>2, StoreType
  <1>3. UNCHANGED <<timelineVars, netFrame, lastCaptured, local, lastLocal,
                    lastRemote, unmapped, net, shown, abandoned>>
    BY DEF RecvSameEpoch
  <1>4. TypeOK'
    BY <1>2, <1>3 DEF TypeOK, timelineVars
  <1>5. AnnouncedIsWanted' /\ SharedTimeline'
    BY <1>3 DEF AnnouncedIsWanted, SharedTimeline, timelineVars
  <1> QED BY <1>2, <1>4, <1>5

LEMMA InvRecvNewEpoch ==
  ASSUME IInv, NEW p \in Peer, NEW m \in net, m.src # p, m.type = "input",
         RecvNewEpoch(p, m)
  PROVE  IInv'
  <1> USE DEF IInv
  <1>1. /\ IsInputMessage(m) /\ m.src \in Peer /\ m.want \in Nat
        /\ m.want <= want[m.src]
    BY MessageKinds DEF IsInputMessage, AnnouncedIsWanted
  <1>2. /\ delay[p] \in Delays \cup {FirstDelay} /\ delay[p] \in Nat
        /\ Restart(p, delay[p], m.want) /\ m.want > epoch[p] /\ UNCHANGED net
        /\ StoreInput(p, m, Seeded(delay[p]), delay[p] - 1, 0, NoGuesses,
                      0..(delay[p] - 1), {}, {})
    BY DelayIsNat DEF RecvNewEpoch, TypeOK
  <1>3. /\ remote' \in [Peer -> [Slot -> Entry]]
        /\ remoteHigh' \in [Peer -> Int]
        /\ guess' \in [Peer -> [Slot -> Blob \cup {None}]]
        /\ corrected' \in [Peer -> SUBSET Nat]
        /\ have' \in [Peer -> SUBSET Nat]
        /\ peerAcked' \in [Peer -> Int]
        /\ StoredBelowHigh'
    <2>1. /\ Seeded(delay[p]) \in [Slot -> Entry]
          /\ NoneAbove(Seeded(delay[p]), delay[p] - 1)
      BY <1>2, SeededQueue
    <2>2. /\ delay[p] - 1 \in Int /\ 0 \in Nat
          /\ NoGuesses \in [Slot -> Blob \cup {None}]
          /\ 0..(delay[p] - 1) \in SUBSET Nat /\ {} \in SUBSET Nat
      BY <1>2 DEF NoGuesses
    <2> QED BY <1>1, <1>2, <2>1, <2>2, StoreType
  <1>4. /\ SharedTimeline'
        /\ want' \in [Peer -> Nat] /\ \A r \in Peer : want'[r] >= want[r]
    BY <1>1, <1>2, RestartKeepsShared
  <1>5. /\ \A n \in net' : n \in EpochMessage \/ IsInputMessage(n)
        /\ AnnouncedIsWanted'
    BY <1>2, <1>4, QuietKeepsNet
  <1>6. TypeOK'
    BY <1>1, <1>2, <1>3, <1>5, RestartType DEF TypeOK
  <1> QED BY <1>3, <1>4, <1>5, <1>6

LEMMA InvRecvProposal ==
  ASSUME IInv, NEW p \in Peer, NEW m \in net, m.src # p, m.type = "input",
         RecvProposal(p, m)
  PROVE  IInv'
  <1>1. /\ m.src \in Peer /\ m.want \in Nat /\ m.want <= want[m.src]
        /\ delay[p] \in Delays \cup {FirstDelay}
    BY MessageKinds DEF IInv, IsInputMessage, AnnouncedIsWanted, TypeOK
  <1> QED BY <1>1, InvRestartOnly DEF RecvProposal

\* Sending one well-formed input packet, with the timelines unchanged.
LEMMA SendInputKeepsNet ==
  ASSUME TypeOK, AnnouncedIsWanted, SharedTimeline, NEW p \in Peer,
         NEW upto \in Nat, NEW queue \in [Slot -> Entry], want' = want,
         Transmit({InputPacket(p, upto, queue)})
  PROVE  /\ \A n \in net' : n \in EpochMessage \/ IsInputMessage(n)
         /\ AnnouncedIsWanted'
  <1>1. PICK m : m = InputPacket(p, upto, queue)
    OBVIOUS
  <1>2. IsInputMessage(m)
    BY <1>1, PacketType
  <1>3. /\ m.src = p /\ m.epoch <= want[p] /\ m.epoch <= m.want /\ m.want = want[p]
        /\ m.want \in Nat
    BY <1>1, <1>2, PacketAnnounces DEF IsInputMessage
  <1>4. want' \in [Peer -> Nat] /\ \A r \in Peer : want'[r] >= want[r]
    BY DEF TypeOK
  <1>5. m.epoch <= want'[m.src] /\ m.want <= want'[m.src]
    BY <1>3, <1>4
  <1>6. Transmit({m})
    BY <1>1
  <1> QED BY <1>2, <1>3, <1>4, <1>5, <1>6, SendKeepsNet

LEMMA InvPumpStalled ==
  ASSUME IInv, NEW p \in Peer, PumpStalled(p)
  PROVE  IInv'
  <1> USE DEF IInv
  <1>1. /\ UNCHANGED <<timelineVars, queueVars, unmapped, historyVars>>
        /\ lastCaptured[p] + delay[p] \in Nat /\ local[p] \in [Slot -> Entry]
        /\ Transmit({InputPacket(p, lastCaptured[p] + delay[p], local[p])})
    <2>1. /\ lastCaptured[p] \in Int /\ local[p] \in [Slot -> Entry]
          /\ delay[p] \in Delays \cup {FirstDelay}
      BY DEF TypeOK
    <2>2. delay[p] \in Nat
      BY <2>1, DelayIsNat
    <2>3. /\ UNCHANGED <<timelineVars, queueVars, unmapped, historyVars>>
          /\ lastCaptured[p] >= 0
          /\ Transmit({InputPacket(p, lastCaptured[p] + delay[p], local[p])})
      BY DEF PumpStalled
    <2> QED BY <2>1, <2>2, <2>3
  <1>2. want' = want
    BY <1>1 DEF timelineVars
  <1>3. /\ \A n \in net' : n \in EpochMessage \/ IsInputMessage(n)
        /\ AnnouncedIsWanted'
    BY <1>1, <1>2, SendInputKeepsNet
  <1>4. TypeOK'
    BY <1>1, <1>3 DEF TypeOK, timelineVars, queueVars, historyVars
  <1> QED BY <1>1, <1>3, <1>4
          DEF timelineVars, queueVars, StoredBelowHigh, NoneAbove, SharedTimeline

\* A release spends at most the budget of abandoned stalls.
LEMMA ReleasedType ==
  ASSUME TypeOK, NEW p \in Peer, Released(p)
  PROVE  abandoned' \in [Peer -> 0..MaxAbandon]
  <1>1. abandoned \in [Peer -> 0..MaxAbandon] /\ MaxAbandon \in Nat
    BY SizeAssumption DEF TypeOK
  <1>2. \/ abandoned' = abandoned
        \/ /\ abandoned[p] < MaxAbandon
           /\ abandoned' = [abandoned EXCEPT ![p] = @ + 1]
    BY DEF Released
  <1> QED BY <1>1, <1>2

\* The frames whose entry in the map is taken are frames run.
LEMMA TakenType ==
  ASSUME TypeOK, NEW p \in Peer, UNCHANGED unmapped \/ TakeEntry(p)
  PROVE  unmapped' \in [Peer -> SUBSET (0..MaxFrame)]
  <1>1. unmapped \in [Peer -> SUBSET (0..MaxFrame)]
    BY DEF TypeOK
  <1>2. CASE TakeEntry(p)
    <2>1. PICK f \in 0..MaxFrame : unmapped' = [unmapped EXCEPT ![p] = @ \cup {f}]
      BY <1>2 DEF TakeEntry, Judged
    <2> QED BY <1>1, <2>1
  <1> QED BY <1>1, <1>2

\* A capture schedules frames, and the newest of them is delay frames ahead.
LEMMA CaptureRange ==
  ASSUME TypeOK, NEW p \in Peer
  PROVE  /\ CaptureFrames(p) \in SUBSET Nat
         /\ netFrame[p] + delay[p] \in CaptureFrames(p)
         /\ netFrame[p] + delay[p] \in Nat
         /\ \A f \in CaptureFrames(p) :
              /\ f <= netFrame[p] + delay[p]
              /\ lastCaptured[p] >= 0 =>
                   f > lastCaptured[p] + delay[p] \/ f = netFrame[p] + delay[p]
              /\ lastCaptured[p] < 0 => f = netFrame[p] + delay[p]
  <1>1. /\ netFrame[p] \in Nat /\ delay[p] \in Nat /\ lastCaptured[p] \in Int
        /\ GapCap \in Nat
    BY DelayIsNat, SizeAssumption DEF TypeOK
  <1> DEFINE sched == netFrame[p] + delay[p]
             next == IF lastCaptured[p] < 0 THEN sched
                     ELSE lastCaptured[p] + delay[p] + 1
             first == Newer(Older(next, sched), sched - GapCap)
  <1>2. /\ sched \in Nat /\ first \in Nat /\ first <= sched
        /\ lastCaptured[p] < 0 => first = sched
        /\ lastCaptured[p] >= 0 =>
             first > lastCaptured[p] + delay[p] \/ first = sched
    BY <1>1 DEF Newer, Older
  <1>3. CaptureFrames(p) = first..sched
    BY DEF CaptureFrames
  <1> HIDE DEF first
  <1> QED BY <1>1, <1>2, <1>3

LEMMA InvRunFrame ==
  ASSUME IInv, NEW p \in Peer, RunFrame(p)
  PROVE  IInv'
  <1> USE DEF IInv
  <1>1. PICK raw \in Blob :
          LET N == netFrame[p]
              F == CaptureFrames(p)
              queue == Filled(local[p], F, [f \in F |-> raw])
              own == IF Held(queue, N) THEN queue[Idx(N)].blob ELSE lastLocal[p]
              confirmed == Held(remote[p], N)
              other == IF confirmed THEN remote[p][Idx(N)].blob ELSE lastRemote[p]
          IN /\ local' = [local EXCEPT ![p] = queue]
             /\ Transmit({InputPacket(p, N + delay[p], queue)})
             /\ lastCaptured' = [lastCaptured EXCEPT ![p] = N]
             /\ lastLocal' = [lastLocal EXCEPT ![p] = own]
             /\ lastRemote' = [lastRemote EXCEPT ![p] = other]
             /\ guess' = [guess EXCEPT ![p][Idx(N)] =
                    IF confirmed THEN None ELSE IF @ = None THEN other ELSE @]
             /\ shown' = [shown EXCEPT ![p][N] = [own |-> own, other |-> other]]
             /\ netFrame' = [netFrame EXCEPT ![p] = N + 1]
    BY DEF RunFrame
  <1>2. /\ UNCHANGED <<timelineVars, remoteHigh, peerAcked, remote, have, corrected>>
        /\ netFrame[p] < MaxFrame /\ Released(p)
        /\ UNCHANGED unmapped \/ TakeEntry(p)
    BY DEF RunFrame
  <1> DEFINE N == netFrame[p]
             F == CaptureFrames(p)
             queue == Filled(local[p], F, [f \in F |-> raw])
             own == IF Held(queue, N) THEN queue[Idx(N)].blob ELSE lastLocal[p]
             other == IF Held(remote[p], N) THEN remote[p][Idx(N)].blob
                      ELSE lastRemote[p]
  <1>3. queue \in [Slot -> Entry]
    <2>1. PICK b : b = [f \in F |-> raw]
      OBVIOUS
    <2>2. F \in SUBSET Nat /\ \A f \in F : b[f] \in Blob
      BY <2>1, CaptureRange
    <2>3. local[p] \in [Slot -> Entry]
      BY DEF TypeOK
    <2> HIDE DEF F
    <2>4. Filled(local[p], F, b) \in [Slot -> Entry]
      BY <2>2, <2>3, FilledSlots
    <2> QED BY <2>1, <2>4
  <1>4. /\ N \in Nat /\ N \in 0..MaxFrame /\ N + 1 \in 0..MaxFrame
        /\ Idx(N) \in Slot /\ N + delay[p] \in Nat
    <2>1. netFrame[p] \in 0..MaxFrame /\ MaxFrame \in Nat
      BY SizeAssumption DEF TypeOK
    <2>2. N \in Nat /\ N \in 0..MaxFrame /\ N + 1 \in 0..MaxFrame
      BY <1>2, <2>1
    <2>3. N + delay[p] \in Nat
      BY CaptureRange
    <2> QED BY <2>2, <2>3, SlotOfFrame
  <1> HIDE DEF queue
  <1>5. own \in Blob /\ other \in Blob
    BY <1>3, <1>4 DEF TypeOK, Entry
  <1>6. /\ local' = [local EXCEPT ![p] = queue]
        /\ Transmit({InputPacket(p, N + delay[p], queue)})
        /\ lastCaptured' = [lastCaptured EXCEPT ![p] = N]
        /\ lastLocal' = [lastLocal EXCEPT ![p] = own]
        /\ lastRemote' = [lastRemote EXCEPT ![p] = other]
        /\ guess' = [guess EXCEPT ![p][Idx(N)] =
              IF Held(remote[p], N) THEN None ELSE IF @ = None THEN other ELSE @]
        /\ shown' = [shown EXCEPT ![p][N] = [own |-> own, other |-> other]]
        /\ netFrame' = [netFrame EXCEPT ![p] = N + 1]
    BY <1>1 DEF queue
  <1> HIDE DEF own, other, N
  <1>7. /\ local' \in [Peer -> [Slot -> Entry]]
        /\ lastCaptured' \in [Peer -> Int]
        /\ lastLocal' \in [Peer -> Blob] /\ lastRemote' \in [Peer -> Blob]
        /\ netFrame' \in [Peer -> 0..MaxFrame]
    BY <1>3, <1>4, <1>5, <1>6 DEF TypeOK
  <1>8. guess' \in [Peer -> [Slot -> Blob \cup {None}]]
    BY <1>4, <1>5, <1>6 DEF TypeOK
  <1>9. shown' \in [Peer -> [0..MaxFrame -> Pads \cup {None}]]
    <2>1. [own |-> own, other |-> other] \in Pads
      BY <1>5 DEF Pads
    <2> QED BY <1>4, <1>6, <2>1 DEF TypeOK
  <1>10. /\ \A n \in net' : n \in EpochMessage \/ IsInputMessage(n)
         /\ AnnouncedIsWanted'
    <2>1. want' = want
      BY <1>2 DEF timelineVars
    <2> QED BY <1>3, <1>4, <1>6, <2>1, SendInputKeepsNet
  <1>11. TypeOK'
    BY <1>2, <1>7, <1>8, <1>9, <1>10, ReleasedType, TakenType
       DEF TypeOK, timelineVars
  <1> QED BY <1>2, <1>10, <1>11
          DEF timelineVars, StoredBelowHigh, NoneAbove, SharedTimeline

LEMMA InvReplayFrames ==
  ASSUME IInv, NEW p \in Peer, ReplayFrames(p)
  PROVE  IInv'
  <1> USE DEF IInv
  <1>1. UNCHANGED <<timelineVars, queueVars, net, historyVars>> /\ TakeEntry(p)
    BY DEF ReplayFrames
  <1>2. unmapped' \in [Peer -> SUBSET (0..MaxFrame)]
    BY <1>1, TakenType
  <1>3. TypeOK'
    BY <1>1, <1>2 DEF TypeOK, timelineVars, queueVars, historyVars
  <1> QED BY <1>1, <1>3 DEF timelineVars, queueVars, StoredBelowHigh, NoneAbove,
                            SharedTimeline, AnnouncedIsWanted

LEMMA InvRunWithoutInput ==
  ASSUME IInv, NEW p \in Peer, RunWithoutInput(p)
  PROVE  IInv'
  <1> USE DEF IInv
  <1>1. /\ UNCHANGED <<timelineVars, lastCaptured, remoteHigh, peerAcked, local,
                   remote, lastLocal, lastRemote, guess, unmapped, net, shown,
                   have, corrected>>
        /\ netFrame' = [netFrame EXCEPT ![p] = @ + 1]
        /\ netFrame[p] + 1 < MaxFrame /\ Released(p)
    BY DEF RunWithoutInput
  <1>2. netFrame' \in [Peer -> 0..MaxFrame]
    BY <1>1, SizeAssumption DEF TypeOK
  <1>3. TypeOK'
    BY <1>1, <1>2, ReleasedType DEF TypeOK, timelineVars
  <1> QED BY <1>1, <1>3 DEF timelineVars, StoredBelowHigh, NoneAbove,
                            SharedTimeline, AnnouncedIsWanted

LEMMA InvStutter ==
  ASSUME IInv, UNCHANGED vars
  PROVE  IInv'
  <1>1. TypeOK'
    BY DEF IInv, TypeOK, vars, timelineVars, queueVars, historyVars
  <1> QED BY <1>1 DEF IInv, vars, timelineVars, queueVars, AnnouncedIsWanted,
                      StoredBelowHigh, NoneAbove, SharedTimeline

LEMMA InvInit == Init => IInv
  <1> SUFFICES ASSUME Init PROVE IInv
    OBVIOUS
  <1>1. Seeded(0) \in [Slot -> Entry] /\ \A i \in Slot : Seeded(0)[i].frame = -1
    BY BlobAssumption, SizeAssumption DEF Seeded, Slot, Entry
  <1>2. TypeOK
    BY <1>1, BlobAssumption, SizeAssumption
       DEF Init, TypeOK, NoGuesses, NothingShown
  <1> QED BY <1>1, <1>2 DEF Init, IInv, AnnouncedIsWanted, StoredBelowHigh,
                            NoneAbove, SharedTimeline

LEMMA InvNext == IInv /\ [Next]_vars => IInv'
  <1> SUFFICES ASSUME IInv, [Next]_vars PROVE IInv'
    OBVIOUS
  <1>1. ASSUME NEW p \in Peer, ProposeEpoch(p) PROVE IInv'
    BY <1>1, InvProposeEpoch
  <1>2. ASSUME NEW p \in Peer, Receive(p) PROVE IInv'
    BY <1>2, InvOnPeerEpoch, InvRecvSameEpoch, InvRecvNewEpoch, InvRecvProposal
       DEF Receive, OnRecvInput
  <1>3. ASSUME NEW p \in Peer, PumpStalled(p) PROVE IInv'
    BY <1>3, InvPumpStalled
  <1>4. ASSUME NEW p \in Peer, RunFrame(p) PROVE IInv'
    BY <1>4, InvRunFrame
  <1>5. ASSUME NEW p \in Peer, ReplayFrames(p) PROVE IInv'
    BY <1>5, InvReplayFrames
  <1>6. ASSUME NEW p \in Peer, RunWithoutInput(p) PROVE IInv'
    BY <1>6, InvRunWithoutInput
  <1> QED BY <1>1, <1>2, <1>3, <1>4, <1>5, <1>6, InvStutter DEF Next

\* Every reachable state is well typed, for every size of the queues and the
\* window and any number of frames, epochs and datagrams.
THEOREM TypeCorrect == Spec => []TypeOK
  <1>1. IInv => TypeOK
    BY DEF IInv
  <1> QED BY <1>1, InvInit, InvNext, PTL DEF Spec

\* No peer ever runs on a timeline the other has not asked for or adopted
\* itself, whatever is lost, repeated or reordered (propose_epoch,
\* on_peer_epoch, the epoch gate of on_recv_input).
THEOREM TimelineIsShared == Spec => []SharedTimeline
  <1>1. IInv => SharedTimeline
    BY DEF IInv
  <1> QED BY <1>1, InvInit, InvNext, PTL DEF Spec

\* A peer moves only to a timeline above its own that the other peer wants.
LEMMA RestartAdopts ==
  ASSUME IInv, NEW p \in Peer, NEW q \in Peer, q # p, NEW d, NEW e \in Nat,
         e > epoch[p], e <= want[q], Restart(p, d, e)
  PROVE  Agreement!Adopt(p)
  <1>1. /\ epoch[p] \in Nat /\ want[q] \in Nat /\ want[p] \in Nat
        /\ want \in [Peer -> Nat]
    BY DEF IInv, TypeOK
  <1>2. e \in (epoch[p] + 1)..want[q]
    BY <1>1
  <1>3. /\ epoch' = [epoch EXCEPT ![p] = e]
        /\ want' = [want EXCEPT ![p] = IF @ >= e THEN @ ELSE e]
    BY DEF Restart, Newer
  <1> QED BY <1>2, <1>3 DEF Agreement!Adopt

LEMMA ProposeProposes ==
  ASSUME IInv, NEW p \in Peer, ProposeEpoch(p)
  PROVE  Agreement!Propose(p) \/ UNCHANGED <<epoch, want>>
  <1>1. /\ epoch' = epoch
        /\ \/ want' = [want EXCEPT ![p] = Newer(epoch[p], want[p]) + 1]
           \/ want' = want
    BY DEF ProposeEpoch
  <1>2. epoch[p] <= want[p] /\ epoch[p] \in Nat /\ want[p] \in Nat
    BY DEF IInv, TypeOK, SharedTimeline
  <1>3. Newer(epoch[p], want[p]) = want[p]
    BY <1>2 DEF Newer
  <1> QED BY <1>1, <1>3 DEF Agreement!Propose

LEMMA ReceiveAdopts ==
  ASSUME IInv, NEW p \in Peer, Receive(p)
  PROVE  Agreement!Adopt(p) \/ UNCHANGED <<epoch, want>>
  <1>1. PICK m \in net :
          /\ m.src # p
          /\ \/ m.type = "epoch" /\ OnPeerEpoch(p, m)
             \/ m.type = "input" /\ OnRecvInput(p, m)
    BY DEF Receive
  <1>2. /\ m.src \in Peer /\ m.epoch \in Nat /\ m.epoch <= want[m.src]
        /\ m.type = "input" => m.want \in Nat /\ m.want <= want[m.src]
    BY MessageKinds DEF IInv, AnnouncedIsWanted, IsInputMessage
  <1>3. CASE m.type = "epoch" /\ OnPeerEpoch(p, m)
    <2>1. CASE m.epoch > epoch[p] /\ Restart(p, m.delay, m.epoch)
      BY <1>1, <1>2, <2>1, RestartAdopts
    <2>2. CASE UNCHANGED timelineVars
      BY <2>2 DEF timelineVars
    <2> QED BY <1>3, <2>1, <2>2 DEF OnPeerEpoch
  <1>4. CASE m.type = "input" /\ OnRecvInput(p, m)
    <2>1. CASE RecvSameEpoch(p, m)
      BY <2>1 DEF RecvSameEpoch, timelineVars
    <2>2. CASE m.want > epoch[p] /\ Restart(p, delay[p], m.want)
      BY <1>1, <1>2, <1>4, <2>2, RestartAdopts
    <2> QED BY <1>4, <2>1, <2>2 DEF OnRecvInput, RecvNewEpoch, RecvProposal
  <1> QED BY <1>1, <1>3, <1>4

\* A step of the exchange, seen on the epoch numbers alone, proposes a
\* timeline, adopts one the other peer wants, or changes nothing.
LEMMA StepRefines ==
  IInv /\ [Next]_vars => [Agreement!Next]_<<epoch, want>>
  <1> SUFFICES ASSUME IInv, [Next]_vars
               PROVE  Agreement!Next \/ UNCHANGED <<epoch, want>>
    OBVIOUS
  <1>1. ASSUME NEW p \in Peer, ProposeEpoch(p)
        PROVE  Agreement!Next \/ UNCHANGED <<epoch, want>>
    BY <1>1, ProposeProposes DEF Agreement!Next
  <1>2. ASSUME NEW p \in Peer, Receive(p)
        PROVE  Agreement!Next \/ UNCHANGED <<epoch, want>>
    BY <1>2, ReceiveAdopts DEF Agreement!Next
  <1>3. ASSUME NEW p \in Peer,
               PumpStalled(p) \/ RunFrame(p) \/ ReplayFrames(p) \/ RunWithoutInput(p)
        PROVE  UNCHANGED <<epoch, want>>
    BY <1>3 DEF PumpStalled, RunFrame, ReplayFrames, RunWithoutInput, timelineVars
  <1>4. CASE UNCHANGED vars
    BY <1>4 DEF vars, timelineVars
  <1> QED BY <1>1, <1>2, <1>3, <1>4 DEF Next

\* The exchange implements the agreement on epochs, with the epoch numbers as
\* they stand for the refinement mapping.
THEOREM AgreementImplemented == Spec => ImplementsAgreement
  <1>1. Init => Agreement!Init
    BY DEF Init, Agreement!Init
  <1> QED BY <1>1, InvInit, InvNext, StepRefines, PTL
          DEF Spec, ImplementsAgreement, Agreement!Spec

\* A step that keeps the timeline of a peer keeps its clock or advances it.
LEMMA StepForward ==
  ASSUME IInv, IInv', [Next]_vars, NEW p \in Peer
  PROVE  /\ epoch'[p] >= epoch[p]
         /\ epoch'[p] = epoch[p] => netFrame'[p] >= netFrame[p]
         /\ want'[p] >= want[p]
  <1>1. /\ epoch \in [Peer -> Nat] /\ want \in [Peer -> Nat]
        /\ netFrame \in [Peer -> Nat]
    BY SizeAssumption DEF IInv, TypeOK
  <1>2. ASSUME NEW q \in Peer, NEW d, NEW e \in Nat, e > epoch[q],
               Restart(q, d, e)
        PROVE  /\ epoch'[p] >= epoch[p] /\ want'[p] >= want[p]
               /\ epoch'[p] = epoch[p] => netFrame'[p] >= netFrame[p]
    <2>1. /\ epoch' = [epoch EXCEPT ![q] = e]
          /\ want' = [want EXCEPT ![q] = Newer(want[q], e)]
          /\ netFrame' = [netFrame EXCEPT ![q] = 0]
      BY <1>2 DEF Restart
    <2> QED BY <1>1, <1>2, <2>1 DEF Newer
  <1>3. ASSUME NEW q \in Peer, NEW m \in net, m.type = "input", OnRecvInput(q, m)
        PROVE  /\ epoch'[p] >= epoch[p] /\ want'[p] >= want[p]
               /\ epoch'[p] = epoch[p] => netFrame'[p] >= netFrame[p]
    <2>1. m.want \in Nat
      BY <1>3, MessageKinds DEF IInv, IsInputMessage
    <2>2. CASE RecvSameEpoch(q, m)
      BY <1>1, <2>2 DEF RecvSameEpoch, timelineVars
    <2>3. CASE m.want > epoch[q] /\ Restart(q, delay[q], m.want)
      BY <1>2, <2>1, <2>3
    <2> QED BY <1>3, <2>2, <2>3 DEF OnRecvInput, RecvNewEpoch, RecvProposal
  <1>4. ASSUME NEW q \in Peer, NEW m \in net, m.type = "epoch", OnPeerEpoch(q, m)
        PROVE  /\ epoch'[p] >= epoch[p] /\ want'[p] >= want[p]
               /\ epoch'[p] = epoch[p] => netFrame'[p] >= netFrame[p]
    <2>1. m.epoch \in Nat
      BY MessageKinds DEF IInv
    <2>2. CASE m.epoch > epoch[q] /\ Restart(q, m.delay, m.epoch)
      BY <1>2, <2>1, <2>2
    <2>3. CASE UNCHANGED <<timelineVars, queueVars, historyVars>>
      BY <1>1, <2>3 DEF timelineVars, queueVars
    <2> QED BY <1>4, <2>2, <2>3 DEF OnPeerEpoch
  <1>5. ASSUME NEW q \in Peer, ProposeEpoch(q)
        PROVE  /\ epoch'[p] >= epoch[p] /\ want'[p] >= want[p]
               /\ epoch'[p] = epoch[p] => netFrame'[p] >= netFrame[p]
    <2>1. /\ epoch' = epoch /\ netFrame' = netFrame
          /\ want' = [want EXCEPT ![q] = Newer(epoch[q], want[q]) + 1]
             \/ want' = want
      BY <1>5 DEF ProposeEpoch, queueVars
    <2> QED BY <1>1, <2>1 DEF Newer
  <1>6. ASSUME NEW q \in Peer,
               RunFrame(q) \/ ReplayFrames(q) \/ RunWithoutInput(q) \/ PumpStalled(q)
        PROVE  /\ epoch'[p] >= epoch[p] /\ want'[p] >= want[p]
               /\ epoch'[p] = epoch[p] => netFrame'[p] >= netFrame[p]
    <2>1. /\ epoch' = epoch /\ want' = want
          /\ netFrame' = [netFrame EXCEPT ![q] = netFrame[q] + 1]
             \/ netFrame' = netFrame
      BY <1>6 DEF RunFrame, ReplayFrames, RunWithoutInput, PumpStalled,
                  timelineVars, queueVars
    <2> QED BY <1>1, <2>1
  <1>7. CASE UNCHANGED vars
    BY <1>1, <1>7 DEF vars, timelineVars, queueVars
  <1> QED BY <1>3, <1>4, <1>5, <1>6, <1>7 DEF Next, Receive

\* On a timeline the clock of a peer never runs backwards, and timelines are
\* only ever replaced by newer ones (on_peer_epoch, activate_epoch).
THEOREM ClockRunsForward == Spec => ClockForward
  <1>1. IInv /\ IInv' /\ [Next]_vars =>
          [\A p \in Peer : /\ epoch'[p] >= epoch[p]
                           /\ epoch'[p] = epoch[p] => netFrame'[p] >= netFrame[p]
                           /\ want'[p] >= want[p]]_vars
    BY StepForward
  <1> QED BY <1>1, InvInit, InvNext, PTL DEF Spec, ClockForward

----------------------------------------------------------------------------
(***************************************************************************)
(* With one input delay that never changes, two peers on one timeline hold *)
(* the same pad for every frame both have (InputAgreement).  The induction *)
(* rests on a frontier: a peer schedules only frames beyond the newest it  *)
(* has scheduled, so a frame once sent is never written again, and the     *)
(* frames below the delay are neutral everywhere.                          *)
(***************************************************************************)

FixedDelay == Delays \subseteq {FirstDelay}

\* The newest frame a peer has scheduled for itself.
Frontier(p) == lastCaptured[p] + FirstDelay

CaptureBehindClock ==
  \A p \in Peer : -1 <= lastCaptured[p] /\ lastCaptured[p] < netFrame[p]

\* Frames below the delay, and empty slots, are neutral.
NeutralBelowDelay(queue) ==
  \A i \in Slot : queue[i].frame < FirstDelay => queue[i].blob = Neutral
UpTo(queue, f) == \A i \in Slot : queue[i].frame <= f
Keyed(queue) ==
  \A i \in Slot : queue[i].frame = -1
                    \/ (queue[i].frame \in Nat /\ Idx(queue[i].frame) = i)
SamePads(q1, q2) ==
  \A i \in Slot : q1[i].frame = q2[i].frame => q1[i].blob = q2[i].blob

LocalInv ==
  \A p \in Peer : /\ Keyed(local[p]) /\ NeutralBelowDelay(local[p])
                  /\ UpTo(local[p], Frontier(p))

\* What a packet carries is what its sender holds, on the sender's timeline.
Carries(m, queue) ==
  \A f \in m.start..m.upto : \A i \in Slot :
     queue[i].frame = f => queue[i].blob = m.blobs[f]
PacketOK(m) ==
  /\ m.epoch <= epoch[m.src]
  /\ \A f \in m.start..m.upto : f < FirstDelay => m.blobs[f] = Neutral
  /\ m.epoch = epoch[m.src] =>
       m.upto <= Frontier(m.src) /\ Carries(m, local[m.src])
PacketInv == \A m \in net : m.type = "input" => PacketOK(m)

\* What q has of p: nothing beyond the seed before p joins the timeline of q,
\* and only frames p has scheduled, with p's pads, while they share one.
RemoteOf(p, q) ==
  /\ NeutralBelowDelay(remote[q])
  /\ epoch[p] < epoch[q] => UpTo(remote[q], FirstDelay - 1)
  /\ epoch[p] = epoch[q] => UpTo(remote[q], Frontier(p))
                            /\ SamePads(local[p], remote[q])
RemoteInv == \A p, q \in Peer : p # q => RemoteOf(p, q)

AInv == IInv /\ CaptureBehindClock /\ LocalInv /\ PacketInv /\ RemoteInv

-----------------------------------------------------------------------------
\* A seeded queue satisfies what is asked of a queue that starts afresh.
LEMMA SeedFacts ==
  /\ Keyed(Seeded(FirstDelay)) /\ NeutralBelowDelay(Seeded(FirstDelay))
  /\ UpTo(Seeded(FirstDelay), FirstDelay - 1)
  <1> SUFFICES ASSUME NEW i \in Slot
               PROVE  LET e == Seeded(FirstDelay)[i]
                      IN /\ e.frame = -1 \/ (e.frame \in Nat /\ Idx(e.frame) = i)
                         /\ e.blob = Neutral
                         /\ e.frame <= FirstDelay - 1
    BY DEF Keyed, NeutralBelowDelay, UpTo
  <1>1. /\ Seeded(FirstDelay)[i].frame = IF i < FirstDelay THEN i ELSE -1
        /\ Seeded(FirstDelay)[i].blob = Neutral
    BY DEF Seeded
  <1>2. i \in Nat /\ i < Ring /\ Ring \in Nat \ {0} /\ FirstDelay \in Nat
    BY SizeAssumption, DelayAssumption DEF Slot
  <1>3. Idx(i) = i
    BY <1>2 DEF Idx
  <1> QED BY <1>1, <1>2, <1>3

\* Two queues that agree below the delay and hold nothing above agree.
LEMMA NeutralQueuesAgree ==
  ASSUME NEW q1, NEW q2, \A i \in Slot : q1[i].frame \in Int,
         NeutralBelowDelay(q1), NeutralBelowDelay(q2),
         UpTo(q2, FirstDelay - 1)
  PROVE  SamePads(q1, q2)
  <1> SUFFICES ASSUME NEW i \in Slot, q1[i].frame = q2[i].frame
               PROVE  q1[i].blob = q2[i].blob
    BY DEF SamePads
  <1>1. q2[i].frame < FirstDelay
    BY DelayAssumption DEF UpTo
  <1> QED BY <1>1 DEF NeutralBelowDelay

\* The delay is the same everywhere when there is only one to choose.
LEMMA OneDelay ==
  ASSUME FixedDelay, NEW d \in Delays \cup {FirstDelay}
  PROVE  d = FirstDelay
  BY DEF FixedDelay

\* The frames a packet brings are those its sender scheduled.
LEMMA PacketContents ==
  ASSUME TypeOK, NEW p \in Peer, NEW upto \in Nat,
         NEW queue \in [Slot -> Entry], Keyed(queue), NeutralBelowDelay(queue),
         NEW m, m = InputPacket(p, upto, queue)
  PROVE  /\ m.type = "input" /\ m.src = p /\ m.upto = upto /\ m.epoch = epoch[p]
         /\ \A f \in m.start..m.upto : f < FirstDelay => m.blobs[f] = Neutral
         /\ Carries(m, queue)
  <1>1. /\ m.type = "input" /\ m.src = p /\ m.upto = upto /\ m.epoch = epoch[p]
        /\ m.start = WindowStart(p, upto)
        /\ m.blobs = [f \in WindowStart(p, upto)..upto |-> BlobAt(queue, f)]
    BY DEF InputPacket
  <1>2. m.start \in Nat
    BY PacketType DEF IsInputMessage
  <1>3. ASSUME NEW f \in m.start..m.upto
        PROVE  f \in Nat /\ m.blobs[f] = BlobAt(queue, f) /\ Idx(f) \in Slot
    BY <1>1, <1>2, SlotOfFrame
  <1>4. ASSUME NEW f \in m.start..m.upto, f < FirstDelay
        PROVE  m.blobs[f] = Neutral
    BY <1>3, <1>4 DEF BlobAt, Held, NeutralBelowDelay
  <1>5. ASSUME NEW f \in m.start..m.upto, NEW i \in Slot, queue[i].frame = f
        PROVE  queue[i].blob = m.blobs[f]
    <2>1. f # -1 /\ Idx(f) = i
      BY <1>3, <1>5 DEF Keyed
    <2> QED BY <1>3, <1>5, <2>1 DEF BlobAt, Held
  <1> QED BY <1>1, <1>4, <1>5 DEF Carries

\* Nothing that is claimed of the queues changes while they do not, as long
\* as what is sent carries what its sender holds.
LEMMA AgreeQuiet ==
  ASSUME AInv, IInv', UNCHANGED <<epoch, lastCaptured, local, remote>>,
         \A p \in Peer : netFrame'[p] >= netFrame[p],
         \A m \in net' : m.type = "input" => m \in net \/ PacketOK(m)
  PROVE  AInv'
  <1> USE DEF AInv
  <1>1. CaptureBehindClock'
    <2> SUFFICES ASSUME NEW p \in Peer
                 PROVE  -1 <= lastCaptured[p] /\ lastCaptured[p] < netFrame'[p]
      BY DEF CaptureBehindClock
    <2>1. lastCaptured[p] \in Int /\ netFrame[p] \in Int /\ netFrame'[p] \in Int
      BY SizeAssumption DEF IInv, TypeOK
    <2> QED BY <2>1 DEF CaptureBehindClock
  <1>2. LocalInv' /\ RemoteInv'
    BY DEF LocalInv, RemoteInv, RemoteOf, Frontier, Keyed, NeutralBelowDelay,
           UpTo, SamePads
  <1>3. PacketInv'
    BY DEF PacketInv, PacketOK, Frontier, Carries
  <1> QED BY <1>1, <1>2, <1>3

\* What is queued after the frames of a packet are stored over a queue.
LEMMA StoredQueue ==
  ASSUME TypeOK, CaptureBehindClock, NEW m, IsInputMessage(m), PacketOK(m),
         NEW base \in [Slot -> Entry], NeutralBelowDelay(base)
  PROVE  LET R == Filled(base, Missing(m, base), m.blobs)
         IN /\ NeutralBelowDelay(R)
            /\ (/\ m.epoch = epoch[m.src] /\ UpTo(base, Frontier(m.src))
                /\ SamePads(local[m.src], base))
               => UpTo(R, Frontier(m.src)) /\ SamePads(local[m.src], R)
  <1>1. PICK F, b, R : F = Missing(m, base) /\ b = m.blobs /\ R = Filled(base, F, b)
    OBVIOUS
  <1>2. /\ F \in SUBSET Nat /\ \A f \in F : b[f] \in Blob
        /\ \A f \in F : f \in m.start..m.upto /\ f <= m.upto
        /\ m.upto \in Int
    BY <1>1 DEF Missing, IsInputMessage
  <1>3. StoredOver(R, base, F, b)
    <2>1. F \in SUBSET Nat /\ \A f \in F : b[f] \in Blob
      BY <1>2
    <2>2. StoredOver(Filled(base, F, b), base, F, b)
      BY <2>1, FilledSlots
    <2> QED BY <1>1, <2>2
  <1>4. ASSUME NEW i \in Slot
        PROVE  \/ R[i] = base[i]
               \/ \E f \in F : R[i].frame = f /\ R[i].blob = b[f]
    BY <1>3, StoredFrame
  <1>5. NeutralBelowDelay(R)
    <2> SUFFICES ASSUME NEW i \in Slot, R[i].frame < FirstDelay
                 PROVE  R[i].blob = Neutral
      BY DEF NeutralBelowDelay
    <2>1. CASE R[i] = base[i]
      BY <2>1 DEF NeutralBelowDelay
    <2>2. ASSUME NEW f \in F, R[i].frame = f, R[i].blob = b[f]
          PROVE  R[i].blob = Neutral
      BY <1>1, <1>2, <2>2 DEF PacketOK
    <2> QED BY <1>4, <2>1, <2>2
  <1>6. ASSUME m.epoch = epoch[m.src], UpTo(base, Frontier(m.src)),
               SamePads(local[m.src], base)
        PROVE  UpTo(R, Frontier(m.src)) /\ SamePads(local[m.src], R)
    <2>1. m.upto <= Frontier(m.src) /\ Carries(m, local[m.src])
      BY <1>6 DEF PacketOK
    <2>2. Frontier(m.src) \in Int
      BY DelayAssumption DEF Frontier, TypeOK, IsInputMessage
    <2>3. UpTo(R, Frontier(m.src))
      <3> SUFFICES ASSUME NEW i \in Slot PROVE R[i].frame <= Frontier(m.src)
        BY DEF UpTo
      <3>1. CASE R[i] = base[i]
        BY <1>6, <3>1 DEF UpTo
      <3>2. ASSUME NEW f \in F, R[i].frame = f
            PROVE  R[i].frame <= Frontier(m.src)
        BY <1>2, <2>1, <2>2, <3>2
      <3> QED BY <1>4, <3>1, <3>2
    <2>4. SamePads(local[m.src], R)
      <3> SUFFICES ASSUME NEW i \in Slot, local[m.src][i].frame = R[i].frame
                   PROVE  local[m.src][i].blob = R[i].blob
        BY DEF SamePads
      <3>1. CASE R[i] = base[i]
        BY <1>6, <3>1 DEF SamePads
      <3>2. ASSUME NEW f \in F, R[i].frame = f, R[i].blob = b[f]
            PROVE  local[m.src][i].blob = R[i].blob
        BY <1>1, <1>2, <2>1, <3>2 DEF Carries
      <3> QED BY <1>4, <3>1, <3>2
    <2> QED BY <2>3, <2>4
  <1> QED BY <1>1, <1>5, <1>6

\* A peer that restarts on a newer timeline: the packets it sent and what the
\* other holds of it belong to the past; what it now holds of the other is R.
LEMMA AgreeRestart ==
  ASSUME AInv, IInv', NEW p \in Peer, NEW e \in Nat, e > epoch[p],
         Restart(p, FirstDelay, e), net' = net,
         NEW R, remote' = [remote EXCEPT ![p] = R], NeutralBelowDelay(R),
         \A q \in Peer \ {p} :
           /\ epoch[q] < e => UpTo(R, FirstDelay - 1)
           /\ epoch[q] = e => UpTo(R, Frontier(q)) /\ SamePads(local[q], R)
  PROVE  AInv'
  <1> USE DEF AInv
  <1>1. /\ epoch' = [epoch EXCEPT ![p] = e]
        /\ netFrame' = [netFrame EXCEPT ![p] = 0]
        /\ lastCaptured' = [lastCaptured EXCEPT ![p] = -1]
        /\ local' = [local EXCEPT ![p] = Seeded(FirstDelay)]
    BY DEF Restart
  <1>2. /\ epoch \in [Peer -> Nat] /\ netFrame \in [Peer -> 0..MaxFrame]
        /\ lastCaptured \in [Peer -> Int] /\ local \in [Peer -> [Slot -> Entry]]
        /\ remote \in [Peer -> [Slot -> Entry]] /\ FirstDelay \in Nat
    BY DelayAssumption DEF IInv, TypeOK
  <1>3. CaptureBehindClock'
    BY <1>1, <1>2 DEF CaptureBehindClock
  <1>4. /\ Frontier(p)' = FirstDelay - 1
        /\ \A q \in Peer \ {p} : Frontier(q)' = Frontier(q) /\ Frontier(q) \in Int
    BY <1>1, <1>2 DEF Frontier
  <1>5. LocalInv'
    <2> SUFFICES ASSUME NEW q \in Peer
                 PROVE  /\ Keyed(local'[q]) /\ NeutralBelowDelay(local'[q])
                        /\ UpTo(local'[q], Frontier(q)')
      BY DEF LocalInv, Keyed, NeutralBelowDelay, UpTo
    <2>1. CASE q = p
      BY <1>1, <1>2, <1>4, <2>1, SeedFacts
    <2>2. CASE q # p
      BY <1>1, <1>2, <1>4, <2>2 DEF LocalInv
    <2> QED BY <2>1, <2>2
  <1>6. PacketInv'
    <2> SUFFICES ASSUME NEW m \in net, m.type = "input" PROVE PacketOK(m)'
      BY DEF PacketInv
    <2>1. m.src \in Peer /\ m.epoch \in Nat
      BY MessageKinds DEF IInv
    <2>2. CASE m.src = p
      <3>1. m.epoch <= epoch[p]
        BY <2>2 DEF PacketInv, PacketOK
      <3>2. m.epoch < epoch'[p]
        BY <1>1, <1>2, <2>1, <3>1
      <3> QED BY <2>1, <2>2, <3>2, <1>1, <1>2 DEF PacketInv, PacketOK
    <2>3. CASE m.src # p
      BY <1>1, <1>2, <1>4, <2>1, <2>3 DEF PacketInv, PacketOK, Carries
    <2> QED BY <2>2, <2>3
  <1>7. RemoteInv'
    <2> SUFFICES ASSUME NEW q \in Peer, NEW r \in Peer, q # r
                 PROVE  RemoteOf(q, r)'
      BY DEF RemoteInv
    <2>1. CASE r = p
      <3>1. /\ remote'[r] = R /\ epoch'[r] = e /\ epoch'[q] = epoch[q]
            /\ local'[q] = local[q] /\ Frontier(q)' = Frontier(q)
        BY <1>1, <1>2, <1>4, <2>1
      <3>2. q \in Peer \ {p}
        BY <2>1
      <3> QED BY <3>1, <3>2 DEF RemoteOf, NeutralBelowDelay, UpTo, SamePads
    <2>2. CASE q = p
      <3>1. /\ remote'[r] = remote[r] /\ epoch'[q] = e /\ epoch'[r] = epoch[r]
            /\ local'[q] = Seeded(FirstDelay) /\ Frontier(q)' = FirstDelay - 1
            /\ epoch[q] < e /\ epoch[r] \in Nat /\ epoch[q] \in Nat
        BY <1>1, <1>2, <1>4, <2>2
      <3>2. RemoteOf(q, r)
        BY DEF RemoteInv
      <3>3. e <= epoch[r] => UpTo(remote[r], FirstDelay - 1)
        BY <3>1, <3>2 DEF RemoteOf
      <3>4. UpTo(remote[r], FirstDelay - 1)
              => SamePads(Seeded(FirstDelay), remote[r])
        <4>1. \A i \in Slot : Seeded(FirstDelay)[i].frame \in Int
          BY SeededQueue DEF Entry
        <4> QED BY <3>2, <4>1, SeedFacts, NeutralQueuesAgree DEF RemoteOf
      <3> QED BY <3>1, <3>2, <3>3, <3>4
              DEF RemoteOf, NeutralBelowDelay, UpTo, SamePads
    <2>3. CASE q # p /\ r # p
      <3>1. /\ remote'[r] = remote[r] /\ epoch'[r] = epoch[r]
            /\ epoch'[q] = epoch[q] /\ local'[q] = local[q]
            /\ Frontier(q)' = Frontier(q)
        BY <1>1, <1>2, <1>4, <2>3
      <3>2. RemoteOf(q, r)
        BY DEF RemoteInv
      <3> QED BY <3>1, <3>2 DEF RemoteOf, NeutralBelowDelay, UpTo, SamePads
    <2> QED BY <2>1, <2>2, <2>3
  <1> QED BY <1>3, <1>5, <1>6, <1>7

\* Adopting a timeline afresh (on_peer_epoch, the discarding branch of
\* on_recv_input).
LEMMA AgreeAdopt ==
  ASSUME AInv, IInv', FixedDelay, NEW p \in Peer,
         NEW d \in Delays \cup {FirstDelay}, NEW e \in Nat, e > epoch[p],
         Restart(p, d, e), net' = net,
         remote' = [remote EXCEPT ![p] = Seeded(d)]
  PROVE  AInv'
  <1> USE DEF AInv
  <1>1. d = FirstDelay
    BY OneDelay
  <1>2. PICK R : R = Seeded(FirstDelay)
    OBVIOUS
  <1>3. NeutralBelowDelay(R) /\ UpTo(R, FirstDelay - 1) /\ R \in [Slot -> Entry]
    BY <1>1, <1>2, SeedFacts, SeededQueue
  <1>4. ASSUME NEW q \in Peer \ {p}
        PROVE  UpTo(R, Frontier(q)) /\ SamePads(local[q], R)
    <2>1. /\ lastCaptured[q] \in Int /\ lastCaptured[q] >= -1
          /\ local[q] \in [Slot -> Entry] /\ NeutralBelowDelay(local[q])
          /\ FirstDelay \in Nat
      BY DelayAssumption DEF IInv, TypeOK, CaptureBehindClock, LocalInv
    <2>2. FirstDelay - 1 <= Frontier(q)
      BY <2>1 DEF Frontier
    <2>3. UpTo(R, Frontier(q))
      BY <1>3, <2>1, <2>2 DEF UpTo, Entry, Frontier
    <2>4. \A i \in Slot : local[q][i].frame \in Int
      BY <2>1 DEF Entry
    <2> QED BY <1>3, <2>1, <2>3, <2>4, NeutralQueuesAgree
  <1>5. Restart(p, FirstDelay, e) /\ remote' = [remote EXCEPT ![p] = R]
    BY <1>1, <1>2
  <1> QED BY <1>3, <1>4, <1>5, AgreeRestart

LEMMA AgreeOnPeerEpoch ==
  ASSUME AInv, IInv', FixedDelay, NEW p \in Peer, NEW m \in net,
         m.type = "epoch", OnPeerEpoch(p, m)
  PROVE  AInv'
  <1>1. /\ m.epoch \in Nat /\ m.delay \in Delays \cup {FirstDelay}
    BY MessageKinds DEF AInv, IInv, EpochMessage
  <1>2. CASE /\ m.epoch > epoch[p] /\ Restart(p, m.delay, m.epoch)
             /\ remote' = [remote EXCEPT ![p] = Seeded(m.delay)] /\ net' = net
    BY <1>1, <1>2, AgreeAdopt
  <1>3. CASE /\ Transmit({EpochPacket(p, want[p], delay[p])})
             /\ UNCHANGED <<timelineVars, queueVars, historyVars>>
    <2>1. \A n \in net' : n.type = "input" => n \in net
      BY <1>3, OnlySentArrives DEF EpochPacket
    <2>2. /\ UNCHANGED <<epoch, lastCaptured, local, remote>>
          /\ \A q \in Peer : netFrame'[q] >= netFrame[q]
      BY <1>3, SizeAssumption
         DEF timelineVars, queueVars, AInv, IInv, TypeOK
    <2> QED BY <2>1, <2>2, AgreeQuiet
  <1> QED BY <1>2, <1>3 DEF OnPeerEpoch

LEMMA AgreeProposeEpoch ==
  ASSUME AInv, IInv', NEW p \in Peer, ProposeEpoch(p)
  PROVE  AInv'
  <1>1. PICK d \in Delays :
          /\ \/ Transmit({EpochPacket(p, want'[p], d)})
             \/ UNCHANGED net
          /\ UNCHANGED <<epoch, queueVars>>
    BY DEF ProposeEpoch
  <1>2. \A n \in net' : n.type = "input" => n \in net
    BY <1>1, OnlySentArrives DEF EpochPacket
  <1>3. /\ UNCHANGED <<epoch, lastCaptured, local, remote>>
        /\ \A q \in Peer : netFrame'[q] >= netFrame[q]
    BY <1>1, SizeAssumption DEF queueVars, AInv, IInv, TypeOK
  <1> QED BY <1>2, <1>3, AgreeQuiet

LEMMA AgreeRunWithoutInput ==
  ASSUME AInv, IInv', NEW p \in Peer, RunWithoutInput(p)
  PROVE  AInv'
  <1>1. /\ UNCHANGED <<epoch, lastCaptured, local, remote, net>>
        /\ netFrame' = [netFrame EXCEPT ![p] = @ + 1]
    BY DEF RunWithoutInput, timelineVars
  <1>2. \A q \in Peer : netFrame'[q] >= netFrame[q]
    <2>1. netFrame \in [Peer -> 0..MaxFrame] /\ MaxFrame \in Nat
      BY SizeAssumption DEF AInv, IInv, TypeOK
    <2> QED BY <1>1, <2>1
  <1> QED BY <1>1, <1>2, AgreeQuiet

LEMMA AgreeReplayFrames ==
  ASSUME AInv, IInv', NEW p \in Peer, ReplayFrames(p)
  PROVE  AInv'
  <1>1. UNCHANGED <<epoch, lastCaptured, local, remote, net, netFrame>>
    BY DEF ReplayFrames, timelineVars, queueVars
  <1>2. netFrame \in [Peer -> 0..MaxFrame] /\ MaxFrame \in Nat
    BY SizeAssumption DEF AInv, IInv, TypeOK
  <1> QED BY <1>1, <1>2, AgreeQuiet

LEMMA AgreePumpStalled ==
  ASSUME AInv, IInv', FixedDelay, NEW p \in Peer, PumpStalled(p)
  PROVE  AInv'
  <1> USE DEF AInv
  <1>1. /\ UNCHANGED <<timelineVars, queueVars, historyVars>>
        /\ lastCaptured[p] >= 0
        /\ Transmit({InputPacket(p, lastCaptured[p] + delay[p], local[p])})
    BY DEF PumpStalled
  <1>2. /\ delay[p] = FirstDelay /\ lastCaptured[p] \in Int
        /\ local[p] \in [Slot -> Entry]
        /\ Keyed(local[p]) /\ NeutralBelowDelay(local[p])
    BY OneDelay DEF IInv, TypeOK, LocalInv
  <1>3. PICK upto : upto = Frontier(p)
    OBVIOUS
  <1>4. upto \in Nat /\ Transmit({InputPacket(p, upto, local[p])})
    BY <1>1, <1>2, <1>3, DelayAssumption DEF Frontier
  <1>5. PICK n : n = InputPacket(p, upto, local[p])
    OBVIOUS
  <1>6. /\ n.src = p /\ n.upto = upto /\ n.epoch = epoch[p]
        /\ \A f \in n.start..n.upto : f < FirstDelay => n.blobs[f] = Neutral
        /\ Carries(n, local[p])
    BY <1>2, <1>4, <1>5, PacketContents DEF IInv
  <1>7. PacketOK(n)
    <2>1. epoch[p] \in Nat /\ upto <= Frontier(p)
      BY <1>3, <1>4 DEF IInv, TypeOK
    <2> QED BY <1>6, <2>1 DEF PacketOK
  <1>8. \A x \in net' : x \in net \/ x = n
    BY <1>4, <1>5, OnlySentArrives
  <1>9. /\ UNCHANGED <<epoch, lastCaptured, local, remote>>
        /\ \A q \in Peer : netFrame'[q] >= netFrame[q]
    BY <1>1, SizeAssumption DEF timelineVars, queueVars, IInv, TypeOK
  <1> QED BY <1>7, <1>8, <1>9, AgreeQuiet

\* The packet is the other peer's, and its pads are what that peer holds.
LEMMA AgreeRecvSameEpoch ==
  ASSUME AInv, IInv', NEW p \in Peer, NEW m \in net, m.type = "input",
         m.src # p, RecvSameEpoch(p, m)
  PROVE  AInv'
  <1> USE DEF AInv
  <1>1. IsInputMessage(m) /\ m.src \in Peer /\ PacketOK(m)
    BY MessageKinds DEF IInv, PacketInv
  <1>2. /\ m.epoch = epoch[p]
        /\ UNCHANGED <<epoch, netFrame, lastCaptured, local, net>>
    BY DEF RecvSameEpoch, timelineVars
  <1>3. PICK R : R = Filled(remote[p], Missing(m, remote[p]), m.blobs)
    OBVIOUS
  <1>4. remote' = [remote EXCEPT ![p] = R]
    BY <1>3 DEF RecvSameEpoch, StoreInput
  <1>5. \A q \in Peer : epoch[q] \in Nat
    BY DEF IInv, TypeOK
  <1>6. RemoteOf(m.src, p)
    BY <1>1 DEF RemoteInv
  <1>7. /\ NeutralBelowDelay(R)
        /\ epoch[m.src] = epoch[p] => UpTo(R, Frontier(m.src))
                                      /\ SamePads(local[m.src], R)
    <2>1. remote[p] \in [Slot -> Entry] /\ NeutralBelowDelay(remote[p])
      BY <1>6 DEF IInv, TypeOK, RemoteOf
    <2> QED BY <1>1, <1>2, <1>3, <1>6, <2>1, StoredQueue DEF IInv, RemoteOf
  <1>8. ASSUME NEW q \in Peer, NEW r \in Peer, q # r
        PROVE  RemoteOf(q, r)'
    <2>1. CASE r = p
      <3>1. q = m.src
        BY <1>1, <2>1, <1>8, PeerAssumption
      <3>2. ~(epoch[q] < epoch[r])
        BY <1>1, <1>2, <1>5, <2>1, <3>1 DEF PacketOK
      <3>3. remote'[r] = R
        BY <1>4, <2>1 DEF IInv, TypeOK
      <3> QED BY <1>2, <1>7, <2>1, <3>1, <3>2, <3>3
              DEF RemoteOf, NeutralBelowDelay, UpTo, SamePads, Frontier
    <2>2. CASE r # p
      <3>1. remote'[r] = remote[r] /\ RemoteOf(q, r)
        BY <1>4, <1>8, <2>2 DEF IInv, TypeOK, RemoteInv
      <3> QED BY <1>2, <3>1
              DEF RemoteOf, NeutralBelowDelay, UpTo, SamePads, Frontier
    <2> QED BY <2>1, <2>2
  <1>9. RemoteInv'
    BY <1>8 DEF RemoteInv
  <1>10. CaptureBehindClock' /\ LocalInv' /\ PacketInv'
    BY <1>2 DEF CaptureBehindClock, LocalInv, PacketInv, PacketOK, Keyed,
                NeutralBelowDelay, UpTo, Carries, Frontier
  <1> QED BY <1>9, <1>10

LEMMA AgreeRecvNewEpoch ==
  ASSUME AInv, IInv', FixedDelay, NEW p \in Peer, NEW m \in net,
         m.type = "input", m.src # p, RecvNewEpoch(p, m)
  PROVE  AInv'
  <1> USE DEF AInv
  <1>1. IsInputMessage(m) /\ m.src \in Peer /\ PacketOK(m) /\ m.want \in Nat
    BY MessageKinds DEF IInv, PacketInv, IsInputMessage
  <1>2. delay[p] = FirstDelay
    BY OneDelay DEF IInv, TypeOK
  <1>3. PICK S : S = Seeded(FirstDelay)
    OBVIOUS
  <1>4. PICK R : R = Filled(S, Missing(m, S), m.blobs)
    OBVIOUS
  <1>5. /\ m.want > epoch[p] /\ m.epoch = m.want /\ net' = net
        /\ Restart(p, FirstDelay, m.want)
        /\ remote' = [remote EXCEPT ![p] = R]
    BY <1>2, <1>3, <1>4 DEF RecvNewEpoch, StoreInput
  <1>6. S \in [Slot -> Entry] /\ NeutralBelowDelay(S) /\ UpTo(S, FirstDelay - 1)
    BY <1>3, SeedFacts, SeededQueue
  <1>7. UpTo(S, Frontier(m.src)) /\ SamePads(local[m.src], S)
    <2>1. /\ lastCaptured[m.src] \in Int /\ lastCaptured[m.src] >= -1
          /\ local[m.src] \in [Slot -> Entry] /\ NeutralBelowDelay(local[m.src])
          /\ FirstDelay \in Nat
      BY <1>1, DelayAssumption DEF IInv, TypeOK, CaptureBehindClock, LocalInv
    <2>2. FirstDelay - 1 <= Frontier(m.src)
      BY <2>1 DEF Frontier
    <2>3. UpTo(S, Frontier(m.src))
      BY <1>6, <2>1, <2>2 DEF UpTo, Entry, Frontier
    <2>4. \A i \in Slot : local[m.src][i].frame \in Int
      BY <2>1 DEF Entry
    <2> QED BY <1>6, <2>1, <2>3, <2>4, NeutralQueuesAgree
  <1>8. /\ NeutralBelowDelay(R)
        /\ m.epoch = epoch[m.src] => UpTo(R, Frontier(m.src))
                                     /\ SamePads(local[m.src], R)
    BY <1>1, <1>4, <1>6, <1>7, StoredQueue DEF IInv
  <1>9. ASSUME NEW q \in Peer \ {p}
        PROVE  /\ epoch[q] < m.want => UpTo(R, FirstDelay - 1)
               /\ epoch[q] = m.want => UpTo(R, Frontier(q)) /\ SamePads(local[q], R)
    <2>1. q = m.src
      BY <1>1, PeerAssumption
    <2>2. ~(epoch[q] < m.want)
      <3>1. m.epoch <= epoch[q] /\ epoch[q] \in Nat
        BY <1>1, <2>1 DEF PacketOK, IInv, TypeOK
      <3> QED BY <1>1, <1>5, <3>1
    <2> QED BY <1>5, <1>8, <2>1, <2>2
  <1> QED BY <1>1, <1>5, <1>8, <1>9, AgreeRestart

\* The queue after a capture: the frames scheduled before stand, and what is
\* new lies beyond the frontier, up to delay frames ahead of the clock.
LEMMA CapturedQueue ==
  ASSUME AInv, FixedDelay, NEW p \in Peer, NEW raw \in Blob, NEW Q,
         Q = Filled(local[p], CaptureFrames(p), [f \in CaptureFrames(p) |-> raw])
  PROVE  /\ Q \in [Slot -> Entry] /\ Keyed(Q) /\ NeutralBelowDelay(Q)
         /\ UpTo(Q, netFrame[p] + FirstDelay)
         /\ Frontier(p) < netFrame[p] + FirstDelay
         /\ \A i \in Slot : Q[i] = local[p][i] \/ Q[i].frame > Frontier(p)
  <1> USE DEF AInv
  <1>1. PICK F, b : F = CaptureFrames(p) /\ b = [f \in F |-> raw]
    OBVIOUS
  <1>2. /\ netFrame[p] \in Nat /\ lastCaptured[p] \in Int
        /\ -1 <= lastCaptured[p] /\ lastCaptured[p] < netFrame[p]
        /\ delay[p] = FirstDelay /\ FirstDelay \in Nat
    <2>1. /\ netFrame[p] \in 0..MaxFrame /\ lastCaptured[p] \in Int
          /\ delay[p] \in Delays \cup {FirstDelay}
      BY DEF IInv, TypeOK
    <2>2. -1 <= lastCaptured[p] /\ lastCaptured[p] < netFrame[p]
      BY DEF CaptureBehindClock
    <2>3. MaxFrame \in Nat /\ FirstDelay \in Nat
      BY SizeAssumption, DelayAssumption
    <2> QED BY <2>1, <2>2, <2>3, OneDelay
  <1>3. /\ F \in SUBSET Nat
        /\ \A f \in F : f <= netFrame[p] + FirstDelay /\ f > Frontier(p)
    <2>1. /\ F \in SUBSET Nat
          /\ \A f \in F :
              /\ f <= netFrame[p] + delay[p]
              /\ lastCaptured[p] >= 0 =>
                   f > lastCaptured[p] + delay[p] \/ f = netFrame[p] + delay[p]
              /\ lastCaptured[p] < 0 => f = netFrame[p] + delay[p]
      BY <1>1, CaptureRange DEF IInv
    <2> QED BY <1>2, <2>1 DEF Frontier
  <1>4. /\ Frontier(p) \in Int /\ Frontier(p) < netFrame[p] + FirstDelay
        /\ FirstDelay - 1 <= Frontier(p)
    BY <1>2 DEF Frontier
  <1>5. /\ local[p] \in [Slot -> Entry] /\ Keyed(local[p])
        /\ NeutralBelowDelay(local[p]) /\ UpTo(local[p], Frontier(p))
    BY DEF IInv, TypeOK, LocalInv
  <1>6. \A f \in F : b[f] \in Blob
    BY <1>1
  <1>7. Q \in [Slot -> Entry] /\ StoredOver(Q, local[p], F, b)
    <2>1. /\ Filled(local[p], F, b) \in [Slot -> Entry]
          /\ StoredOver(Filled(local[p], F, b), local[p], F, b)
      BY <1>3, <1>5, <1>6, FilledSlots
    <2> QED BY <1>1, <2>1
  <1>8. ASSUME NEW i \in Slot
        PROVE  \/ Q[i] = local[p][i]
               \/ \E f \in F : Idx(f) = i /\ Q[i].frame = f
    BY <1>7, StoredFrame
  <1>9. ASSUME NEW i \in Slot
        PROVE  /\ Q[i] = local[p][i] \/ Q[i].frame > Frontier(p)
               /\ Q[i].frame <= netFrame[p] + FirstDelay
               /\ Q[i].frame = -1 \/ (Q[i].frame \in Nat /\ Idx(Q[i].frame) = i)
               /\ Q[i].frame < FirstDelay => Q[i].blob = Neutral
    <2>1. CASE Q[i] = local[p][i]
      <3>1. Q[i].frame \in Int /\ Q[i].frame <= Frontier(p)
        BY <1>5, <2>1 DEF Entry, UpTo
      <3> QED BY <1>2, <1>4, <1>5, <2>1, <3>1 DEF Keyed, NeutralBelowDelay
    <2>2. ASSUME NEW f \in F, Idx(f) = i, Q[i].frame = f
          PROVE  /\ Q[i].frame > Frontier(p) /\ Q[i].frame \in Nat
                 /\ Q[i].frame <= netFrame[p] + FirstDelay
                 /\ Idx(Q[i].frame) = i /\ ~(Q[i].frame < FirstDelay)
      BY <1>2, <1>3, <1>4, <2>2
    <2> QED BY <1>8, <2>1, <2>2
  <1> QED BY <1>4, <1>7, <1>9 DEF Keyed, NeutralBelowDelay, UpTo

LEMMA AgreeRunFrame ==
  ASSUME AInv, IInv', FixedDelay, NEW p \in Peer, RunFrame(p)
  PROVE  AInv'
  <1> USE DEF AInv
  <1>1. PICK raw \in Blob :
          LET F == CaptureFrames(p)
              queue == Filled(local[p], F, [f \in F |-> raw])
          IN /\ local' = [local EXCEPT ![p] = queue]
             /\ Transmit({InputPacket(p, netFrame[p] + delay[p], queue)})
             /\ lastCaptured' = [lastCaptured EXCEPT ![p] = netFrame[p]]
             /\ netFrame' = [netFrame EXCEPT ![p] = netFrame[p] + 1]
    BY DEF RunFrame
  <1>2. PICK Q : Q = Filled(local[p], CaptureFrames(p),
                            [f \in CaptureFrames(p) |-> raw])
    OBVIOUS
  <1>3. PICK upto : upto = netFrame[p] + FirstDelay
    OBVIOUS
  <1>4. /\ netFrame[p] \in Nat /\ delay[p] = FirstDelay /\ FirstDelay \in Nat
        /\ upto \in Nat /\ netFrame \in [Peer -> 0..MaxFrame]
        /\ lastCaptured \in [Peer -> Int] /\ local \in [Peer -> [Slot -> Entry]]
    <2>1. /\ netFrame \in [Peer -> 0..MaxFrame] /\ netFrame[p] \in 0..MaxFrame
          /\ delay[p] \in Delays \cup {FirstDelay}
          /\ lastCaptured \in [Peer -> Int] /\ local \in [Peer -> [Slot -> Entry]]
      BY DEF IInv, TypeOK
    <2>2. MaxFrame \in Nat /\ FirstDelay \in Nat
      BY SizeAssumption, DelayAssumption
    <2> QED BY <1>3, <2>1, <2>2, OneDelay
  <1>5. /\ local' = [local EXCEPT ![p] = Q]
        /\ lastCaptured' = [lastCaptured EXCEPT ![p] = netFrame[p]]
        /\ netFrame' = [netFrame EXCEPT ![p] = netFrame[p] + 1]
        /\ Transmit({InputPacket(p, upto, Q)})
        /\ epoch' = epoch /\ remote' = remote
    BY <1>1, <1>2, <1>3, <1>4 DEF RunFrame, timelineVars
  <1>6. /\ Q \in [Slot -> Entry] /\ Keyed(Q) /\ NeutralBelowDelay(Q)
        /\ UpTo(Q, upto) /\ Frontier(p) < upto
        /\ \A i \in Slot : Q[i] = local[p][i] \/ Q[i].frame > Frontier(p)
    BY <1>2, <1>3, CapturedQueue
  <1>7. /\ Frontier(p)' = upto /\ Frontier(p) \in Int
        /\ \A q \in Peer \ {p} : Frontier(q)' = Frontier(q)
    BY <1>3, <1>4, <1>5 DEF Frontier
  <1>8. CaptureBehindClock'
    <2> SUFFICES ASSUME NEW q \in Peer
                 PROVE  -1 <= lastCaptured'[q] /\ lastCaptured'[q] < netFrame'[q]
      BY DEF CaptureBehindClock
    <2>1. CASE q = p
      BY <1>4, <1>5, <2>1
    <2>2. CASE q # p
      BY <1>4, <1>5, <2>2 DEF CaptureBehindClock
    <2> QED BY <2>1, <2>2
  <1>9. LocalInv'
    <2> SUFFICES ASSUME NEW q \in Peer
                 PROVE  /\ Keyed(local'[q]) /\ NeutralBelowDelay(local'[q])
                        /\ UpTo(local'[q], Frontier(q)')
      BY DEF LocalInv, Keyed, NeutralBelowDelay, UpTo
    <2>1. CASE q = p
      BY <1>4, <1>5, <1>6, <1>7, <2>1
    <2>2. CASE q # p
      BY <1>4, <1>5, <1>7, <2>2 DEF LocalInv
    <2> QED BY <2>1, <2>2
  <1>10. PICK n : n = InputPacket(p, upto, Q)
    OBVIOUS
  <1>11. /\ n.src = p /\ n.upto = upto /\ n.epoch = epoch[p]
         /\ \A f \in n.start..n.upto : f < FirstDelay => n.blobs[f] = Neutral
         /\ Carries(n, Q)
    BY <1>4, <1>6, <1>10, PacketContents DEF IInv
  <1>12. ASSUME NEW m \in net', m.type = "input" PROVE PacketOK(m)'
    <2>1. CASE m = n
      <3>1. local'[p] = Q /\ epoch[p] \in Nat
        BY <1>4, <1>5 DEF IInv, TypeOK
      <3> QED BY <1>4, <1>5, <1>7, <1>11, <2>1, <3>1 DEF PacketOK, Carries
    <2>2. CASE m \in net
      <3>1. PacketOK(m) /\ m.src \in Peer /\ IsInputMessage(m)
        BY <1>12, <2>2, MessageKinds DEF IInv, PacketInv
      <3>2. CASE m.src # p
        <4>1. local'[m.src] = local[m.src] /\ Frontier(m.src)' = Frontier(m.src)
          BY <1>4, <1>5, <1>7, <3>1, <3>2
        <4> QED BY <1>5, <3>1, <4>1 DEF PacketOK, Carries
      <3>3. CASE m.src = p
        <4>1. local'[p] = Q
          BY <1>4, <1>5
        <4>2. ASSUME m.epoch = epoch[p]
              PROVE  m.upto <= upto /\ Carries(m, Q)
          <5>1. m.upto <= Frontier(p) /\ Carries(m, local[p]) /\ m.upto \in Int
            BY <3>1, <3>3, <4>2 DEF PacketOK, IsInputMessage
          <5>2. ASSUME NEW f \in m.start..m.upto, NEW i \in Slot, Q[i].frame = f
                PROVE  Q[i].blob = m.blobs[f]
            <6>1. ~(Q[i].frame > Frontier(p))
              BY <1>7, <3>1, <5>1, <5>2 DEF IsInputMessage
            <6>2. Q[i] = local[p][i]
              BY <1>6, <6>1
            <6> QED BY <5>1, <5>2, <6>2 DEF Carries
          <5> QED BY <1>4, <1>6, <1>7, <5>1, <5>2 DEF Carries
        <4> QED BY <1>5, <1>7, <3>1, <3>3, <4>1, <4>2 DEF PacketOK, Carries
      <3> QED BY <3>2, <3>3
    <2> QED BY <1>5, <1>10, <2>1, <2>2, OnlySentArrives
  <1>13. PacketInv'
    BY <1>12 DEF PacketInv
  <1>14. ASSUME NEW q \in Peer, NEW r \in Peer, q # r
         PROVE  RemoteOf(q, r)'
    <2>1. RemoteOf(q, r)
      BY <1>14 DEF RemoteInv
    <2>2. CASE q # p
      <3>1. local'[q] = local[q] /\ Frontier(q)' = Frontier(q)
        BY <1>4, <1>5, <1>7, <2>2
      <3> QED BY <1>5, <2>1, <3>1
              DEF RemoteOf, NeutralBelowDelay, UpTo, SamePads
    <2>3. CASE q = p
      <3>1. local'[q] = Q /\ Frontier(q)' = upto
        BY <1>4, <1>5, <1>7, <2>3
      <3>2. ASSUME UpTo(remote[r], Frontier(p)), SamePads(local[p], remote[r])
            PROVE  UpTo(remote[r], upto) /\ SamePads(Q, remote[r])
        <4>1. \A i \in Slot : remote[r][i].frame \in Int
          BY DEF IInv, TypeOK, Entry
        <4>2. UpTo(remote[r], upto)
          BY <1>4, <1>6, <1>7, <3>2, <4>1 DEF UpTo
        <4>3. SamePads(Q, remote[r])
          <5> SUFFICES ASSUME NEW i \in Slot, Q[i].frame = remote[r][i].frame
                       PROVE  Q[i].blob = remote[r][i].blob
            BY DEF SamePads
          <5>1. ~(Q[i].frame > Frontier(p))
            BY <1>7, <3>2, <4>1 DEF UpTo
          <5> QED BY <1>6, <3>2, <5>1 DEF SamePads
        <4> QED BY <4>2, <4>3
      <3> QED BY <1>5, <2>1, <2>3, <3>1, <3>2
              DEF RemoteOf, NeutralBelowDelay, UpTo, SamePads
    <2> QED BY <2>2, <2>3
  <1>15. RemoteInv'
    BY <1>14 DEF RemoteInv
  <1> QED BY <1>8, <1>9, <1>13, <1>15

LEMMA AgreeInit == Init => AInv
  <1> SUFFICES ASSUME Init PROVE AInv
    OBVIOUS
  <1>1. FirstDelay \in Nat
    BY DelayAssumption
  <1>2. ASSUME NEW i \in Slot
        PROVE  Seeded(0)[i].frame = -1 /\ Seeded(0)[i].blob = Neutral
    BY <1>2, SizeAssumption DEF Seeded, Slot
  <1>3. \A p \in Peer : Frontier(p) = FirstDelay - 1
    BY <1>1 DEF Init, Frontier
  <1>4. /\ Keyed(Seeded(0)) /\ NeutralBelowDelay(Seeded(0))
        /\ UpTo(Seeded(0), FirstDelay - 1) /\ SamePads(Seeded(0), Seeded(0))
    BY <1>1, <1>2 DEF Keyed, NeutralBelowDelay, UpTo, SamePads
  <1>5. /\ \A p \in Peer : local[p] = Seeded(0) /\ remote[p] = Seeded(0)
        /\ \A p \in Peer : lastCaptured[p] = -1 /\ netFrame[p] = 0
        /\ net = {}
    BY DEF Init
  <1>6. LocalInv /\ RemoteInv
    BY <1>3, <1>4, <1>5 DEF LocalInv, RemoteInv, RemoteOf
  <1>7. CaptureBehindClock /\ PacketInv
    BY <1>5 DEF CaptureBehindClock, PacketInv
  <1> QED BY <1>6, <1>7, InvInit DEF AInv

LEMMA AgreeNext == FixedDelay /\ AInv /\ [Next]_vars => AInv'
  <1> SUFFICES ASSUME FixedDelay, AInv, [Next]_vars PROVE AInv'
    OBVIOUS
  <1>1. IInv'
    BY InvNext DEF AInv
  <1>2. ASSUME NEW p \in Peer, ProposeEpoch(p) PROVE AInv'
    BY <1>1, <1>2, AgreeProposeEpoch
  <1>3. ASSUME NEW p \in Peer, NEW m \in net, m.type = "input", m.src # p,
               RecvProposal(p, m)
        PROVE  AInv'
    <2>1. delay[p] \in Delays \cup {FirstDelay} /\ m.want \in Nat
      BY <1>3, MessageKinds DEF AInv, IInv, TypeOK, IsInputMessage
    <2> QED BY <1>1, <1>3, <2>1, AgreeAdopt DEF RecvProposal
  <1>4. ASSUME NEW p \in Peer, Receive(p) PROVE AInv'
    BY <1>1, <1>3, <1>4, AgreeOnPeerEpoch, AgreeRecvSameEpoch, AgreeRecvNewEpoch
       DEF Receive, OnRecvInput
  <1>5. ASSUME NEW p \in Peer, PumpStalled(p) PROVE AInv'
    BY <1>1, <1>5, AgreePumpStalled
  <1>6. ASSUME NEW p \in Peer, RunFrame(p) PROVE AInv'
    BY <1>1, <1>6, AgreeRunFrame
  <1>7. ASSUME NEW p \in Peer, RunWithoutInput(p) PROVE AInv'
    BY <1>1, <1>7, AgreeRunWithoutInput
  <1>8. ASSUME NEW p \in Peer, ReplayFrames(p) PROVE AInv'
    BY <1>1, <1>8, AgreeReplayFrames
  <1>9. CASE UNCHANGED vars
    <2>1. UNCHANGED <<epoch, lastCaptured, local, remote, net, netFrame>>
      BY <1>9 DEF vars, timelineVars, queueVars
    <2>2. netFrame \in [Peer -> 0..MaxFrame] /\ MaxFrame \in Nat
      BY SizeAssumption DEF AInv, IInv, TypeOK
    <2> QED BY <1>1, <2>1, <2>2, AgreeQuiet
  <1> QED BY <1>2, <1>4, <1>5, <1>6, <1>7, <1>8, <1>9 DEF Next

\* With one delay that nobody changes, two peers on a timeline never hold
\* different pads for a frame: for every queue size, window, barrier and
\* number of frames, whatever is lost, repeated or reordered (on_frame_begin,
\* send_input, on_recv_input, seed_neutral).
THEOREM InputsAgree == ASSUME FixedDelay PROVE Spec => []InputAgreement
  <1>1. AInv => InputAgreement
    BY DEF AInv, RemoteInv, RemoteOf, SamePads, InputAgreement
  <1>2. AInv /\ [Next]_vars => AInv'
    BY AgreeNext
  <1> QED BY <1>1, <1>2, AgreeInit, PTL DEF Spec

----------------------------------------------------------------------------
(***************************************************************************)
(* On the first timeline no input is lost, as long as one packet can carry *)
(* twice the frames a peer may schedule beyond the input it holds.  A peer *)
(* is at most Ahead frames beyond its newest remote frame, that frame is   *)
(* at most Ahead frames beyond the newest the other reported, so a packet  *)
(* that reaches back Redundancy frames begins no later than the frame the  *)
(* receiver lacks.  The later timelines break the chain at its first link: *)
(* g_peer_acked still counts the frames of the timeline before.            *)
(***************************************************************************)

\* The frames that can be scheduled beyond the newest remote frame.
Ahead == Barrier + MaxAbandon - 1 + FirstDelay
WindowFits == 2 * Ahead <= Redundancy

ClockBounded ==
  \A p \in Peer : /\ netFrame[p] <= remoteHigh[p] + Barrier + abandoned[p]
                  /\ remoteHigh[p] >= -1 /\ peerAcked[p] >= -1

\* A packet of the first timeline begins no later than what q lacks.
Reaches(m, q) ==
  m.epoch = 1 => /\ epoch[q] = 0 => m.start <= FirstDelay
                 /\ epoch[q] = 1 => m.start <= remoteHigh[q] + 1
SentOK(m) ==
  /\ m.epoch >= 1 /\ m.upto <= m.ack + Ahead
  /\ m.epoch = 1 /\ epoch[m.src] = 1 => m.ack <= remoteHigh[m.src]
  /\ \A q \in Peer \ {m.src} : Reaches(m, q)
AllSentOK == \A m \in net : m.type = "input" => SentOK(m)

\* What p believes q has.
AckedOK(p, q) ==
  /\ epoch[p] = 0 => peerAcked[p] = -1
  /\ epoch[p] = 1 /\ epoch[q] = 0 => peerAcked[p] = -1
  /\ epoch[p] = 1 /\ epoch[q] = 1 => peerAcked[p] <= remoteHigh[q]
AllAckedOK == \A p, q \in Peer : p # q => AckedOK(p, q)

HeldOK(p) ==
  epoch[p] = 1 => remoteHigh[p] <= peerAcked[p] + Ahead /\ NothingLost(p)
AllHeldOK == \A p \in Peer : HeldOK(p)

WInv == AInv /\ ClockBounded /\ AllSentOK /\ AllAckedOK /\ AllHeldOK

LEMMA AheadIsInt == Ahead \in Int /\ Ahead >= FirstDelay /\ FirstDelay \in Nat
  BY SizeAssumption, DelayAssumption DEF Ahead

\* The types the arithmetic below needs.
LEMMA WindowTypes ==
  ASSUME TypeOK
  PROVE  /\ epoch \in [Peer -> Nat] /\ remoteHigh \in [Peer -> Int]
         /\ peerAcked \in [Peer -> Int] /\ netFrame \in [Peer -> Int]
         /\ abandoned \in [Peer -> Int] /\ lastCaptured \in [Peer -> Int]
         /\ have \in [Peer -> SUBSET Nat]
         /\ \A p \in Peer : abandoned[p] <= MaxAbandon /\ abandoned[p] >= 0
  <1>1. MaxFrame \in Nat /\ MaxAbandon \in Nat
    BY SizeAssumption
  <1>2. netFrame \in [Peer -> 0..MaxFrame] /\ abandoned \in [Peer -> 0..MaxAbandon]
    BY DEF TypeOK
  <1> QED BY <1>1, <1>2 DEF TypeOK

LEMMA MessageFields ==
  ASSUME TypeOK, NEW m \in net, m.type = "input"
  PROVE  /\ m.src \in Peer /\ m.epoch \in Nat /\ m.want \in Nat
         /\ m.ack \in Int /\ m.start \in Nat /\ m.upto \in Nat
         /\ m.blobs \in [m.start..m.upto -> Blob]
  BY MessageKinds DEF IsInputMessage

\* Steps that only send, and packets whose sender knows what it may send.
LEMMA WindowQuiet ==
  ASSUME WInv, AInv', UNCHANGED <<epoch, peerAcked, remoteHigh, have>>,
         ClockBounded',
         \A m \in net' : m.type = "input" => m \in net \/ SentOK(m)
  PROVE  WInv'
  <1>1. AllSentOK'
    BY DEF WInv, AllSentOK, SentOK, Reaches
  <1>2. AllAckedOK' /\ AllHeldOK'
    BY DEF WInv, AllAckedOK, AckedOK, AllHeldOK, HeldOK, NothingLost
  <1> QED BY <1>1, <1>2 DEF WInv

\* A packet whose newest frame is within Ahead of the input its sender holds
\* reaches back to what the other lacks.
LEMMA PacketReaches ==
  ASSUME WInv, WindowFits, NEW p \in Peer, epoch[p] >= 1, NEW upto \in Nat,
         upto <= remoteHigh[p] + Ahead, NEW queue,
         NEW m, m = InputPacket(p, upto, queue)
  PROVE  SentOK(m)
  <1>1. /\ m.src = p /\ m.epoch = epoch[p] /\ m.ack = remoteHigh[p]
        /\ m.upto = upto /\ m.start = WindowStart(p, upto)
    BY DEF InputPacket
  <1>2. /\ epoch \in [Peer -> Nat] /\ remoteHigh \in [Peer -> Int]
        /\ peerAcked \in [Peer -> Int]
        /\ Redundancy \in Nat /\ Ahead \in Int /\ FirstDelay \in Nat
        /\ 2 * Ahead <= Redundancy
    BY WindowTypes, AheadIsInt, SizeAssumption DEF WInv, AInv, IInv, WindowFits
  <1>3. ASSUME NEW q \in Peer \ {p}, epoch[p] = 1
        PROVE  /\ epoch[q] = 0 => m.start <= FirstDelay
               /\ epoch[q] = 1 => m.start <= remoteHigh[q] + 1
    <2>1. remoteHigh[p] <= peerAcked[p] + Ahead
      BY <1>3 DEF WInv, AllHeldOK, HeldOK
    <2>2. /\ peerAcked[p] >= -1 /\ remoteHigh[q] >= -1
          /\ peerAcked[p] \in Int /\ remoteHigh[q] \in Int
          /\ remoteHigh[p] \in Int
      BY <1>2 DEF WInv, ClockBounded
    <2>3. /\ epoch[q] = 0 => peerAcked[p] = -1
          /\ epoch[q] = 1 => peerAcked[p] <= remoteHigh[q]
      BY <1>3 DEF WInv, AllAckedOK, AckedOK
    <2>4. WindowStart(p, upto) <= peerAcked[p] + 1
      <3>1. upto - (Redundancy - 1) <= peerAcked[p] + 1
        BY <1>2, <2>1, <2>2
      <3>2. CASE peerAcked[p] >= 0
        BY <1>2, <2>2, <3>1, <3>2 DEF WindowStart, Newer, Older
      <3>3. CASE peerAcked[p] < 0
        BY <1>2, <2>2, <3>1, <3>3 DEF WindowStart, Newer, Older
      <3> QED BY <2>2, <3>2, <3>3
    <2>5. WindowStart(p, upto) \in Int
      BY <1>2 DEF WindowStart, Newer, Older
    <2> QED BY <1>1, <1>2, <2>2, <2>3, <2>4, <2>5
  <1>4. \A q \in Peer \ {m.src} : Reaches(m, q)
    BY <1>1, <1>3 DEF Reaches
  <1> QED BY <1>1, <1>2, <1>4 DEF SentOK

LEMMA WindowPumpStalled ==
  ASSUME WInv, AInv', FixedDelay, WindowFits, NEW p \in Peer, PumpStalled(p)
  PROVE  WInv'
  <1>1. /\ UNCHANGED <<timelineVars, queueVars, historyVars>>
        /\ lastCaptured[p] >= 0 /\ epoch[p] > 0
        /\ Transmit({InputPacket(p, lastCaptured[p] + delay[p], local[p])})
    BY DEF PumpStalled, Active
  <1>2. PICK upto : upto = lastCaptured[p] + delay[p]
    OBVIOUS
  <1>3. /\ upto \in Nat /\ upto <= remoteHigh[p] + Ahead
    <2>1. delay[p] = FirstDelay /\ FirstDelay \in Nat
      BY OneDelay, DelayAssumption DEF WInv, AInv, IInv, TypeOK
    <2>2. /\ lastCaptured[p] < netFrame[p]
          /\ netFrame[p] <= remoteHigh[p] + Barrier + abandoned[p]
      BY DEF WInv, AInv, CaptureBehindClock, ClockBounded
    <2>3. /\ lastCaptured[p] \in Int /\ netFrame[p] \in Int
          /\ remoteHigh[p] \in Int /\ abandoned[p] \in Int
          /\ abandoned[p] <= MaxAbandon /\ MaxAbandon \in Nat /\ Barrier \in Nat
      BY WindowTypes, SizeAssumption DEF WInv, AInv, IInv
    <2> QED BY <1>1, <1>2, <2>1, <2>2, <2>3 DEF Ahead
  <1>4. PICK n : n = InputPacket(p, upto, local[p])
    OBVIOUS
  <1>5. SentOK(n)
    <2>1. epoch[p] >= 1
      BY <1>1, WindowTypes DEF WInv, AInv, IInv
    <2> QED BY <1>3, <1>4, <2>1, PacketReaches
  <1>6. \A m \in net' : m.type = "input" => m \in net \/ SentOK(m)
    BY <1>1, <1>2, <1>4, <1>5, OnlySentArrives
  <1>7. UNCHANGED <<epoch, peerAcked, remoteHigh, have, netFrame, abandoned>>
    BY <1>1 DEF timelineVars, queueVars, historyVars
  <1>8. ClockBounded'
    BY <1>7 DEF WInv, ClockBounded
  <1> QED BY <1>6, <1>7, <1>8, WindowQuiet

\* A released tick keeps the clock within the barrier and the stalls given up.
LEMMA ReleaseBounds ==
  ASSUME WInv, NEW p \in Peer, Released(p), remoteHigh' = remoteHigh,
         peerAcked' = peerAcked, netFrame' = [netFrame EXCEPT ![p] = @ + 1]
  PROVE  /\ netFrame[p] + FirstDelay <= remoteHigh[p] + Ahead
         /\ ClockBounded'
  <1>1. /\ netFrame \in [Peer -> Int] /\ remoteHigh \in [Peer -> Int]
        /\ abandoned \in [Peer -> Int]
        /\ \A q \in Peer : abandoned[q] <= MaxAbandon /\ abandoned[q] >= 0
        /\ MaxAbandon \in Nat /\ Barrier \in Nat /\ FirstDelay \in Nat
    BY WindowTypes, SizeAssumption, DelayAssumption DEF WInv, AInv, IInv
  <1>2. netFrame[p] <= remoteHigh[p] + Barrier + abandoned[p]
    BY DEF WInv, ClockBounded
  <1>3. CASE netFrame[p] - remoteHigh[p] < Barrier /\ abandoned' = abandoned
    <2>1. netFrame[p] + FirstDelay <= remoteHigh[p] + Ahead
      BY <1>1, <1>3 DEF Ahead
    <2>2. ASSUME NEW q \in Peer
          PROVE  netFrame'[q] <= remoteHigh[q] + Barrier + abandoned'[q]
      <3>1. CASE q = p
        BY <1>1, <1>3, <3>1
      <3>2. CASE q # p
        BY <1>1, <1>3, <3>2 DEF WInv, ClockBounded
      <3> QED BY <3>1, <3>2
    <2> QED BY <2>1, <2>2 DEF WInv, ClockBounded
  <1>4. CASE /\ abandoned[p] < MaxAbandon
             /\ abandoned' = [abandoned EXCEPT ![p] = @ + 1]
    <2>1. netFrame[p] + FirstDelay <= remoteHigh[p] + Ahead
      BY <1>1, <1>2, <1>4 DEF Ahead
    <2>2. ASSUME NEW q \in Peer
          PROVE  netFrame'[q] <= remoteHigh[q] + Barrier + abandoned'[q]
      <3>1. CASE q = p
        BY <1>1, <1>2, <1>4, <3>1
      <3>2. CASE q # p
        BY <1>1, <1>4, <3>2 DEF WInv, ClockBounded
      <3> QED BY <3>1, <3>2
    <2> QED BY <2>1, <2>2 DEF WInv, ClockBounded
  <1> QED BY <1>3, <1>4 DEF Released, FramesAhead

LEMMA WindowRunFrame ==
  ASSUME WInv, AInv', FixedDelay, WindowFits, NEW p \in Peer, RunFrame(p)
  PROVE  WInv'
  <1>1. PICK queue :
          /\ Transmit({InputPacket(p, netFrame[p] + delay[p], queue)})
          /\ netFrame' = [netFrame EXCEPT ![p] = netFrame[p] + 1]
    BY DEF RunFrame
  <1>2. /\ UNCHANGED <<epoch, peerAcked, remoteHigh, have>>
        /\ epoch[p] > 0 /\ Released(p)
    BY DEF RunFrame, timelineVars, Active
  <1>3. netFrame[p] + FirstDelay <= remoteHigh[p] + Ahead /\ ClockBounded'
    BY <1>1, <1>2, ReleaseBounds
  <1>4. PICK upto : upto = netFrame[p] + delay[p]
    OBVIOUS
  <1>5. upto \in Nat /\ upto <= remoteHigh[p] + Ahead
    <2>1. delay[p] = FirstDelay /\ upto \in Nat
      BY <1>4, OneDelay, CaptureRange DEF WInv, AInv, IInv, TypeOK
    <2> QED BY <1>3, <1>4, <2>1
  <1>6. PICK n : n = InputPacket(p, upto, queue)
    OBVIOUS
  <1>7. SentOK(n)
    <2>1. epoch[p] >= 1
      BY <1>2, WindowTypes DEF WInv, AInv, IInv
    <2> QED BY <1>5, <1>6, <2>1, PacketReaches
  <1>8. \A m \in net' : m.type = "input" => m \in net \/ SentOK(m)
    BY <1>1, <1>4, <1>6, <1>7, OnlySentArrives
  <1> QED BY <1>2, <1>3, <1>8, WindowQuiet

LEMMA WindowRunWithoutInput ==
  ASSUME WInv, AInv', NEW p \in Peer, RunWithoutInput(p)
  PROVE  WInv'
  <1>1. /\ UNCHANGED <<epoch, peerAcked, remoteHigh, have, net>>
        /\ netFrame' = [netFrame EXCEPT ![p] = @ + 1] /\ Released(p)
    BY DEF RunWithoutInput, timelineVars
  <1>2. ClockBounded'
    BY <1>1, ReleaseBounds
  <1> QED BY <1>1, <1>2, WindowQuiet

\* Steps that touch neither the clocks nor what is stored.
LEMMA WindowIdle ==
  ASSUME WInv, AInv',
         UNCHANGED <<epoch, peerAcked, remoteHigh, have, netFrame, abandoned>>,
         \A m \in net' : m.type = "input" => m \in net
  PROVE  WInv'
  <1>1. ClockBounded'
    BY DEF WInv, ClockBounded
  <1> QED BY <1>1, WindowQuiet

\* What a restart leaves alone, and what must hold of a peer that joins the
\* first timeline.
OthersKept(p) ==
  \A q \in Peer \ {p} : /\ remoteHigh'[q] = remoteHigh[q]
                        /\ peerAcked'[q] = peerAcked[q] /\ have'[q] = have[q]
JoinsFirst(p) ==
  /\ remoteHigh'[p] <= peerAcked'[p] + Ahead
  /\ \A f \in 0..remoteHigh'[p] : f \in have'[p]
  /\ \A q \in Peer \ {p} : epoch[q] = 0 => peerAcked'[p] = -1
  /\ \A q \in Peer \ {p} : epoch[q] = 1 => peerAcked'[p] <= remoteHigh[q]

LEMMA WindowRestart ==
  ASSUME WInv, AInv', NEW p \in Peer, NEW d, NEW e \in Nat, e > epoch[p],
         Restart(p, d, e), net' = net, OthersKept(p),
         remoteHigh'[p] >= FirstDelay - 1, peerAcked'[p] >= -1,
         e = 1 => JoinsFirst(p)
  PROVE  WInv'
  <1>1. /\ epoch' = [epoch EXCEPT ![p] = e]
        /\ netFrame' = [netFrame EXCEPT ![p] = 0]
        /\ abandoned' = abandoned
    BY DEF Restart
  <1>2. /\ epoch \in [Peer -> Nat] /\ remoteHigh \in [Peer -> Int]
        /\ peerAcked \in [Peer -> Int] /\ netFrame \in [Peer -> Int]
        /\ abandoned \in [Peer -> Int] /\ have \in [Peer -> SUBSET Nat]
        /\ \A q \in Peer : abandoned[q] >= 0
        /\ Barrier \in Nat /\ Barrier >= 1 /\ FirstDelay \in Nat
        /\ remoteHigh'[p] \in Int /\ peerAcked'[p] \in Int
    <2>1. TypeOK /\ TypeOK'
      BY DEF WInv, AInv, IInv
    <2>2. Barrier \in Nat /\ Barrier >= 1 /\ FirstDelay \in Nat
      BY SizeAssumption, DelayAssumption
    <2>3. remoteHigh'[p] \in Int /\ peerAcked'[p] \in Int
      BY <2>1 DEF TypeOK
    <2> QED BY <2>1, <2>2, <2>3, WindowTypes
  <1>3. ClockBounded'
    <2> SUFFICES ASSUME NEW q \in Peer
                 PROVE  /\ netFrame'[q] <= remoteHigh'[q] + Barrier + abandoned'[q]
                        /\ remoteHigh'[q] >= -1 /\ peerAcked'[q] >= -1
      BY DEF ClockBounded
    <2>1. CASE q = p
      BY <1>1, <1>2, <2>1
    <2>2. CASE q # p
      BY <1>1, <1>2, <2>2 DEF WInv, ClockBounded, OthersKept
    <2> QED BY <2>1, <2>2
  <1>4. AllSentOK'
    <2> SUFFICES ASSUME NEW m \in net, m.type = "input" PROVE SentOK(m)'
      BY DEF AllSentOK
    <2>1. SentOK(m) /\ m.src \in Peer /\ m.epoch \in Nat /\ m.start \in Nat
      BY MessageFields DEF WInv, AInv, IInv, AllSentOK
    <2>2. m.epoch = 1 /\ epoch'[m.src] = 1 => m.ack <= remoteHigh'[m.src]
      <3>1. CASE m.src = p
        <4>1. m.epoch <= epoch[p] /\ epoch[p] \in Nat
          BY <1>2, <3>1 DEF WInv, AInv, PacketInv, PacketOK
        <4>2. ~(m.epoch = 1 /\ epoch'[p] = 1)
          BY <1>1, <1>2, <2>1, <4>1
        <4> QED BY <3>1, <4>2
      <3>2. CASE m.src # p
        BY <1>1, <1>2, <2>1, <3>2 DEF SentOK, OthersKept
      <3> QED BY <3>1, <3>2
    <2>3. ASSUME NEW q \in Peer \ {m.src} PROVE Reaches(m, q)'
      <3>1. Reaches(m, q)
        BY <2>1 DEF SentOK
      <3>2. CASE q = p
        <4>1. epoch'[p] = e /\ epoch[p] \in Nat
          BY <1>1, <1>2
        <4>2. ASSUME m.epoch = 1, e = 1 PROVE m.start <= remoteHigh'[p] + 1
          <5>1. epoch[p] = 0
            BY <4>1, <4>2
          <5> QED BY <1>2, <2>1, <3>1, <3>2, <4>2, <5>1 DEF Reaches
        <4>3. e # 0
          BY <4>1
        <4> QED BY <3>2, <4>1, <4>2, <4>3 DEF Reaches
      <3>3. CASE q # p
        BY <1>1, <1>2, <3>1, <3>3 DEF Reaches, OthersKept
      <3> QED BY <3>2, <3>3
    <2> QED BY <2>1, <2>2, <2>3 DEF SentOK
  <1>5. AllAckedOK'
    <2> SUFFICES ASSUME NEW q \in Peer, NEW r \in Peer, q # r
                 PROVE  AckedOK(q, r)'
      BY DEF AllAckedOK
    <2>1. AckedOK(q, r) /\ remoteHigh[r] >= -1 /\ remoteHigh[r] \in Int
      BY <1>2 DEF WInv, AllAckedOK, ClockBounded
    <2>2. CASE q = p
      <3>1. /\ epoch'[q] = e /\ epoch'[r] = epoch[r] /\ e # 0
            /\ remoteHigh'[r] = remoteHigh[r] /\ r \in Peer \ {p}
        BY <1>1, <1>2, <2>2 DEF OthersKept
      <3> QED BY <2>2, <3>1 DEF AckedOK, JoinsFirst
    <2>3. CASE r = p
      <3>1. /\ epoch'[q] = epoch[q] /\ epoch'[r] = e /\ peerAcked'[q] = peerAcked[q]
            /\ e # 0 /\ epoch[r] \in Nat
        BY <1>1, <1>2, <2>3 DEF OthersKept
      <3>2. e = 1 => epoch[r] = 0
        BY <2>3, <3>1
      <3> QED BY <1>2, <2>1, <2>3, <3>1, <3>2 DEF AckedOK
    <2>4. CASE q # p /\ r # p
      BY <1>1, <1>2, <2>1, <2>4 DEF AckedOK, OthersKept
    <2> QED BY <2>2, <2>3, <2>4
  <1>6. AllHeldOK'
    <2> SUFFICES ASSUME NEW q \in Peer, epoch'[q] = 1
                 PROVE  /\ remoteHigh'[q] <= peerAcked'[q] + Ahead
                        /\ \A f \in 0..remoteHigh'[q] : f \in have'[q]
      BY DEF AllHeldOK, HeldOK, NothingLost
    <2>1. CASE q = p
      BY <1>1, <1>2, <2>1 DEF JoinsFirst
    <2>2. CASE q # p
      BY <1>1, <1>2, <2>2 DEF WInv, AllHeldOK, HeldOK, NothingLost, OthersKept
    <2> QED BY <2>1, <2>2
  <1> QED BY <1>3, <1>4, <1>5, <1>6 DEF WInv

\* A peer that had not started knows of no frame the other received.
LEMMA NothingAcked ==
  ASSUME WInv, NEW p \in Peer, epoch[p] = 0
  PROVE  peerAcked[p] = -1
  <1>1. \E q \in Peer : q # p
    BY PeerAssumption
  <1> QED BY <1>1 DEF WInv, AllAckedOK, AckedOK

\* Adopting a timeline afresh.
LEMMA WindowAdopt ==
  ASSUME WInv, AInv', FixedDelay, NEW p \in Peer,
         NEW d \in Delays \cup {FirstDelay}, NEW e \in Nat, e > epoch[p],
         Restart(p, d, e), net' = net, peerAcked' = peerAcked,
         remoteHigh' = [remoteHigh EXCEPT ![p] = d - 1],
         have' = [have EXCEPT ![p] = 0..(d - 1)]
  PROVE  WInv'
  <1>1. d = FirstDelay /\ FirstDelay \in Nat
    BY OneDelay, DelayAssumption
  <1>2. /\ peerAcked \in [Peer -> Int] /\ epoch[p] \in Nat
        /\ remoteHigh \in [Peer -> Int] /\ peerAcked[p] \in Int
        /\ peerAcked[p] >= -1 /\ \A q \in Peer : remoteHigh[q] >= -1
    BY WindowTypes DEF WInv, AInv, IInv, ClockBounded
  <1>3. /\ remoteHigh'[p] = d - 1 /\ peerAcked'[p] = peerAcked[p]
        /\ have'[p] = 0..(d - 1) /\ OthersKept(p)
    <2>1. have \in [Peer -> SUBSET Nat]
      BY DEF WInv, AInv, IInv, TypeOK
    <2> QED BY <1>2, <2>1 DEF OthersKept
  <1>4. ASSUME e = 1 PROVE JoinsFirst(p)
    <2>1. peerAcked[p] = -1
      BY <1>2, <1>4, NothingAcked
    <2> QED BY <1>1, <1>2, <1>3, <2>1, AheadIsInt DEF JoinsFirst
  <1>5. remoteHigh'[p] >= FirstDelay - 1 /\ peerAcked'[p] >= -1
    BY <1>1, <1>2, <1>3
  <1> QED BY <1>3, <1>4, <1>5, WindowRestart

\* A packet that begins no later than what was lacking leaves no lost frame
\* below the newest stored one.
LEMMA StoredWindow ==
  ASSUME NEW m, IsInputMessage(m), NEW queue \in [Slot -> Entry],
         NEW high \in Int, high >= -1, NoneAbove(queue, high),
         NEW held, \A f \in 0..high : f \in held, m.start <= high + 1
  PROVE  \A f \in 0..Highest(high, Missing(m, queue)) :
           f \in held \cup Missing(m, queue)
  <1>1. PICK F, top : F = Missing(m, queue) /\ top = Highest(high, F)
    OBVIOUS
  <1>2. /\ m.start \in Nat /\ m.upto \in Nat /\ DOMAIN m.blobs = m.start..m.upto
    BY DEF IsInputMessage
  <1>3. \A f \in m.start..m.upto : f > high => f \in F
    <2>1. F = {f \in m.start..m.upto : ~Held(queue, f)}
      BY <1>1, <1>2 DEF Missing
    <2>2. ASSUME NEW f \in m.start..m.upto, f > high PROVE ~Held(queue, f)
      <3>1. f \in Nat /\ Idx(f) \in Slot /\ f # -1
        BY <1>2, SlotOfFrame
      <3> QED BY <2>2, <3>1 DEF NoneAbove, Held, Entry
    <2> QED BY <2>1, <2>2
  <1>4. top \in Int /\ top >= high /\ (top = high \/ top = m.upto)
    BY <1>1, NewestStored
  <1>5. ASSUME NEW f \in 0..top PROVE f \in held \cup F
    <2>1. CASE f <= high
      BY <1>4, <2>1
    <2>2. CASE f > high
      <3>1. f \in m.start..m.upto
        BY <1>2, <1>4, <2>2
      <3> QED BY <1>3, <2>2, <3>1
    <2> QED BY <1>4, <2>1, <2>2
  <1> QED BY <1>1, <1>5

LEMMA WindowRecvSameEpoch ==
  ASSUME WInv, AInv', NEW p \in Peer, NEW m \in net, m.type = "input",
         m.src # p, RecvSameEpoch(p, m)
  PROVE  WInv'
  <1> USE DEF WInv, AInv, IInv
  <1>1. /\ m.src \in Peer /\ m.epoch \in Nat /\ m.ack \in Int
        /\ m.start \in Nat /\ m.upto \in Nat /\ IsInputMessage(m)
        /\ SentOK(m) /\ m.epoch <= epoch[m.src] /\ p \in Peer \ {m.src}
    BY MessageFields, MessageKinds DEF AllSentOK, PacketInv, PacketOK
  <1>2. PICK F, top, acked : /\ F = Missing(m, remote[p])
                            /\ top = Highest(remoteHigh[p], F)
                            /\ acked = Newer(peerAcked[p], m.ack)
    OBVIOUS
  <1>3. /\ m.epoch = epoch[p] /\ epoch' = epoch /\ net' = net
        /\ netFrame' = netFrame /\ abandoned' = abandoned
        /\ remoteHigh' = [remoteHigh EXCEPT ![p] = top]
        /\ have' = [have EXCEPT ![p] = have[p] \cup F]
        /\ peerAcked' = [peerAcked EXCEPT ![p] = acked]
    BY <1>2 DEF RecvSameEpoch, StoreInput, timelineVars
  <1>4. /\ epoch \in [Peer -> Nat] /\ remoteHigh \in [Peer -> Int]
        /\ peerAcked \in [Peer -> Int] /\ netFrame \in [Peer -> Int]
        /\ abandoned \in [Peer -> Int] /\ have \in [Peer -> SUBSET Nat]
        /\ Barrier \in Nat /\ Ahead \in Int /\ FirstDelay \in Nat
    BY WindowTypes, AheadIsInt, SizeAssumption
  <1>5. /\ remoteHigh[p] >= -1 /\ remoteHigh[p] \in Int
        /\ peerAcked[p] >= -1 /\ peerAcked[p] \in Int
        /\ NoneAbove(remote[p], remoteHigh[p]) /\ remote[p] \in [Slot -> Entry]
    BY <1>4 DEF ClockBounded, StoredBelowHigh, TypeOK
  <1>6. top \in Int /\ top >= remoteHigh[p] /\ (top = remoteHigh[p] \/ top = m.upto)
    BY <1>1, <1>2, <1>5, NewestStored
  <1>7. acked \in Int /\ acked >= peerAcked[p] /\ acked >= m.ack
        /\ (acked = peerAcked[p] \/ acked = m.ack)
    BY <1>1, <1>2, <1>5 DEF Newer
  <1>8. \A q \in Peer : remoteHigh'[q] >= remoteHigh[q] /\ remoteHigh'[q] \in Int
                       /\ remoteHigh[q] \in Int
    BY <1>3, <1>4, <1>6
  <1>9. ClockBounded'
    <2> SUFFICES ASSUME NEW q \in Peer
                 PROVE  /\ netFrame[q] <= remoteHigh'[q] + Barrier + abandoned[q]
                        /\ remoteHigh'[q] >= -1 /\ peerAcked'[q] >= -1
      BY <1>3 DEF ClockBounded
    <2>1. /\ netFrame[q] <= remoteHigh'[q] + Barrier + abandoned[q]
          /\ remoteHigh'[q] >= -1
      BY <1>4, <1>8 DEF ClockBounded
    <2>2. peerAcked'[q] >= -1
      BY <1>3, <1>4, <1>5, <1>7 DEF ClockBounded
    <2> QED BY <2>1, <2>2
  <1>10. AllSentOK'
    <2> SUFFICES ASSUME NEW n \in net, n.type = "input" PROVE SentOK(n)'
      BY <1>3 DEF AllSentOK
    <2>1. /\ SentOK(n) /\ n.src \in Peer /\ n.ack \in Int /\ n.start \in Nat
      BY MessageFields DEF AllSentOK
    <2>2. n.epoch = 1 /\ epoch[n.src] = 1 => n.ack <= remoteHigh'[n.src]
      BY <1>8, <2>1 DEF SentOK
    <2>3. ASSUME NEW q \in Peer \ {n.src} PROVE Reaches(n, q)'
      BY <1>3, <1>8, <2>1 DEF SentOK, Reaches
    <2> QED BY <1>3, <2>1, <2>2, <2>3 DEF SentOK
  <1>11. AllAckedOK'
    <2> SUFFICES ASSUME NEW q \in Peer, NEW r \in Peer, q # r
                 PROVE  AckedOK(q, r)'
      BY DEF AllAckedOK
    <2>1. AckedOK(q, r)
      BY DEF AllAckedOK
    <2>2. CASE q = p
      <3>1. r = m.src
        BY <1>1, <2>2, PeerAssumption
      <3>2. epoch[q] # 0 /\ (epoch[q] = 1 => epoch[r] # 0)
        BY <1>1, <1>3, <1>4, <2>2, <3>1 DEF SentOK
      <3>3. epoch[q] = 1 /\ epoch[r] = 1 => acked <= remoteHigh'[r]
        <4>1. epoch[q] = 1 /\ epoch[r] = 1 =>
                peerAcked[q] <= remoteHigh[r] /\ m.ack <= remoteHigh[r]
          BY <1>1, <1>3, <2>1, <2>2, <3>1 DEF AckedOK, SentOK
        <4> QED BY <1>5, <1>7, <1>8, <2>2, <4>1
      <3>4. peerAcked'[q] = acked
        BY <1>3, <1>4, <2>2
      <3> QED BY <1>3, <3>2, <3>3, <3>4 DEF AckedOK
    <2>3. CASE q # p
      <3>1. peerAcked'[q] = peerAcked[q] /\ peerAcked[q] \in Int
        BY <1>3, <1>4, <2>3
      <3> QED BY <1>3, <1>8, <2>1, <3>1 DEF AckedOK
    <2> QED BY <2>2, <2>3
  <1>12. AllHeldOK'
    <2> SUFFICES ASSUME NEW q \in Peer, epoch[q] = 1
                 PROVE  /\ remoteHigh'[q] <= peerAcked'[q] + Ahead
                        /\ \A f \in 0..remoteHigh'[q] : f \in have'[q]
      BY <1>3 DEF AllHeldOK, HeldOK, NothingLost
    <2>1. /\ remoteHigh[q] <= peerAcked[q] + Ahead
          /\ \A f \in 0..remoteHigh[q] : f \in have[q]
      BY DEF AllHeldOK, HeldOK, NothingLost
    <2>2. CASE q = p
      <3>1. /\ remoteHigh'[q] = top /\ peerAcked'[q] = acked
            /\ have'[q] = have[p] \cup F
        BY <1>3, <1>4, <2>2
      <3>2. m.start <= remoteHigh[p] + 1 /\ m.upto <= m.ack + Ahead
        BY <1>1, <1>3, <2>2 DEF SentOK, Reaches
      <3>3. top <= acked + Ahead
        BY <1>1, <1>4, <1>5, <1>6, <1>7, <2>1, <2>2, <3>2
      <3>4. \A f \in 0..top : f \in have[p] \cup F
        <4>1. \A f \in 0..remoteHigh[p] : f \in have[p]
          BY <2>1, <2>2
        <4>2. PICK queue, high, held :
                queue = remote[p] /\ high = remoteHigh[p] /\ held = have[p]
          OBVIOUS
        <4>3. \A f \in 0..Highest(high, Missing(m, queue)) :
                f \in held \cup Missing(m, queue)
          BY <1>1, <1>5, <3>2, <4>1, <4>2, StoredWindow
        <4> QED BY <1>2, <4>2, <4>3
      <3> QED BY <3>1, <3>3, <3>4
    <2>3. CASE q # p
      BY <1>3, <1>4, <2>1, <2>3
    <2> QED BY <2>2, <2>3
  <1> QED BY <1>9, <1>10, <1>11, <1>12

LEMMA WindowRecvNewEpoch ==
  ASSUME WInv, AInv', FixedDelay, NEW p \in Peer, NEW m \in net,
         m.type = "input", m.src # p, RecvNewEpoch(p, m)
  PROVE  WInv'
  <1> USE DEF WInv, AInv, IInv
  <1>1. /\ m.src \in Peer /\ m.epoch \in Nat /\ m.ack \in Int /\ m.want \in Nat
        /\ m.start \in Nat /\ m.upto \in Nat /\ IsInputMessage(m)
        /\ SentOK(m) /\ m.epoch <= epoch[m.src] /\ p \in Peer \ {m.src}
    BY MessageFields, MessageKinds DEF AllSentOK, PacketInv, PacketOK
  <1>2. delay[p] = FirstDelay /\ FirstDelay \in Nat
    BY OneDelay, DelayAssumption DEF TypeOK
  <1>3. PICK queue, high, seed :
          /\ queue = Seeded(FirstDelay) /\ high = FirstDelay - 1
          /\ seed = 0..(FirstDelay - 1)
    OBVIOUS
  <1>4. PICK F, top, acked : /\ F = Missing(m, queue)
                            /\ top = Highest(high, F)
                            /\ acked = Newer(peerAcked[p], m.ack)
    OBVIOUS
  <1>5. /\ m.want > epoch[p] /\ m.epoch = m.want /\ net' = net
        /\ Restart(p, FirstDelay, m.want)
        /\ remoteHigh' = [remoteHigh EXCEPT ![p] = top]
        /\ have' = [have EXCEPT ![p] = seed \cup F]
        /\ peerAcked' = [peerAcked EXCEPT ![p] = acked]
    BY <1>2, <1>3, <1>4 DEF RecvNewEpoch, StoreInput
  <1>6. /\ epoch \in [Peer -> Nat] /\ remoteHigh \in [Peer -> Int]
        /\ peerAcked[p] \in Int /\ peerAcked[p] >= -1
        /\ Ahead \in Int /\ Ahead >= FirstDelay
        /\ \A q \in Peer : remoteHigh[q] >= -1 /\ remoteHigh[q] \in Int
    BY WindowTypes, AheadIsInt DEF ClockBounded
  <1>7. /\ high \in Int /\ high >= -1 /\ queue \in [Slot -> Entry]
        /\ NoneAbove(queue, high) /\ \A f \in 0..high : f \in seed
    BY <1>2, <1>3, SeededQueue
  <1>8. top \in Int /\ top >= high /\ (top = high \/ top = m.upto)
    BY <1>1, <1>4, <1>7, NewestStored
  <1>9. acked \in Int /\ acked >= peerAcked[p] /\ acked >= m.ack
        /\ (acked = peerAcked[p] \/ acked = m.ack) /\ acked >= -1
    BY <1>1, <1>4, <1>6 DEF Newer
  <1>10. top >= FirstDelay - 1
    BY <1>2, <1>3, <1>7, <1>8
  <1>11. ASSUME m.want = 1
         PROVE  top <= acked + Ahead /\ \A f \in 0..top : f \in seed \cup F
    <2>1. epoch[p] = 0
      BY <1>5, <1>6, <1>11
    <2>2. m.start <= FirstDelay /\ m.upto <= m.ack + Ahead
      BY <1>1, <1>5, <1>11, <2>1 DEF SentOK, Reaches
    <2>3. top <= acked + Ahead
      BY <1>1, <1>2, <1>3, <1>6, <1>7, <1>8, <1>9, <2>2
    <2>4. \A f \in 0..top : f \in seed \cup F
      <3>1. m.start <= high + 1
        BY <1>1, <1>2, <1>3, <2>2
      <3>2. \A f \in 0..Highest(high, Missing(m, queue)) :
              f \in seed \cup Missing(m, queue)
        BY <1>1, <1>7, <3>1, StoredWindow
      <3> QED BY <1>4, <3>2
    <2> QED BY <2>3, <2>4
  <1>12. ASSUME NEW q \in Peer \ {p}, m.want = 1
         PROVE  /\ epoch[q] # 0
                /\ epoch[q] = 1 => acked <= remoteHigh[q]
    <2>1. q = m.src
      BY <1>1, PeerAssumption
    <2>2. epoch[q] >= 1
      BY <1>1, <1>5, <1>12, <2>1
    <2>3. epoch[q] = 1 => m.ack <= remoteHigh[q]
      BY <1>1, <1>5, <1>12, <2>1 DEF SentOK
    <2>4. peerAcked[p] = -1
      BY <1>5, <1>6, <1>12, NothingAcked
    <2> QED BY <1>1, <1>6, <1>9, <2>2, <2>3, <2>4
  <1>13. /\ remoteHigh'[p] = top /\ peerAcked'[p] = acked
         /\ have'[p] = seed \cup F /\ OthersKept(p)
    <2>1. have \in [Peer -> SUBSET Nat] /\ peerAcked \in [Peer -> Int]
      BY DEF TypeOK
    <2> QED BY <1>5, <1>6, <2>1 DEF OthersKept
  <1>14. m.want = 1 => JoinsFirst(p)
    BY <1>11, <1>12, <1>13 DEF JoinsFirst
  <1>15. remoteHigh'[p] >= FirstDelay - 1 /\ peerAcked'[p] >= -1
    BY <1>9, <1>10, <1>13
  <1>16. /\ m.want \in Nat /\ m.want > epoch[p] /\ net' = net
         /\ Restart(p, FirstDelay, m.want)
    BY <1>1, <1>5
  <1> QED BY <1>13, <1>14, <1>15, <1>16, WindowRestart

LEMMA WindowReplayFrames ==
  ASSUME WInv, AInv', NEW p \in Peer, ReplayFrames(p)
  PROVE  WInv'
  <1>1. UNCHANGED <<epoch, peerAcked, remoteHigh, have, netFrame, abandoned, net>>
    BY DEF ReplayFrames, timelineVars, queueVars, historyVars
  <1> QED BY <1>1, WindowIdle

LEMMA WindowOnPeerEpoch ==
  ASSUME WInv, AInv', FixedDelay, NEW p \in Peer, NEW m \in net,
         m.type = "epoch", OnPeerEpoch(p, m)
  PROVE  WInv'
  <1>1. m.epoch \in Nat /\ m.delay \in Delays \cup {FirstDelay}
    BY MessageKinds DEF WInv, AInv, IInv, EpochMessage
  <1>2. CASE /\ m.epoch > epoch[p] /\ Restart(p, m.delay, m.epoch)
             /\ remoteHigh' = [remoteHigh EXCEPT ![p] = m.delay - 1]
             /\ have' = [have EXCEPT ![p] = 0..(m.delay - 1)]
             /\ UNCHANGED <<peerAcked, net>>
    BY <1>1, <1>2, WindowAdopt
  <1>3. CASE /\ Transmit({EpochPacket(p, want[p], delay[p])})
             /\ UNCHANGED <<timelineVars, queueVars, historyVars>>
    <2>1. \A n \in net' : n.type = "input" => n \in net
      BY <1>3, OnlySentArrives DEF EpochPacket
    <2>2. UNCHANGED <<epoch, peerAcked, remoteHigh, have, netFrame, abandoned>>
      BY <1>3 DEF timelineVars, queueVars, historyVars
    <2> QED BY <2>1, <2>2, WindowIdle
  <1> QED BY <1>2, <1>3 DEF OnPeerEpoch

LEMMA WindowProposeEpoch ==
  ASSUME WInv, AInv', NEW p \in Peer, ProposeEpoch(p)
  PROVE  WInv'
  <1>1. PICK d \in Delays :
          /\ Transmit({EpochPacket(p, want'[p], d)}) \/ UNCHANGED net
          /\ UNCHANGED <<epoch, queueVars, historyVars>>
    BY DEF ProposeEpoch
  <1>2. \A n \in net' : n.type = "input" => n \in net
    BY <1>1, OnlySentArrives DEF EpochPacket
  <1>3. UNCHANGED <<epoch, peerAcked, remoteHigh, have, netFrame, abandoned>>
    BY <1>1 DEF queueVars, historyVars
  <1> QED BY <1>2, <1>3, WindowIdle

LEMMA WindowInit == Init => WInv
  <1> SUFFICES ASSUME Init PROVE WInv
    OBVIOUS
  <1>1. AInv
    BY AgreeInit
  <1>2. Barrier \in Nat \ {0}
    BY SizeAssumption
  <1>3. ClockBounded
    BY <1>2 DEF Init, ClockBounded
  <1>4. AllSentOK /\ AllAckedOK /\ AllHeldOK
    BY DEF Init, AllSentOK, AllAckedOK, AckedOK, AllHeldOK, HeldOK
  <1> QED BY <1>1, <1>3, <1>4 DEF WInv

LEMMA WindowNext ==
  ASSUME FixedDelay, WindowFits, WInv, [Next]_vars PROVE WInv'
  <1>1. AInv'
    BY AgreeNext DEF WInv
  <1>2. ASSUME NEW p \in Peer, ProposeEpoch(p) PROVE WInv'
    BY <1>1, <1>2, WindowProposeEpoch
  <1>3. ASSUME NEW p \in Peer, NEW m \in net, m.type = "input", m.src # p,
               RecvProposal(p, m)
        PROVE  WInv'
    <2>1. /\ delay[p] \in Delays \cup {FirstDelay} /\ m.want \in Nat
          /\ m.want > epoch[p]
      BY <1>3, MessageFields DEF WInv, AInv, IInv, TypeOK, RecvProposal
    <2>2. /\ Restart(p, delay[p], m.want) /\ net' = net /\ peerAcked' = peerAcked
          /\ remoteHigh' = [remoteHigh EXCEPT ![p] = delay[p] - 1]
          /\ have' = [have EXCEPT ![p] = 0..(delay[p] - 1)]
      BY <1>3 DEF RecvProposal
    <2> QED BY <1>1, <2>1, <2>2, WindowAdopt
  <1>4. ASSUME NEW p \in Peer, Receive(p) PROVE WInv'
    BY <1>1, <1>3, <1>4, WindowOnPeerEpoch, WindowRecvSameEpoch, WindowRecvNewEpoch
       DEF Receive, OnRecvInput
  <1>5. ASSUME NEW p \in Peer, PumpStalled(p) PROVE WInv'
    BY <1>1, <1>5, WindowPumpStalled
  <1>6. ASSUME NEW p \in Peer, RunFrame(p) PROVE WInv'
    BY <1>1, <1>6, WindowRunFrame
  <1>7. ASSUME NEW p \in Peer, RunWithoutInput(p) PROVE WInv'
    BY <1>1, <1>7, WindowRunWithoutInput
  <1>8. ASSUME NEW p \in Peer, ReplayFrames(p) PROVE WInv'
    BY <1>1, <1>8, WindowReplayFrames
  <1>9. CASE UNCHANGED vars
    <2>1. UNCHANGED <<epoch, peerAcked, remoteHigh, have, netFrame, abandoned, net>>
      BY <1>9 DEF vars, timelineVars, queueVars, historyVars
    <2> QED BY <1>1, <2>1, WindowIdle
  <1> QED BY <1>2, <1>4, <1>5, <1>6, <1>7, <1>8, <1>9 DEF Next

\* With one delay, and packets that carry twice the frames a peer can schedule
\* beyond the input it holds, no frame of the first timeline is lost, however
\* many datagrams are (send_input, g_peer_acked, MAX_PREDICTION): at the
\* barrier of 8 and 32 frames a packet, for delays up to 9.
THEOREM FirstTimelineLosesNothing ==
  ASSUME FixedDelay, WindowFits PROVE Spec => []NoInputLostInFirstEpoch
  <1>1. WInv => NoInputLostInFirstEpoch
    BY DEF WInv, AllHeldOK, HeldOK, NoInputLostInFirstEpoch
  <1>2. WInv /\ [Next]_vars => WInv'
    BY WindowNext
  <1> QED BY <1>1, <1>2, WindowInit, PTL DEF Spec

----------------------------------------------------------------------------
(***************************************************************************)
(* On the first timeline the games see the same pads, or the trigger fires  *)
(* for every frame the map still has: a guess that turned out wrong is      *)
(* found out when the pad comes.  A guess waits in the slot of its frame,   *)
(* so this is about what else can be in the slot: the window leaves no lost *)
(* frame below the newest (WInv), so frames that wait are less than a ring  *)
(* apart, as are a frame that waits for its turn and any the other peer can *)
(* have scheduled.  Only a datagram that is late by a whole ring could      *)
(* bring an old frame over a new one.                                       *)
(***************************************************************************)

\* The pads a capture is late with are sent before the game is given them.
GapFits == FirstDelay <= GapCap

\* What can still arrive on the first timeline is younger than a ring.
NoneStale ==
  \A m \in net : \A q \in Peer \ {m.src} :
    m.type = "input" /\ m.epoch = 1 /\ epoch[q] = 1 =>
      remoteHigh[q] < m.start + Ring /\ netFrame[q] <= m.start + Ring

\* What a peer's own game was given is what the peer has queued.  A frame to
\* come that is not queued lies before the first capture, where all is neutral.
ShownIsQueued(p) ==
  \A f \in 0..MaxFrame : shown[p][f] # None =>
    /\ f < netFrame[p] /\ f <= lastCaptured[p]
    /\ f > Frontier(p) - Ring => BlobAt(local[p], f) = shown[p][f].own
    /\ f < FirstDelay => shown[p][f].own = Neutral
HolesAreNeutral(p) ==
  \A f \in netFrame[p]..Frontier(p) : ~Held(local[p], f) =>
    /\ lastLocal[p] = Neutral
    /\ \A g \in netFrame[p]..f : BlobAt(local[p], g) = Neutral
OwnOK(p) ==
  /\ ~Active(p) => netFrame[p] = 0
  /\ lastCaptured[p] = -1 => lastLocal[p] = Neutral
  /\ ShownIsQueued(p) /\ HolesAreNeutral(p)

\* b is the pad p's own game was given for f, or will be.
Owed(p, f, b) ==
  IF f < netFrame[p] THEN shown[p][f] # None => b = shown[p][f].own
  ELSE b = BlobAt(local[p], f)

KeepsOwed(p) ==
  \A f \in Nat : \A b : f <= Frontier(p) /\ Owed(p, f, b) => Owed(p, f, b)'
OwnKept(p) ==
  /\ local'[p] = local[p] /\ netFrame'[p] = netFrame[p]
  /\ lastCaptured'[p] = lastCaptured[p] /\ lastLocal'[p] = lastLocal[p]
  /\ shown'[p] = shown[p]

PadsOK(m) ==
  /\ m.upto < m.start + Redundancy
  /\ m.epoch = epoch[m.src] => \A f \in m.start..m.upto : Owed(m.src, f, m.blobs[f])
PadsInv == \A m \in net : m.type = "input" => PadsOK(m)

\* What q has of p: before p joins the timeline, the neutral frames of the seed.
Due(p, q, f, b) == IF epoch[p] = epoch[q] THEN Owed(p, f, b) ELSE b = Neutral
Reached(p, q) == IF epoch[p] = epoch[q] THEN Frontier(p) ELSE FirstDelay - 1

\* Frames that need not have been given the right pad: the trigger has fired,
\* or the map had lost the frame by then.
Excused(q) == corrected[q] \cup unmapped[q]

\* A frame q has is in its queue until its turn comes; after that its pad was
\* the one the game was given, or the frame is excused.
HaveOK(p, q) ==
  /\ \A f \in have[q] : f <= remoteHigh[q] /\ f <= Reached(p, q)
  /\ \A i \in Slot : remote[q][i].frame # -1 => remote[q][i].frame \in have[q]
  /\ \A f \in have[q] : f >= netFrame[q] =>
       \E b : remote[q][Idx(f)] = [frame |-> f, blob |-> b] /\ Due(p, q, f, b)
  /\ \A f \in have[q] : f < netFrame[q] /\ shown[q][f] # None /\ f \notin Excused(q) =>
       \E b : shown[q][f].other = b /\ Due(p, q, f, b)

\* The guesses on record are those of the frames that wait for their pads.
Waits(q, f) == f < netFrame[q] /\ f \notin have[q]
GuessOK(q) ==
  /\ \A i \in Slot : guess[q][i] # None => \E f \in Nat : Waits(q, f) /\ Idx(f) = i
  /\ \A f \in Nat : Waits(q, f) /\ shown[q][f] # None =>
       guess[q][Idx(f)] = shown[q][f].other

RemoteOK(p, q) == epoch[q] = 1 /\ epoch[p] <= 1 => HaveOK(p, q) /\ GuessOK(q)

SameInv ==
  /\ WInv /\ PadsInv
  /\ \A p \in Peer : OwnOK(p)
  /\ \A p, q \in Peer : p # q => RemoteOK(p, q)

\* Two frames of one slot are a ring apart (idx).
LEMMA SlotApart ==
  ASSUME NEW f \in Nat, NEW g \in Nat, Idx(f) = Idx(g), f < g
  PROVE  f + Ring <= g
  <1>1. Ring \in Nat /\ Ring > 0
    BY SizeAssumption
  <1>2. PICK a \in Int, b \in Int : /\ a = f \div Ring /\ b = g \div Ring
    BY <1>1
  <1>3. f = Ring * a + (f % Ring) /\ g = Ring * b + (g % Ring)
    BY <1>1, <1>2
  <1>4. f % Ring = g % Ring
    BY DEF Idx
  <1>5. Ring * a < Ring * b
    BY <1>1, <1>2, <1>3, <1>4
  <1>6. a < b
    BY <1>1, <1>5
  <1>7. Ring * a + Ring <= Ring * b
    <2>1. PICK c \in Nat : b = a + 1 + c
      <3>1. b - a - 1 \in Nat /\ b = a + 1 + (b - a - 1)
        BY <1>6
      <3> QED BY <3>1
    <2>2. Ring * b = Ring * a + Ring + Ring * c
      BY <1>1, <2>1
    <2>3. Ring * c >= 0 /\ Ring * c \in Int /\ Ring * a \in Int
      BY <1>1
    <2> QED BY <1>1, <2>2, <2>3
  <1> QED BY <1>1, <1>3, <1>4, <1>7

\* The types the steps below need, of a peer.
LEMMA PeerTypes ==
  ASSUME AInv, NEW p \in Peer
  PROVE  /\ epoch[p] \in Nat /\ netFrame[p] \in 0..MaxFrame /\ netFrame[p] \in Nat
         /\ lastCaptured[p] \in Int /\ -1 <= lastCaptured[p]
         /\ lastCaptured[p] < netFrame[p]
         /\ remoteHigh[p] \in Int /\ Frontier(p) \in Int /\ FirstDelay - 1 <= Frontier(p)
         /\ Frontier(p) < netFrame[p] + FirstDelay
         /\ local[p] \in [Slot -> Entry] /\ remote[p] \in [Slot -> Entry]
         /\ lastLocal[p] \in Blob /\ lastRemote[p] \in Blob
         /\ guess[p] \in [Slot -> Blob \cup {None}]
         /\ shown[p] \in [0..MaxFrame -> Pads \cup {None}]
         /\ have[p] \in SUBSET Nat /\ corrected[p] \in SUBSET Nat
         /\ MaxFrame \in Nat /\ FirstDelay \in Nat /\ 2 * FirstDelay < Ring
         /\ Ring \in Nat /\ Ring > 0 /\ GapCap \in Nat /\ GapCap < Ring
         /\ Redundancy \in Nat /\ Redundancy <= Ring
  <1>1. /\ MaxFrame \in Nat /\ FirstDelay \in Nat /\ 2 * FirstDelay < Ring
        /\ Ring \in Nat /\ Ring > 0 /\ GapCap \in Nat /\ GapCap < Ring
        /\ Redundancy \in Nat /\ Redundancy <= Ring
    BY SizeAssumption, DelayAssumption
  <1>2. /\ epoch[p] \in Nat /\ netFrame[p] \in 0..MaxFrame /\ lastCaptured[p] \in Int
        /\ remoteHigh[p] \in Int
        /\ local[p] \in [Slot -> Entry] /\ remote[p] \in [Slot -> Entry]
        /\ lastLocal[p] \in Blob /\ lastRemote[p] \in Blob
        /\ guess[p] \in [Slot -> Blob \cup {None}]
        /\ shown[p] \in [0..MaxFrame -> Pads \cup {None}]
        /\ have[p] \in SUBSET Nat /\ corrected[p] \in SUBSET Nat
    BY DEF AInv, IInv, TypeOK
  <1>3. -1 <= lastCaptured[p] /\ lastCaptured[p] < netFrame[p]
    BY DEF AInv, CaptureBehindClock
  <1> QED BY <1>1, <1>2, <1>3 DEF Frontier

\* What the wire can carry is typed, and is what its sender has scheduled.
LEMMA PacketFacts ==
  ASSUME SameInv, NEW m \in net, m.type = "input"
  PROVE  /\ m.src \in Peer /\ IsInputMessage(m) /\ m.epoch \in Nat /\ m.epoch <= epoch[m.src]
         /\ m.upto < m.start + Redundancy
         /\ m.epoch = epoch[m.src] =>
              m.upto <= Frontier(m.src) /\ \A f \in m.start..m.upto : Owed(m.src, f, m.blobs[f])
  <1>1. TypeOK /\ PacketOK(m) /\ PadsOK(m)
    BY DEF SameInv, WInv, AInv, IInv, PacketInv, PadsInv
  <1> QED BY <1>1, MessageKinds DEF PacketOK, PadsOK

\* What a packet says of a frame is what the queue it was built from says, and
\* the frame is younger than a ring.
PacketSays(m, p, upto, queue) ==
  /\ m.src = p /\ m.epoch = epoch[p] /\ m.upto < m.start + Redundancy
  /\ \A f \in m.start..m.upto : /\ f \in Nat /\ f <= upto /\ f > upto - Ring
                                /\ m.blobs[f] = BlobAt(queue, f)

LEMMA PacketPads ==
  ASSUME AInv, NEW p \in Peer, NEW upto \in Nat, NEW queue \in [Slot -> Entry],
         NEW m, m = InputPacket(p, upto, queue)
  PROVE  PacketSays(m, p, upto, queue)
  <1>1. /\ m.src = p /\ m.epoch = epoch[p] /\ m.upto = upto
        /\ m.start = WindowStart(p, upto)
        /\ m.blobs = [f \in WindowStart(p, upto)..upto |-> BlobAt(queue, f)]
    BY DEF InputPacket
  <1>2. peerAcked[p] \in Int /\ Redundancy \in Nat /\ Ring \in Nat /\ Redundancy <= Ring
    BY PeerTypes DEF AInv, IInv, TypeOK
  <1>3. WindowStart(p, upto) \in Nat /\ WindowStart(p, upto) >= upto - (Redundancy - 1)
    BY <1>2 DEF WindowStart, Newer, Older
  <1> QED BY <1>1, <1>2, <1>3 DEF PacketSays

\* What a capture changes: nothing of what was scheduled and is in reach, and
\* it leaves no gap from the current frame on.
Schedules(p, Q, upto) ==
  /\ \A f \in Nat : f <= Frontier(p) /\ f > upto - Ring =>
       (Held(Q, f) <=> Held(local[p], f)) /\ BlobAt(Q, f) = BlobAt(local[p], f)
  /\ \A f \in Nat : f > Frontier(p) /\ netFrame[p] <= f /\ f <= upto =>
       Held(Q, f) \/ (lastCaptured[p] = -1 /\ f < upto)
  /\ lastCaptured[p] = -1 => \A f \in Nat : f < upto => BlobAt(Q, f) = Neutral

LEMMA CapturedPads ==
  ASSUME AInv, FixedDelay, GapFits, NEW p \in Peer, NEW raw \in Blob, NEW Q,
         Q = Filled(local[p], CaptureFrames(p), [f \in CaptureFrames(p) |-> raw]),
         NEW upto, upto = netFrame[p] + FirstDelay
  PROVE  Schedules(p, Q, upto)
  <1>1. PICK F, b : F = CaptureFrames(p) /\ b = [f \in F |-> raw]
    OBVIOUS
  <1>2. /\ netFrame[p] \in Nat /\ lastCaptured[p] \in Int /\ -1 <= lastCaptured[p]
        /\ lastCaptured[p] < netFrame[p] /\ Frontier(p) \in Int
        /\ FirstDelay \in Nat /\ FirstDelay < Ring /\ Ring \in Nat
        /\ GapCap \in Nat /\ GapCap < Ring /\ local[p] \in [Slot -> Entry]
        /\ Frontier(p) = lastCaptured[p] + FirstDelay
        /\ FirstDelay - 1 <= Frontier(p) /\ Frontier(p) < upto
    BY PeerTypes DEF Frontier
  <1>3. delay[p] = FirstDelay
    BY OneDelay DEF AInv, IInv, TypeOK
  <1>4. PICK first \in Nat :
          /\ F = first..upto /\ first >= upto - GapCap /\ first <= upto
          /\ first > Frontier(p)
          /\ lastCaptured[p] = -1 => first = upto
          /\ lastCaptured[p] >= 0 => first <= Frontier(p) + 1 \/ first <= upto - GapCap
    <2>1. F = Newer(Older(IF lastCaptured[p] < 0 THEN upto ELSE Frontier(p) + 1, upto),
                    upto - GapCap)..upto
      BY <1>1, <1>2, <1>3 DEF CaptureFrames
    <2>2. PICK first : first = Newer(Older(IF lastCaptured[p] < 0 THEN upto ELSE Frontier(p) + 1, upto),
                                     upto - GapCap)
      OBVIOUS
    <2>3. /\ first \in Nat /\ first >= upto - GapCap /\ first <= upto
          /\ first > Frontier(p)
          /\ lastCaptured[p] = -1 => first = upto
          /\ lastCaptured[p] >= 0 => first <= Frontier(p) + 1 \/ first <= upto - GapCap
      BY <1>2, <2>2 DEF Newer, Older
    <2> QED BY <2>1, <2>2, <2>3
  <1>5. F \in SUBSET Nat /\ \A f \in F : f > Frontier(p) /\ f <= upto /\ f >= upto - GapCap
    BY <1>2, <1>4
  <1>6. Q \in [Slot -> Entry] /\ StoredOver(Q, local[p], F, b)
    <2>1. \A f \in F : b[f] \in Blob
      BY <1>1
    <2>2. Q = Filled(local[p], F, b)
      BY <1>1
    <2> QED BY <1>2, <1>5, <2>1, <2>2, FilledSlots
  <1>7. ASSUME NEW f \in Nat, f <= Frontier(p), f > upto - Ring
        PROVE  Q[Idx(f)] = local[p][Idx(f)] \/ (~Held(Q, f) /\ ~Held(local[p], f))
    <2>1. Idx(f) \in Slot
      BY SlotOfFrame
    <2>2. ASSUME NEW g \in F, Idx(g) = Idx(f) PROVE FALSE
      <3>1. g \in Nat /\ f < g /\ g < f + Ring
        BY <1>2, <1>5, <1>7
      <3> QED BY <1>2, <2>2, <3>1, SlotApart
    <2> QED BY <1>6, <2>1, <2>2 DEF StoredOver
  <1>8. ASSUME NEW f \in Nat, f <= Frontier(p), f > upto - Ring
        PROVE  (Held(Q, f) <=> Held(local[p], f)) /\ BlobAt(Q, f) = BlobAt(local[p], f)
    BY <1>7, <1>8 DEF Held, BlobAt
  <1>9. ASSUME NEW f \in F PROVE Held(Q, f)
    <2>1. f \in Nat /\ Idx(f) \in Slot
      BY <1>5, SlotOfFrame
    <2>2. PICK g \in F : Idx(g) = Idx(f) /\ Q[Idx(f)] = [frame |-> g, blob |-> b[g]]
      BY <1>6, <2>1 DEF StoredOver
    <2>3. g \in Nat /\ f < g + Ring /\ g < f + Ring
      BY <1>2, <1>5
    <2>4. f = g
      BY <1>2, <2>1, <2>2, <2>3, SlotApart
    <2> QED BY <2>2, <2>4 DEF Held
  <1>10. ASSUME NEW f \in Nat, f > Frontier(p), netFrame[p] <= f, f <= upto
         PROVE  Held(Q, f) \/ (lastCaptured[p] = -1 /\ f < upto)
    <2>1. f >= upto - GapCap
      BY <1>2, <1>10 DEF GapFits
    <2>2. CASE lastCaptured[p] = -1
      <3>1. f = upto => f \in F
        BY <1>2, <1>4, <2>2
      <3> QED BY <1>2, <1>9, <1>10, <2>2, <3>1
    <2>3. CASE lastCaptured[p] >= 0
      <3>1. f \in F
        BY <1>2, <1>4, <1>10, <2>1, <2>3
      <3> QED BY <1>9, <3>1
    <2> QED BY <1>2, <2>2, <2>3
  <1>11. ASSUME lastCaptured[p] = -1, NEW f \in Nat, f < upto
         PROVE  BlobAt(Q, f) = Neutral
    <2> SUFFICES ASSUME Held(Q, f) PROVE Q[Idx(f)].blob = Neutral
      BY DEF BlobAt
    <2>1. Idx(f) \in Slot /\ Q[Idx(f)].frame = f
      BY SlotOfFrame DEF Held
    <2>2. F = {upto}
      BY <1>2, <1>4, <1>11
    <2>3. Q[Idx(f)] = local[p][Idx(f)]
      <3>1. ASSUME NEW g \in F, Q[Idx(f)].frame = g PROVE FALSE
        BY <1>2, <1>11, <2>1, <2>2, <3>1
      <3> QED BY <1>6, <2>1, <3>1, StoredFrame
    <2>4. f < FirstDelay
      <3>1. f <= Frontier(p)
        BY <2>1, <2>3 DEF AInv, LocalInv, UpTo
      <3> QED BY <1>2, <1>11, <3>1
    <2> QED BY <2>1, <2>3, <2>4 DEF AInv, LocalInv, NeutralBelowDelay
  <1> QED BY <1>8, <1>10, <1>11 DEF Schedules

\* What a frame with input does (on_frame_begin), Q being the queue captured.
OwnPad(p, Q) ==
  IF Held(Q, netFrame[p]) THEN Q[Idx(netFrame[p])].blob ELSE lastLocal[p]
OtherPad(p) ==
  IF Held(remote[p], netFrame[p]) THEN remote[p][Idx(netFrame[p])].blob ELSE lastRemote[p]
Ran(p, Q) ==
  /\ local' = [local EXCEPT ![p] = Q]
  /\ lastCaptured' = [lastCaptured EXCEPT ![p] = netFrame[p]]
  /\ lastLocal' = [lastLocal EXCEPT ![p] = OwnPad(p, Q)]
  /\ guess' = [guess EXCEPT ![p][Idx(netFrame[p])] =
       IF Held(remote[p], netFrame[p]) THEN None
       ELSE IF guess[p][Idx(netFrame[p])] = None THEN OtherPad(p)
       ELSE guess[p][Idx(netFrame[p])]]
  /\ shown' = [shown EXCEPT ![p][netFrame[p]] =
       [own |-> OwnPad(p, Q), other |-> OtherPad(p)]]
  /\ netFrame' = [netFrame EXCEPT ![p] = netFrame[p] + 1]
  /\ Transmit({InputPacket(p, netFrame[p] + FirstDelay, Q)})
  /\ UNCHANGED <<epoch, remoteHigh, remote, have>>
  /\ \A q \in Peer : Excused(q) \subseteq Excused(q)'

\* An entry taken excuses a frame more.
LEMMA ExcusedGrow ==
  ASSUME AInv, NEW p \in Peer, UNCHANGED unmapped \/ TakeEntry(p), corrected' = corrected
  PROVE  \A q \in Peer : Excused(q) \subseteq Excused(q)'
  <1>1. unmapped \in [Peer -> SUBSET (0..MaxFrame)]
    BY DEF AInv, IInv, TypeOK
  <1>2. CASE TakeEntry(p)
    <2>1. PICK f : unmapped' = [unmapped EXCEPT ![p] = @ \cup {f}]
      BY <1>2 DEF TakeEntry
    <2> QED BY <1>1, <2>1 DEF Excused
  <1> QED BY <1>2 DEF Excused

LEMMA RunFrameRan ==
  ASSUME AInv, FixedDelay, NEW p \in Peer, RunFrame(p)
  PROVE  /\ Active(p) /\ netFrame[p] < MaxFrame
         /\ \E raw \in Blob :
              Ran(p, Filled(local[p], CaptureFrames(p), [f \in CaptureFrames(p) |-> raw]))
  <1>1. delay[p] = FirstDelay
    BY OneDelay DEF AInv, IInv, TypeOK
  <1>2. /\ Active(p) /\ netFrame[p] < MaxFrame
        /\ UNCHANGED <<timelineVars, remoteHigh, peerAcked, remote, have, corrected>>
        /\ UNCHANGED unmapped \/ TakeEntry(p)
    BY DEF RunFrame
  <1>3. PICK raw \in Blob :
          LET N == netFrame[p]
              F == CaptureFrames(p)
              queue == Filled(local[p], F, [f \in F |-> raw])
              own == IF Held(queue, N) THEN queue[Idx(N)].blob ELSE lastLocal[p]
              confirmed == Held(remote[p], N)
              other == IF confirmed THEN remote[p][Idx(N)].blob ELSE lastRemote[p]
          IN /\ local' = [local EXCEPT ![p] = queue]
             /\ Transmit({InputPacket(p, N + delay[p], queue)})
             /\ lastCaptured' = [lastCaptured EXCEPT ![p] = N]
             /\ lastLocal' = [lastLocal EXCEPT ![p] = own]
             /\ lastRemote' = [lastRemote EXCEPT ![p] = other]
             /\ guess' = [guess EXCEPT ![p][Idx(N)] =
                    IF confirmed THEN None
                    ELSE IF @ = None THEN other ELSE @]
             /\ shown' = [shown EXCEPT ![p][N] = [own |-> own, other |-> other]]
             /\ netFrame' = [netFrame EXCEPT ![p] = N + 1]
    BY DEF RunFrame
  <1>4. PICK Q : Q = Filled(local[p], CaptureFrames(p), [f \in CaptureFrames(p) |-> raw])
    OBVIOUS
  <1>5. \A q \in Peer : Excused(q) \subseteq Excused(q)'
    <2>1. corrected' = corrected
      BY <1>2
    <2> QED BY <1>2, <2>1, ExcusedGrow
  <1>6. Ran(p, Q)
    BY <1>1, <1>2, <1>3, <1>4, <1>5, Zenon DEF Ran, OwnPad, OtherPad, timelineVars
  <1> QED BY <1>2, <1>4, <1>6

\* The queue, the clock and the pads after a frame, at the peer that ran it.
AfterFrame(p, Q) ==
  /\ local'[p] = Q /\ netFrame'[p] = netFrame[p] + 1
  /\ lastCaptured'[p] = netFrame[p] /\ lastLocal'[p] = OwnPad(p, Q)
  /\ shown'[p] = [f \in 0..MaxFrame |->
       IF f = netFrame[p] THEN [own |-> OwnPad(p, Q), other |-> OtherPad(p)]
       ELSE shown[p][f]]
  /\ guess'[p] = [i \in Slot |-> IF i # Idx(netFrame[p]) THEN guess[p][i]
       ELSE IF Held(remote[p], netFrame[p]) THEN None
       ELSE IF guess[p][i] = None THEN OtherPad(p) ELSE guess[p][i]]
  /\ OwnPad(p, Q) \in Blob /\ OtherPad(p) \in Blob
  /\ \A q \in Peer \ {p} :
       /\ local'[q] = local[q] /\ netFrame'[q] = netFrame[q]
       /\ lastCaptured'[q] = lastCaptured[q] /\ lastLocal'[q] = lastLocal[q]
       /\ shown'[q] = shown[q] /\ guess'[q] = guess[q]

LEMMA RanFacts ==
  ASSUME AInv, NEW p \in Peer, NEW Q, Q \in [Slot -> Entry], Ran(p, Q), netFrame[p] < MaxFrame
  PROVE  AfterFrame(p, Q)
  <1>1. /\ netFrame[p] \in Nat /\ netFrame[p] \in 0..MaxFrame /\ FirstDelay \in Nat
        /\ shown[p] \in [0..MaxFrame -> Pads \cup {None}]
        /\ guess[p] \in [Slot -> Blob \cup {None}]
        /\ remote[p] \in [Slot -> Entry] /\ lastLocal[p] \in Blob /\ lastRemote[p] \in Blob
    BY PeerTypes
  <1>2. /\ netFrame \in [Peer -> 0..MaxFrame] /\ lastCaptured \in [Peer -> Int]
        /\ local \in [Peer -> [Slot -> Entry]] /\ lastLocal \in [Peer -> Blob]
        /\ shown \in [Peer -> [0..MaxFrame -> Pads \cup {None}]]
        /\ guess \in [Peer -> [Slot -> Blob \cup {None}]]
    BY DEF AInv, IInv, TypeOK
  <1>3. Idx(netFrame[p]) \in Slot
    BY <1>1, SlotOfFrame
  <1>4. OwnPad(p, Q) \in Blob /\ OtherPad(p) \in Blob
    BY <1>1, <1>3 DEF OwnPad, OtherPad, Entry
  <1>5. /\ local'[p] = Q /\ netFrame'[p] = netFrame[p] + 1
        /\ lastCaptured'[p] = netFrame[p] /\ lastLocal'[p] = OwnPad(p, Q)
    BY <1>2 DEF Ran
  <1>6. shown'[p] = [shown[p] EXCEPT ![netFrame[p]] =
                       [own |-> OwnPad(p, Q), other |-> OtherPad(p)]]
    BY <1>2 DEF Ran
  <1>7. guess'[p] = [guess[p] EXCEPT ![Idx(netFrame[p])] =
                       IF Held(remote[p], netFrame[p]) THEN None
                       ELSE IF guess[p][Idx(netFrame[p])] = None THEN OtherPad(p)
                       ELSE guess[p][Idx(netFrame[p])]]
    BY <1>2 DEF Ran
  <1>8. \A q \in Peer \ {p} :
          /\ local'[q] = local[q] /\ netFrame'[q] = netFrame[q]
          /\ lastCaptured'[q] = lastCaptured[q] /\ lastLocal'[q] = lastLocal[q]
          /\ shown'[q] = shown[q] /\ guess'[q] = guess[q]
    BY <1>2 DEF Ran
  <1>9. shown'[p] = [f \in 0..MaxFrame |->
              IF f = netFrame[p] THEN [own |-> OwnPad(p, Q), other |-> OtherPad(p)]
              ELSE shown[p][f]]
    BY <1>1, <1>6
  <1>10. guess'[p] = [i \in Slot |-> IF i # Idx(netFrame[p]) THEN guess[p][i]
              ELSE IF Held(remote[p], netFrame[p]) THEN None
              ELSE IF guess[p][i] = None THEN OtherPad(p) ELSE guess[p][i]]
    BY <1>1, <1>3, <1>7
  <1> QED BY <1>4, <1>5, <1>8, <1>9, <1>10 DEF AfterFrame

\* A frame run keeps what is known of a peer's own pads, and what it owes.
LEMMA OwnRunFrame ==
  ASSUME AInv, FixedDelay, GapFits, NEW p \in Peer, OwnOK(p), Active(p),
         netFrame[p] < MaxFrame, NEW raw \in Blob, NEW Q,
         Q = Filled(local[p], CaptureFrames(p), [f \in CaptureFrames(p) |-> raw]),
         Ran(p, Q)
  PROVE  OwnOK(p)' /\ KeepsOwed(p)
  <1>1. PICK N, upto, own : /\ N = netFrame[p] /\ upto = N + FirstDelay /\ own = OwnPad(p, Q)
    OBVIOUS
  <1>2. /\ N \in Nat /\ upto \in Nat /\ FirstDelay \in Nat /\ Ring \in Nat
        /\ FirstDelay < Ring /\ Frontier(p) \in Int /\ FirstDelay - 1 <= Frontier(p)
        /\ Frontier(p) < upto /\ N < MaxFrame /\ MaxFrame \in Nat
        /\ lastCaptured[p] \in Int /\ -1 <= lastCaptured[p] /\ lastCaptured[p] < N
        /\ Frontier(p) = lastCaptured[p] + FirstDelay
    BY <1>1, PeerTypes DEF Frontier
  <1>3. /\ Q \in [Slot -> Entry] /\ NeutralBelowDelay(Q) /\ UpTo(Q, upto)
    BY <1>1, CapturedQueue
  <1>4. /\ local'[p] = Q /\ netFrame'[p] = N + 1 /\ lastCaptured'[p] = N
        /\ lastLocal'[p] = own /\ Frontier(p)' = upto /\ own \in Blob
        /\ shown'[p] = [f \in 0..MaxFrame |->
              IF f = N THEN [own |-> own, other |-> OtherPad(p)] ELSE shown[p][f]]
    <2>1. AfterFrame(p, Q)
      BY <1>3, RanFacts, Zenon
    <2>3. Frontier(p)' = upto
      BY <1>1, <2>1 DEF Frontier, AfterFrame
    <2> QED BY <1>1, <2>1, <2>3 DEF AfterFrame
  <1>5. /\ \A f \in Nat : f <= Frontier(p) /\ f > upto - Ring =>
             (Held(Q, f) <=> Held(local[p], f)) /\ BlobAt(Q, f) = BlobAt(local[p], f)
        /\ \A f \in Nat : f > Frontier(p) /\ N <= f /\ f <= upto =>
              Held(Q, f) \/ (lastCaptured[p] = -1 /\ f < upto)
        /\ lastCaptured[p] = -1 => \A f \in Nat : f < upto => BlobAt(Q, f) = Neutral
    <2>1. upto = netFrame[p] + FirstDelay
      BY <1>1
    <2>2. Schedules(p, Q, upto)
      BY <2>1, CapturedPads, Zenon
    <2> QED BY <1>1, <2>2 DEF Schedules
  <1>6. /\ own = IF Held(Q, N) THEN Q[Idx(N)].blob ELSE lastLocal[p]
    BY <1>1 DEF OwnPad
  <1>7. N <= Frontier(p) => own = BlobAt(local[p], N)
    <2> SUFFICES ASSUME N <= Frontier(p) PROVE own = BlobAt(local[p], N)
      OBVIOUS
    <2>1. (Held(Q, N) <=> Held(local[p], N)) /\ BlobAt(Q, N) = BlobAt(local[p], N)
      BY <1>2, <1>1, <1>5
    <2>2. CASE Held(Q, N)
      BY <1>6, <2>1, <2>2 DEF BlobAt
    <2>3. CASE ~Held(Q, N)
      <3>1. lastLocal[p] = Neutral
        BY <1>1, <1>2, <2>1, <2>3 DEF OwnOK, HolesAreNeutral
      <3> QED BY <1>6, <2>1, <2>3, <3>1 DEF BlobAt
    <2> QED BY <2>2, <2>3
  <1>8. own = BlobAt(Q, N)
    <2>1. CASE N <= Frontier(p)
      <3>1. BlobAt(Q, N) = BlobAt(local[p], N)
        BY <1>1, <1>2, <1>5, <2>1
      <3> QED BY <1>7, <2>1, <3>1
    <2>2. CASE N > Frontier(p)
      <3>1. Held(Q, N) \/ lastCaptured[p] = -1
        BY <1>1, <1>2, <1>5, <2>2
      <3>2. CASE Held(Q, N)
        BY <1>6, <3>2 DEF BlobAt
      <3>3. CASE ~Held(Q, N) /\ lastCaptured[p] = -1
        BY <1>6, <3>3 DEF BlobAt, OwnOK
      <3> QED BY <3>1, <3>2, <3>3
    <2> QED BY <1>2, <2>1, <2>2
  <1>9. N < FirstDelay => own = Neutral
    <2>1. ASSUME Held(Q, N), N < FirstDelay PROVE Q[Idx(N)].blob = Neutral
      BY <1>2, <1>3, <2>1, SlotOfFrame DEF Held, NeutralBelowDelay
    <2> QED BY <1>8, <2>1 DEF BlobAt
  <1>10. ShownIsQueued(p)'
    <2> SUFFICES ASSUME NEW f \in 0..MaxFrame, shown'[p][f] # None
                 PROVE  /\ f < N + 1 /\ f <= N
                        /\ f > upto - Ring => BlobAt(Q, f) = shown'[p][f].own
                        /\ f < FirstDelay => shown'[p][f].own = Neutral
      BY <1>4 DEF ShownIsQueued
    <2>1. CASE f = N
      <3>1. shown'[p][f].own = own
        BY <1>4, <2>1
      <3> QED BY <1>2, <1>8, <1>9, <2>1, <3>1
    <2>2. CASE f # N
      <3>1. shown'[p][f] = shown[p][f]
        BY <1>4, <2>2
      <3>2. /\ f < N /\ f <= lastCaptured[p]
            /\ f > Frontier(p) - Ring => BlobAt(local[p], f) = shown[p][f].own
            /\ f < FirstDelay => shown[p][f].own = Neutral
        BY <1>1, <3>1 DEF OwnOK, ShownIsQueued
      <3>3. f \in Nat /\ f <= Frontier(p)
        BY <1>2, <3>2
      <3>4. f > upto - Ring => f > Frontier(p) - Ring /\ BlobAt(Q, f) = BlobAt(local[p], f)
        BY <1>2, <1>5, <3>3
      <3> QED BY <1>2, <3>1, <3>2, <3>3, <3>4
    <2> QED BY <2>1, <2>2
  <1>11. HolesAreNeutral(p)'
    <2> SUFFICES ASSUME NEW f \in (N + 1)..upto, ~Held(Q, f)
                 PROVE  own = Neutral /\ \A g \in (N + 1)..f : BlobAt(Q, g) = Neutral
      BY <1>4 DEF HolesAreNeutral
    <2>1. f \in Nat /\ N < f /\ f <= upto /\ \A g \in (N + 1)..f : g \in Nat /\ N < g /\ g <= f
      BY <1>2
    <2>2. CASE lastCaptured[p] = -1
      <3>1. f < upto
        BY <1>2, <1>5, <2>1, <2>2
      <3>2. N < upto /\ \A g \in (N + 1)..f : g < upto
        BY <1>2, <2>1, <3>1
      <3> QED BY <1>2, <1>5, <1>8, <2>1, <2>2, <3>2
    <2>3. CASE lastCaptured[p] # -1
      <3>1. f <= Frontier(p)
        BY <1>2, <1>5, <2>1, <2>3
      <3>2. f > upto - Ring /\ \A g \in (N + 1)..f : g <= Frontier(p) /\ g > upto - Ring
        BY <1>1, <1>2, <2>1, <3>1
      <3>3. ~Held(local[p], f) /\ f \in netFrame[p]..Frontier(p)
        BY <1>1, <1>2, <1>5, <2>1, <3>1, <3>2
      <3>4. \A g \in N..f : BlobAt(local[p], g) = Neutral
        BY <1>1, <3>3 DEF OwnOK, HolesAreNeutral
      <3>5. own = Neutral
        BY <1>2, <1>7, <2>1, <3>1, <3>4
      <3>6. ASSUME NEW g \in (N + 1)..f PROVE BlobAt(Q, g) = Neutral
        BY <1>2, <1>5, <2>1, <3>2, <3>4
      <3> QED BY <3>5, <3>6
    <2> QED BY <2>2, <2>3
  <1>12. OwnOK(p)'
    <2>1. Active(p)' /\ lastCaptured'[p] # -1
      BY <1>2, <1>4 DEF Active, Ran
    <2> QED BY <1>10, <1>11, <2>1 DEF OwnOK
  <1>13. ASSUME NEW f \in Nat, NEW b, f <= Frontier(p), Owed(p, f, b)
         PROVE  Owed(p, f, b)'
    <2>1. CASE f < N
      <3>1. shown'[p][f] = shown[p][f] /\ f < N + 1
        BY <1>2, <1>4, <2>1
      <3> QED BY <1>1, <1>4, <1>13, <2>1, <3>1 DEF Owed
    <2>2. CASE f = N
      <3>1. b = own
        BY <1>1, <1>2, <1>7, <1>13, <2>2 DEF Owed
      <3>2. shown'[p][f].own = own /\ f < N + 1
        BY <1>2, <1>4, <2>2
      <3> QED BY <1>4, <3>1, <3>2 DEF Owed
    <2>3. CASE f > N
      <3>1. b = BlobAt(local[p], f)
        BY <1>1, <1>2, <1>13, <2>3 DEF Owed
      <3>2. BlobAt(Q, f) = BlobAt(local[p], f) /\ ~(f < N + 1)
        BY <1>1, <1>2, <1>5, <1>13, <2>3
      <3> QED BY <1>4, <3>1, <3>2 DEF Owed
    <2> QED BY <1>2, <2>1, <2>2, <2>3
  <1> QED BY <1>12, <1>13 DEF KeepsOwed

\* What a packet built from a peer's queue says of its own pads.
LEMMA SentPads ==
  ASSUME AInv, FixedDelay, GapFits, NEW p \in Peer, OwnOK(p), Active(p),
         netFrame[p] < MaxFrame, NEW raw \in Blob, NEW Q,
         Q = Filled(local[p], CaptureFrames(p), [f \in CaptureFrames(p) |-> raw]),
         Ran(p, Q), NEW m, m = InputPacket(p, netFrame[p] + FirstDelay, Q)
  PROVE  PadsOK(m)'
  <1>1. Q \in [Slot -> Entry]
    BY CapturedQueue
  <1>2. PICK upto \in Nat : upto = netFrame[p] + FirstDelay
    <2>1. netFrame[p] + FirstDelay \in Nat
      BY PeerTypes
    <2> QED BY <2>1
  <1>3. AfterFrame(p, Q)
    BY <1>1, RanFacts, Zenon
  <1>4. local'[p] = Q /\ Frontier(p)' = upto /\ netFrame'[p] = netFrame[p] + 1
    BY <1>2, <1>3 DEF AfterFrame, Frontier
  <1>5. OwnOK(p)'
    BY OwnRunFrame
  <1>6. PacketSays(m, p, upto, Q)
    <2>1. m = InputPacket(p, upto, Q)
      BY <1>2
    <2> QED BY <1>1, <2>1, PacketPads
  <1>7. ASSUME NEW f \in m.start..m.upto PROVE Owed(p, f, m.blobs[f])'
    <2>1. PICK b : b = m.blobs[f]
      OBVIOUS
    <2>2. b = BlobAt(Q, f) /\ f \in Nat /\ f > upto - Ring
      BY <1>6, <2>1 DEF PacketSays
    <2>3. ASSUME f < netFrame'[p], shown'[p][f] # None PROVE b = shown'[p][f].own
      <3>1. f \in 0..MaxFrame
        <4>1. netFrame[p] \in Nat /\ MaxFrame \in Nat
          BY PeerTypes
        <4> QED BY <1>4, <2>2, <2>3, <4>1
      <3>2. PICK g : g = Frontier(p)'
        OBVIOUS
      <3>3. f > g - Ring => BlobAt(Q, f) = shown'[p][f].own
        BY <1>4, <1>5, <2>3, <3>1, <3>2 DEF OwnOK, ShownIsQueued
      <3> QED BY <1>4, <2>2, <3>2, <3>3
    <2> QED BY <1>4, <2>1, <2>2, <2>3 DEF Owed
  <1>8. m.src = p /\ m.upto < m.start + Redundancy
    BY <1>6 DEF PacketSays
  <1> QED BY <1>7, <1>8 DEF PadsOK

\* A peer whose own side does not move keeps all it owes.
LEMMA OwnStays ==
  ASSUME AInv, NEW q \in Peer, OwnOK(q), OwnKept(q), epoch'[q] = epoch[q]
  PROVE  OwnOK(q)' /\ KeepsOwed(q)
  <1>1. Frontier(q)' = Frontier(q)
    BY DEF OwnKept, Frontier
  <1>2. OwnOK(q)'
    <2>1. ShownIsQueued(q)'
      BY <1>1 DEF OwnOK, OwnKept, ShownIsQueued
    <2>2. HolesAreNeutral(q)'
      BY <1>1 DEF OwnOK, OwnKept, HolesAreNeutral
    <2> QED BY <2>1, <2>2 DEF OwnOK, OwnKept, Active
  <1>3. KeepsOwed(q)
    BY DEF KeepsOwed, Owed, OwnKept
  <1> QED BY <1>2, <1>3

\* Steps on one timeline: the packets in flight keep saying what is owed.
LEMMA PadsStay ==
  ASSUME SameInv, NEW p \in Peer, epoch' = epoch, OwnOK(p)', KeepsOwed(p),
         \A q \in Peer \ {p} : OwnKept(q),
         \A m \in net' : m.type = "input" => m \in net \/ PadsOK(m)'
  PROVE  PadsInv' /\ \A q \in Peer : OwnOK(q)' /\ KeepsOwed(q)
  <1>1. ASSUME NEW q \in Peer PROVE OwnOK(q)' /\ KeepsOwed(q)
    <2>1. CASE q = p
      BY <2>1
    <2>2. CASE q # p
      BY <2>2, OwnStays DEF SameInv, WInv
    <2> QED BY <2>1, <2>2
  <1>2. ASSUME NEW m \in net, m.type = "input" PROVE PadsOK(m)'
    <2>1. /\ m.src \in Peer /\ IsInputMessage(m) /\ m.upto < m.start + Redundancy
          /\ m.epoch = epoch[m.src] =>
               m.upto <= Frontier(m.src) /\ \A f \in m.start..m.upto : Owed(m.src, f, m.blobs[f])
      BY <1>2, PacketFacts
    <2>2. ASSUME m.epoch = epoch[m.src], NEW f \in m.start..m.upto
          PROVE  Owed(m.src, f, m.blobs[f])'
      <3>1. PICK b, s : b = m.blobs[f] /\ s = m.src
        OBVIOUS
      <3>2. f \in Nat /\ f <= Frontier(s)
        <4>1. Frontier(s) \in Int
          BY <2>1, <3>1, PeerTypes DEF SameInv, WInv
        <4> QED BY <2>1, <2>2, <3>1, <4>1 DEF IsInputMessage
      <3>3. Owed(s, f, b) /\ KeepsOwed(s)
        BY <1>1, <2>1, <2>2, <3>1
      <3>4. Owed(s, f, b)'
        BY <3>2, <3>3 DEF KeepsOwed
      <3> QED BY <3>1, <3>4
    <2> QED BY <2>1, <2>2 DEF PadsOK
  <1>3. PadsInv'
    BY <1>2 DEF PadsInv
  <1> QED BY <1>1, <1>3

\* A frame without input: what is owed for it is not asked for any more.
LEMMA OwnRunWithoutInput ==
  ASSUME AInv, NEW p \in Peer, OwnOK(p), RunWithoutInput(p)
  PROVE  OwnOK(p)' /\ KeepsOwed(p)
  <1>1. /\ Active(p) /\ netFrame[p] + 1 < MaxFrame
        /\ netFrame' = [netFrame EXCEPT ![p] = netFrame[p] + 1]
        /\ UNCHANGED <<epoch, lastCaptured, local, lastLocal, shown>>
    BY DEF RunWithoutInput, timelineVars
  <1>2. /\ netFrame[p] \in Nat /\ MaxFrame \in Nat /\ netFrame'[p] = netFrame[p] + 1
        /\ Frontier(p) \in Int
    <2>1. netFrame \in [Peer -> 0..MaxFrame]
      BY DEF AInv, IInv, TypeOK
    <2> QED BY <1>1, <2>1, PeerTypes
  <1>3. Frontier(p)' = Frontier(p)
    BY <1>1 DEF Frontier
  <1>4. \A f \in 0..MaxFrame : shown[p][f] # None => f < netFrame[p]
    BY DEF OwnOK, ShownIsQueued
  <1>5. ShownIsQueued(p)'
    BY <1>1, <1>2, <1>3 DEF OwnOK, ShownIsQueued
  <1>6. HolesAreNeutral(p)'
    BY <1>1, <1>2, <1>3 DEF OwnOK, HolesAreNeutral
  <1>7. OwnOK(p)'
    BY <1>1, <1>5, <1>6 DEF OwnOK, Active
  <1>8. ASSUME NEW f \in Nat, NEW b, Owed(p, f, b) PROVE Owed(p, f, b)'
    <2>1. CASE f < netFrame[p]
      <3>1. f < netFrame'[p]
        BY <1>2, <2>1
      <3> QED BY <1>1, <1>8, <2>1, <3>1 DEF Owed
    <2>2. CASE f = netFrame[p]
      <3>1. f < netFrame'[p] /\ shown[p][f] = None
        BY <1>1, <1>2, <1>4, <2>2
      <3> QED BY <1>1, <3>1 DEF Owed
    <2>3. CASE f > netFrame[p]
      <3>1. ~(f < netFrame[p]) /\ ~(f < netFrame'[p])
        BY <1>2, <2>3
      <3> QED BY <1>1, <1>8, <3>1 DEF Owed
    <2> QED BY <1>2, <2>1, <2>2, <2>3
  <1> QED BY <1>7, <1>8 DEF KeepsOwed

\* A restart: nothing has been shown, and all there is in the queue is neutral.
LEMMA PadsRestart ==
  ASSUME SameInv, NEW p \in Peer, NEW d \in Delays \cup {FirstDelay}, NEW e \in Nat,
         e > epoch[p], Restart(p, d, e), net' = net
  PROVE  PadsInv' /\ \A q \in Peer : OwnOK(q)' /\ (q # p => OwnKept(q))
  <1>1. /\ epoch \in [Peer -> Nat] /\ netFrame \in [Peer -> 0..MaxFrame]
        /\ lastCaptured \in [Peer -> Int] /\ local \in [Peer -> [Slot -> Entry]]
        /\ lastLocal \in [Peer -> Blob]
        /\ shown \in [Peer -> [0..MaxFrame -> Pads \cup {None}]]
    BY DEF SameInv, WInv, AInv, IInv, TypeOK
  <1>2. /\ epoch'[p] = e /\ netFrame'[p] = 0 /\ lastCaptured'[p] = -1
        /\ local'[p] = Seeded(d) /\ lastLocal'[p] = Neutral /\ shown'[p] = NothingShown
    BY <1>1 DEF Restart
  <1>3. \A q \in Peer \ {p} : OwnKept(q) /\ epoch'[q] = epoch[q]
    BY <1>1 DEF Restart, OwnKept
  <1>4. OwnOK(p)'
    <2>1. ShownIsQueued(p)'
      BY <1>2 DEF ShownIsQueued, NothingShown
    <2>2. \A f \in Nat : BlobAt(Seeded(d), f) = Neutral
      BY SeededQueue, SlotOfFrame DEF BlobAt
    <2>3. HolesAreNeutral(p)'
      <3> SUFFICES ASSUME NEW f \in 0..Frontier(p)'
                   PROVE  /\ lastLocal'[p] = Neutral
                          /\ \A g \in 0..f : BlobAt(local'[p], g) = Neutral
        BY <1>2 DEF HolesAreNeutral
      <3> QED BY <1>2, <2>2
    <2>4. Active(p)'
      <3>1. epoch[p] \in Nat /\ e > 0
        BY <1>1
      <3> QED BY <1>2, <3>1 DEF Active
    <2> QED BY <1>2, <2>1, <2>3, <2>4 DEF OwnOK
  <1>5. ASSUME NEW q \in Peer PROVE OwnOK(q)'
    <2>1. CASE q = p
      BY <1>4, <2>1
    <2>2. CASE q # p
      BY <1>3, <2>2, OwnStays DEF SameInv, WInv
    <2> QED BY <2>1, <2>2
  <1>6. ASSUME NEW m \in net, m.type = "input" PROVE PadsOK(m)'
    <2>1. /\ m.src \in Peer /\ m.upto < m.start + Redundancy /\ m.epoch \in Nat
          /\ m.epoch <= epoch[m.src] /\ IsInputMessage(m)
          /\ m.epoch = epoch[m.src] => \A f \in m.start..m.upto : Owed(m.src, f, m.blobs[f])
      BY <1>6, PacketFacts
    <2>2. CASE m.src = p
      <3>1. m.epoch < e /\ epoch[p] \in Nat
        BY <1>1, <2>1, <2>2
      <3> QED BY <1>2, <2>1, <2>2, <3>1 DEF PadsOK
    <2>3. CASE m.src # p
      <3>1. PICK s \in Peer \ {p} : s = m.src
        BY <2>1, <2>3
      <3>2. OwnKept(s) /\ epoch'[s] = epoch[s]
        BY <1>3
      <3>3. ASSUME NEW f, NEW b, Owed(s, f, b) PROVE Owed(s, f, b)'
        BY <3>2, <3>3 DEF Owed, OwnKept
      <3> QED BY <2>1, <3>1, <3>2, <3>3 DEF PadsOK
    <2> QED BY <2>2, <2>3
  <1>7. PadsInv'
    BY <1>6 DEF PadsInv
  <1> QED BY <1>3, <1>5, <1>7

\* A frame that waits is less than a ring behind the clock.
LEMMA WaitsNear ==
  ASSUME WInv, WindowFits, NEW q \in Peer, epoch[q] = 1, NEW f \in Nat, f \notin have[q]
  PROVE  remoteHigh[q] < f /\ netFrame[q] < f + Ring
  <1>1. /\ netFrame[q] <= remoteHigh[q] + Barrier + abandoned[q]
        /\ abandoned[q] <= MaxAbandon
        /\ netFrame[q] \in Int /\ remoteHigh[q] \in Int /\ abandoned[q] \in Int
        /\ Barrier \in Nat /\ MaxAbandon \in Nat /\ FirstDelay \in Nat
    BY WindowTypes, SizeAssumption, DelayAssumption DEF WInv, AInv, IInv, ClockBounded
  <1>2. Ring \in Nat /\ Ring > 0 /\ Redundancy \in Nat /\ Redundancy <= Ring
    BY SizeAssumption
  <1>3. remoteHigh[q] < f
    BY <1>1 DEF WInv, AllHeldOK, HeldOK, NothingLost
  <1>4. 2 * (Barrier + MaxAbandon - 1 + FirstDelay) <= Redundancy
    BY DEF WindowFits, Ahead
  <1> QED BY <1>1, <1>2, <1>3, <1>4

\* What a peer can have scheduled on the first timeline is less than a ring
\* beyond the clock of the other: each is at most Ahead beyond what it has.
LEMMA FrontierNear ==
  ASSUME SameInv, WindowFits, NEW p \in Peer, NEW q \in Peer, p # q,
         epoch[p] = 1, epoch[q] <= 1
  PROVE  Frontier(p) < netFrame[q] + Ring
  <1>1. /\ netFrame[p] <= remoteHigh[p] + Barrier + abandoned[p]
        /\ abandoned[p] <= MaxAbandon /\ remoteHigh[p] >= -1
        /\ remoteHigh[p] \in Int /\ abandoned[p] \in Int
        /\ Barrier \in Nat /\ MaxAbandon \in Nat
    BY WindowTypes, SizeAssumption DEF SameInv, WInv, AInv, IInv, ClockBounded
  <1>2. /\ lastCaptured[p] < netFrame[p] /\ lastCaptured[p] \in Int
        /\ netFrame[p] \in Nat /\ netFrame[q] \in Nat /\ epoch[q] \in Nat
        /\ FirstDelay - 1 <= Frontier(q) /\ Frontier(q) < netFrame[q] + FirstDelay
        /\ Frontier(q) \in Int /\ FirstDelay \in Nat
        /\ Ring \in Nat /\ Ring > 0 /\ Redundancy \in Nat /\ Redundancy <= Ring
        /\ Barrier >= 1
    BY PeerTypes, SizeAssumption DEF SameInv, WInv
  <1>3. Frontier(p) <= remoteHigh[p] + (Barrier + MaxAbandon - 1 + FirstDelay)
    BY <1>1, <1>2 DEF Frontier
  <1>4. remoteHigh[p] <= netFrame[q] + FirstDelay - 1
    <2>1. CASE remoteHigh[p] = -1
      BY <1>2, <2>1
    <2>2. CASE remoteHigh[p] >= 0
      <3>1. remoteHigh[p] \in have[p]
        BY <1>1, <2>2 DEF SameInv, WInv, AllHeldOK, HeldOK, NothingLost
      <3>2. remoteHigh[p] <= Reached(q, p)
        BY <3>1 DEF SameInv, RemoteOK, HaveOK
      <3> QED BY <1>1, <1>2, <3>2 DEF Reached
    <2> QED BY <1>1, <2>1, <2>2
  <1>5. 2 * (Barrier + MaxAbandon - 1 + FirstDelay) <= Redundancy
    BY DEF WindowFits, Ahead
  <1>6. Frontier(p) \in Int
    BY <1>2 DEF Frontier
  <1> QED BY <1>1, <1>2, <1>3, <1>4, <1>5, <1>6

\* The part of a peer's state that is about the other's pads.
RemoteKept(q) ==
  /\ have'[q] = have[q] /\ remote'[q] = remote[q] /\ remoteHigh'[q] = remoteHigh[q]
  /\ guess'[q] = guess[q] /\ netFrame'[q] = netFrame[q] /\ shown'[q] = shown[q]
  /\ Excused(q) \subseteq Excused(q)'

\* What is due stays so while the owner keeps what it owes.
LEMMA DueStays ==
  ASSUME NEW p, NEW q, KeepsOwed(p), epoch'[p] = epoch[p], epoch'[q] = epoch[q],
         NEW f \in Nat, f <= Reached(p, q), NEW b, Due(p, q, f, b)
  PROVE  Due(p, q, f, b)'
  <1>1. CASE epoch[p] = epoch[q]
    <2>1. Owed(p, f, b) /\ f <= Frontier(p)
      BY <1>1 DEF Due, Reached
    <2>2. Owed(p, f, b)'
      BY <2>1 DEF KeepsOwed
    <2> QED BY <1>1, <2>2 DEF Due
  <1>2. CASE epoch[p] # epoch[q]
    BY <1>2 DEF Due
  <1> QED BY <1>1, <1>2

\* A step of the owner, on its timeline.
LEMMA RemoteOwnerSteps ==
  ASSUME AInv, NEW p \in Peer, NEW q \in Peer, p # q, RemoteOK(p, q), epoch' = epoch,
         KeepsOwed(p), RemoteKept(q), NEW g \in Int, g = Frontier(p)', Frontier(p) <= g
  PROVE  RemoteOK(p, q)'
  <1> SUFFICES ASSUME epoch[q] = 1, epoch[p] <= 1 PROVE HaveOK(p, q)' /\ GuessOK(q)'
    BY DEF RemoteOK
  <1>1. HaveOK(p, q) /\ GuessOK(q)
    BY DEF RemoteOK
  <1>2. GuessOK(q)'
    BY <1>1 DEF RemoteKept, GuessOK, Waits
  <1>3. /\ have[q] \in SUBSET Nat /\ Frontier(p) \in Int /\ FirstDelay \in Nat
    BY PeerTypes
  <1>4. \A f \in have[q] : f \in Nat /\ f <= Reached(p, q)
    BY <1>1, <1>3 DEF HaveOK
  <1>5. PICK r : r = Reached(p, q)'
    OBVIOUS
  <1>6. \A f \in have[q] : f <= r
    BY <1>3, <1>4, <1>5 DEF Reached
  <1>7. ASSUME NEW f \in have[q], NEW b, Due(p, q, f, b) PROVE Due(p, q, f, b)'
    BY <1>4, <1>7, DueStays
  <1>8. /\ \A f \in have[q] : f >= netFrame[q] =>
             \E b : remote[q][Idx(f)] = [frame |-> f, blob |-> b] /\ Due(p, q, f, b)'
        /\ \A f \in have[q] : f < netFrame[q] /\ shown[q][f] # None /\ f \notin Excused(q) =>
             \E b : shown[q][f].other = b /\ Due(p, q, f, b)'
    BY <1>1, <1>7 DEF HaveOK
  <1>9. /\ \A f \in have[q] : f <= remoteHigh[q]
        /\ \A i \in Slot : remote[q][i].frame # -1 => remote[q][i].frame \in have[q]
    BY <1>1 DEF HaveOK
  <1>10. HaveOK(p, q)'
    BY <1>5, <1>6, <1>8, <1>9 DEF HaveOK, RemoteKept
  <1> QED BY <1>2, <1>10

\* The owner joins the timeline: what it owes below its delay is neutral.
LEMMA RemoteOwnerJoins ==
  ASSUME SameInv, NEW p \in Peer, NEW q \in Peer, p # q, NEW e \in Nat, e > epoch[p],
         Restart(p, FirstDelay, e), RemoteKept(q)
  PROVE  RemoteOK(p, q)'
  <1>1. /\ epoch \in [Peer -> Nat] /\ netFrame \in [Peer -> 0..MaxFrame]
        /\ lastCaptured \in [Peer -> Int] /\ local \in [Peer -> [Slot -> Entry]]
        /\ epoch[p] \in Nat /\ epoch[q] \in Nat
    BY DEF SameInv, WInv, AInv, IInv, TypeOK
  <1>2. /\ epoch'[p] = e /\ epoch'[q] = epoch[q] /\ netFrame'[p] = 0
        /\ lastCaptured'[p] = -1 /\ local'[p] = Seeded(FirstDelay)
    BY <1>1 DEF Restart
  <1> SUFFICES ASSUME epoch[q] = 1, e <= 1 PROVE HaveOK(p, q)' /\ GuessOK(q)'
    BY <1>2 DEF RemoteOK
  <1>3. e = 1 /\ epoch[p] = 0
    <2>1. PICK old \in Nat : old = epoch[p]
      BY <1>1
    <2>2. e > old
      BY <2>1
    <2>3. e = 1 /\ old = 0
      BY <2>1, <2>2
    <2> QED BY <2>1, <2>3
  <1>4. HaveOK(p, q) /\ GuessOK(q)
    BY <1>3 DEF SameInv, RemoteOK
  <1>5. GuessOK(q)'
    BY <1>4 DEF RemoteKept, GuessOK, Waits
  <1>6. have[q] \in SUBSET Nat /\ FirstDelay \in Nat
    BY PeerTypes DEF SameInv, WInv
  <1>7. PICK r : r = Reached(p, q)'
    OBVIOUS
  <1>8. r = FirstDelay - 1
    <2>1. Frontier(p)' = FirstDelay - 1
      BY <1>2, <1>6 DEF Frontier
    <2> QED BY <1>2, <1>3, <1>7, <2>1 DEF Reached
  <1>9. \A f \in have[q] : f \in Nat /\ f <= r /\ f <= remoteHigh[q]
    BY <1>3, <1>4, <1>6, <1>8 DEF HaveOK, Reached
  <1>10. \A f \in Nat : BlobAt(Seeded(FirstDelay), f) = Neutral
    BY SeededQueue, SlotOfFrame DEF BlobAt
  <1>11. ASSUME NEW f \in Nat, NEW b, Due(p, q, f, b) PROVE Due(p, q, f, b)'
    <2>1. b = Neutral
      BY <1>3, <1>11 DEF Due
    <2>2. Owed(p, f, b)'
      BY <1>2, <1>10, <2>1 DEF Owed
    <2> QED BY <1>2, <1>3, <2>2 DEF Due
  <1>12. /\ \A f \in have[q] : f >= netFrame[q] =>
              \E b : remote[q][Idx(f)] = [frame |-> f, blob |-> b] /\ Due(p, q, f, b)'
         /\ \A f \in have[q] : f < netFrame[q] /\ shown[q][f] # None /\ f \notin Excused(q) =>
              \E b : shown[q][f].other = b /\ Due(p, q, f, b)'
    BY <1>4, <1>9, <1>11 DEF HaveOK
  <1>13. \A i \in Slot : remote[q][i].frame # -1 => remote[q][i].frame \in have[q]
    BY <1>4 DEF HaveOK
  <1>14. HaveOK(p, q)'
    BY <1>7, <1>9, <1>12, <1>13 DEF HaveOK, RemoteKept
  <1> QED BY <1>5, <1>14

\* Below the delay the owner owes the neutral pad, whenever.
LEMMA SeedIsDue ==
  ASSUME SameInv, NEW p \in Peer, NEW f \in Nat, f < FirstDelay
  PROVE  Owed(p, f, Neutral)
  <1>1. /\ netFrame[p] \in Nat /\ netFrame[p] <= MaxFrame /\ MaxFrame \in Nat
        /\ local[p] \in [Slot -> Entry]
    <2>1. netFrame[p] \in 0..MaxFrame
      BY PeerTypes DEF SameInv, WInv
    <2> QED BY <2>1, PeerTypes DEF SameInv, WInv
  <1>2. OwnOK(p) /\ NeutralBelowDelay(local[p])
    BY DEF SameInv, WInv, AInv, LocalInv
  <1>3. f < netFrame[p] /\ shown[p][f] # None => shown[p][f].own = Neutral
    BY <1>1, <1>2 DEF OwnOK, ShownIsQueued
  <1>4. BlobAt(local[p], f) = Neutral
    <2>1. Idx(f) \in Slot
      BY SlotOfFrame
    <2>2. ASSUME Held(local[p], f) PROVE local[p][Idx(f)].blob = Neutral
      BY <1>2, <2>1, <2>2 DEF Held, NeutralBelowDelay
    <2> QED BY <2>2 DEF BlobAt
  <1> QED BY <1>3, <1>4 DEF Owed

\* The slots of a seeded queue.
LEMMA SeedHolds ==
  ASSUME NEW f \in Nat, f < FirstDelay
  PROVE  Idx(f) = f /\ f \in Slot /\ Seeded(FirstDelay)[Idx(f)] = [frame |-> f, blob |-> Neutral]
  <1>1. FirstDelay \in Nat /\ FirstDelay < Ring /\ Ring \in Nat
    BY SizeAssumption, DelayAssumption
  <1>2. Idx(f) = f /\ f \in Slot
    BY <1>1 DEF Idx, Slot
  <1> QED BY <1>2 DEF Seeded

LEMMA SeedFrames ==
  ASSUME NEW i \in Slot, Seeded(FirstDelay)[i].frame # -1
  PROVE  Seeded(FirstDelay)[i].frame \in 0..(FirstDelay - 1)
  <1>1. FirstDelay \in Nat /\ Ring \in Nat /\ i \in Nat
    BY SizeAssumption, DelayAssumption DEF Slot
  <1>2. Seeded(FirstDelay)[i].frame = IF i < FirstDelay THEN i ELSE -1
    BY DEF Seeded
  <1> QED BY <1>1, <1>2

\* A peer joins with the seed alone (on_peer_epoch, the discarding branch of
\* on_recv_input).
LEMMA RemoteAdopts ==
  ASSUME SameInv, NEW p \in Peer, NEW q \in Peer, p # q, NEW e \in Nat, e > epoch[q],
         Restart(q, FirstDelay, e), remote' = [remote EXCEPT ![q] = Seeded(FirstDelay)],
         remoteHigh' = [remoteHigh EXCEPT ![q] = FirstDelay - 1],
         guess' = [guess EXCEPT ![q] = NoGuesses],
         have' = [have EXCEPT ![q] = 0..(FirstDelay - 1)]
  PROVE  RemoteOK(p, q)'
  <1>1. /\ epoch \in [Peer -> Nat] /\ netFrame \in [Peer -> 0..MaxFrame]
        /\ remote \in [Peer -> [Slot -> Entry]] /\ remoteHigh \in [Peer -> Int]
        /\ guess \in [Peer -> [Slot -> Blob \cup {None}]] /\ have \in [Peer -> SUBSET Nat]
        /\ shown \in [Peer -> [0..MaxFrame -> Pads \cup {None}]]
        /\ lastCaptured \in [Peer -> Int]
        /\ local \in [Peer -> [Slot -> Entry]] /\ epoch[p] \in Nat /\ FirstDelay \in Nat
    BY DelayAssumption DEF SameInv, WInv, AInv, IInv, TypeOK
  <1>2. /\ epoch'[q] = e /\ epoch'[p] = epoch[p] /\ netFrame'[q] = 0
        /\ remote'[q] = Seeded(FirstDelay) /\ remoteHigh'[q] = FirstDelay - 1
        /\ guess'[q] = NoGuesses /\ have'[q] = 0..(FirstDelay - 1)
        /\ netFrame'[p] = netFrame[p] /\ lastCaptured'[p] = lastCaptured[p]
        /\ local'[p] = local[p] /\ shown'[p] = shown[p]
    BY <1>1 DEF Restart
  <1> SUFFICES ASSUME e = 1, epoch[p] <= 1 PROVE HaveOK(p, q)' /\ GuessOK(q)'
    BY <1>2 DEF RemoteOK
  <1>3. GuessOK(q)'
    BY <1>1, <1>2 DEF GuessOK, NoGuesses, Waits
  <1>4. FirstDelay - 1 <= Frontier(p) /\ Frontier(p) \in Int
    BY PeerTypes DEF SameInv, WInv
  <1>5. PICK r : r = Reached(p, q)'
    OBVIOUS
  <1>6. FirstDelay - 1 <= r /\ r \in Int
    <2>1. Frontier(p)' = Frontier(p)
      BY <1>2 DEF Frontier
    <2> QED BY <1>1, <1>4, <1>5, <2>1 DEF Reached
  <1>7. ASSUME NEW f \in 0..(FirstDelay - 1) PROVE Due(p, q, f, Neutral)'
    <2>1. Owed(p, f, Neutral)
      BY <1>1, SeedIsDue
    <2>2. Owed(p, f, Neutral)'
      BY <1>2, <2>1 DEF Owed
    <2> QED BY <2>2 DEF Due
  <1>8. \A f \in 0..(FirstDelay - 1) :
          Seeded(FirstDelay)[Idx(f)] = [frame |-> f, blob |-> Neutral]
    BY <1>1, SeedHolds
  <1>9. \A i \in Slot : Seeded(FirstDelay)[i].frame # -1 =>
          Seeded(FirstDelay)[i].frame \in 0..(FirstDelay - 1)
    BY SeedFrames
  <1>10. HaveOK(p, q)'
    <2>1. \A f \in have'[q] : f <= remoteHigh'[q] /\ f <= r
      BY <1>1, <1>2, <1>6
    <2>2. \A i \in Slot : remote'[q][i].frame # -1 => remote'[q][i].frame \in have'[q]
      BY <1>2, <1>9
    <2>3. \A f \in have'[q] :
            \E b : remote'[q][Idx(f)] = [frame |-> f, blob |-> b] /\ Due(p, q, f, b)'
      BY <1>2, <1>7, <1>8
    <2>4. \A f \in have'[q] : ~(f < netFrame'[q])
      BY <1>1, <1>2
    <2> QED BY <1>5, <2>1, <2>2, <2>3, <2>4 DEF HaveOK
  <1> QED BY <1>3, <1>10

\* What a peer has is still due after a step of its own on its timeline.
LEMMA DueKept ==
  ASSUME SameInv, NEW p \in Peer, NEW q \in Peer, RemoteOK(p, q), epoch[q] = 1, epoch[p] <= 1,
         OwnKept(p), epoch' = epoch
  PROVE  /\ \A f \in have[q] : f \in Nat /\ f <= Reached(p, q)
         /\ \A f \in have[q] : \A b : Due(p, q, f, b) => Due(p, q, f, b)'
  <1>1. have[q] \in SUBSET Nat
    BY PeerTypes DEF SameInv, WInv
  <1>2. \A f \in have[q] : f \in Nat /\ f <= Reached(p, q)
    BY <1>1 DEF RemoteOK, HaveOK
  <1>3. KeepsOwed(p)
    BY OwnStays DEF SameInv, WInv
  <1>4. ASSUME NEW f \in have[q], NEW b, Due(p, q, f, b) PROVE Due(p, q, f, b)'
    BY <1>2, <1>3, <1>4, DueStays
  <1> QED BY <1>2, <1>4

\* The clock runs on without input: the frame it passes is shown to nobody.
LEMMA RemoteRunWithoutInput ==
  ASSUME SameInv, NEW p \in Peer, NEW q \in Peer, p # q, RunWithoutInput(q)
  PROVE  RemoteOK(p, q)'
  <1>1. /\ netFrame' = [netFrame EXCEPT ![q] = netFrame[q] + 1]
        /\ UNCHANGED <<epoch, lastCaptured, local, lastLocal, shown, remoteHigh,
                       remote, guess, have, corrected, unmapped>>
    BY DEF RunWithoutInput, timelineVars
  <1>2. /\ netFrame[q] \in Nat /\ netFrame'[q] = netFrame[q] + 1 /\ netFrame[q] \in 0..MaxFrame
        /\ OwnKept(p) /\ have[q] \in SUBSET Nat
    <2>1. netFrame \in [Peer -> 0..MaxFrame]
      BY DEF SameInv, WInv, AInv, IInv, TypeOK
    <2>2. netFrame[q] \in Nat /\ have[q] \in SUBSET Nat
      BY PeerTypes DEF SameInv, WInv
    <2> QED BY <1>1, <2>1, <2>2 DEF OwnKept
  <1> SUFFICES ASSUME epoch[q] = 1, epoch[p] <= 1 PROVE HaveOK(p, q)' /\ GuessOK(q)'
    BY <1>1 DEF RemoteOK
  <1>3. RemoteOK(p, q) /\ HaveOK(p, q) /\ GuessOK(q)
    BY DEF SameInv, RemoteOK
  <1>4. \A f \in 0..MaxFrame : shown[q][f] # None => f < netFrame[q]
    BY DEF SameInv, OwnOK, ShownIsQueued
  <1>5. shown[q][netFrame[q]] = None
    BY <1>2, <1>4
  <1>6. /\ \A f \in have[q] : f \in Nat /\ f <= Reached(p, q)
        /\ \A f \in have[q] : \A b : Due(p, q, f, b) => Due(p, q, f, b)'
    BY <1>1, <1>2, <1>3, DueKept
  <1>7. GuessOK(q)'
    <2>1. ASSUME NEW f \in Nat
          PROVE  /\ f < netFrame[q] => f < netFrame'[q]
                 /\ f < netFrame'[q] => f < netFrame[q] \/ f = netFrame[q]
      BY <1>2
    <2> QED BY <1>1, <1>3, <1>5, <2>1 DEF GuessOK, Waits
  <1>8. HaveOK(p, q)'
    <2>1. PICK r : r = Reached(p, q)'
      OBVIOUS
    <2>2. r = Reached(p, q)
      BY <1>1, <2>1 DEF Reached, Frontier
    <2>3. \A f \in have[q] : f <= remoteHigh[q] /\ f <= r
      BY <1>3, <1>6, <2>2 DEF HaveOK
    <2>4. ASSUME NEW f \in have[q], f >= netFrame'[q]
          PROVE  \E b : remote[q][Idx(f)] = [frame |-> f, blob |-> b] /\ Due(p, q, f, b)'
      <3>1. f >= netFrame[q]
        BY <1>2, <1>6, <2>4
      <3> QED BY <1>3, <1>6, <3>1 DEF HaveOK
    <2>5. ASSUME NEW f \in have[q], f < netFrame'[q], shown[q][f] # None, f \notin Excused(q)
          PROVE  \E b : shown[q][f].other = b /\ Due(p, q, f, b)'
      <3>1. f < netFrame[q]
        BY <1>2, <1>5, <1>6, <2>5
      <3> QED BY <1>3, <1>6, <2>5, <3>1 DEF HaveOK
    <2>6. \A i \in Slot : remote[q][i].frame # -1 => remote[q][i].frame \in have[q]
      BY <1>3 DEF HaveOK
    <2>7. Excused(q)' = Excused(q)
      BY <1>1 DEF Excused
    <2> QED BY <1>1, <2>1, <2>3, <2>4, <2>5, <2>6, <2>7 DEF HaveOK
  <1> QED BY <1>7, <1>8

\* A frame with input: the pad of its slot if it has come, and a guess on
\* record if it has not.
LEMMA RemoteRunFrame ==
  ASSUME SameInv, WindowFits, NEW p \in Peer, NEW q \in Peer, p # q, NEW Q,
         Q \in [Slot -> Entry], Ran(q, Q), netFrame[q] < MaxFrame
  PROVE  RemoteOK(p, q)'
  <1>1. PICK N : N = netFrame[q]
    OBVIOUS
  <1>2. PICK other : other = OtherPad(q)
    OBVIOUS
  <1>3. AfterFrame(q, Q)
    BY RanFacts, Zenon DEF SameInv, WInv
  <1>4. /\ N \in Nat /\ N < MaxFrame /\ MaxFrame \in Nat /\ have[q] \in SUBSET Nat
        /\ Ring \in Nat /\ Ring > 0 /\ Idx(N) \in Slot /\ N \in 0..MaxFrame
        /\ guess[q] \in [Slot -> Blob \cup {None}]
    <2>1. /\ netFrame[q] \in Nat /\ MaxFrame \in Nat /\ have[q] \in SUBSET Nat
          /\ Ring \in Nat /\ Ring > 0 /\ netFrame[q] \in 0..MaxFrame
          /\ guess[q] \in [Slot -> Blob \cup {None}]
      BY PeerTypes DEF SameInv, WInv
    <2> QED BY <1>1, <2>1, SlotOfFrame
  <1>5. /\ netFrame'[q] = N + 1
        /\ \A f \in 0..MaxFrame : f # N => shown'[q][f] = shown[q][f]
        /\ shown'[q][N].other = other
        /\ \A i \in Slot : i # Idx(N) => guess'[q][i] = guess[q][i]
        /\ guess'[q][Idx(N)] = IF Held(remote[q], N) THEN None
             ELSE IF guess[q][Idx(N)] = None THEN other ELSE guess[q][Idx(N)]
    BY <1>1, <1>2, <1>3, <1>4 DEF AfterFrame
  <1>6. /\ epoch' = epoch /\ OwnKept(p) /\ remote' = remote /\ have' = have
        /\ remoteHigh' = remoteHigh /\ Excused(q) \subseteq Excused(q)'
    BY <1>3 DEF AfterFrame, Ran, OwnKept
  <1>7. lastCaptured'[p] = lastCaptured[p]
    BY <1>6 DEF OwnKept
  <1> SUFFICES ASSUME epoch[q] = 1, epoch[p] <= 1 PROVE HaveOK(p, q)' /\ GuessOK(q)'
    BY <1>6 DEF RemoteOK
  <1>8. RemoteOK(p, q) /\ HaveOK(p, q) /\ GuessOK(q)
    BY DEF SameInv, RemoteOK
  <1>9. /\ \A f \in have[q] : f \in Nat /\ f <= Reached(p, q)
        /\ \A f \in have[q] : \A b : Due(p, q, f, b) => Due(p, q, f, b)'
    BY <1>6, <1>8, DueKept
  <1>10. N \in have[q] <=> Held(remote[q], N)
    <2>1. ASSUME N \in have[q] PROVE remote[q][Idx(N)].frame = N
      <3>1. N >= netFrame[q]
        BY <1>1, <1>4
      <3>2. PICK b : remote[q][Idx(N)] = [frame |-> N, blob |-> b]
        BY <1>8, <2>1, <3>1 DEF HaveOK
      <3> QED BY <3>2
    <2>2. remote[q][Idx(N)].frame = N => N \in have[q]
      BY <1>4, <1>8 DEF HaveOK
    <2> QED BY <2>1, <2>2 DEF Held
  <1>11. ASSUME NEW f \in Nat, Waits(q, f) PROVE Idx(f) # Idx(N)
    <2>1. f < N /\ N < f + Ring
      BY <1>1, <1>11, WaitsNear DEF Waits, SameInv
    <2> QED BY <1>4, <2>1, SlotApart
  <1>12. guess[q][Idx(N)] = None
    BY <1>4, <1>8, <1>11 DEF GuessOK
  <1>13. GuessOK(q)'
    <2>1. ASSUME NEW i \in Slot, guess'[q][i] # None
          PROVE  \E f \in Nat : f < N + 1 /\ f \notin have[q] /\ Idx(f) = i
      <3>1. CASE i = Idx(N)
        <4>1. N \notin have[q] /\ N < N + 1
          BY <1>4, <1>5, <1>10, <2>1, <3>1
        <4> QED BY <1>4, <3>1, <4>1
      <3>2. CASE i # Idx(N)
        <4>1. PICK f \in Nat : f < N /\ f \notin have[q] /\ Idx(f) = i
          BY <1>1, <1>5, <1>8, <2>1, <3>2 DEF GuessOK, Waits
        <4>2. f < N + 1
          BY <1>4, <4>1
        <4> QED BY <4>1, <4>2
      <3> QED BY <3>1, <3>2
    <2>2. ASSUME NEW f \in Nat, f < N + 1, f \notin have[q], shown'[q][f] # None
          PROVE  guess'[q][Idx(f)] = shown'[q][f].other
      <3>1. CASE f = N
        BY <1>5, <1>10, <1>12, <2>2, <3>1
      <3>2. CASE f # N
        <4>1. f < N /\ f \in 0..MaxFrame /\ Idx(f) \in Slot
          BY <1>4, <2>2, <3>2, SlotOfFrame
        <4>2. Waits(q, f) /\ shown'[q][f] = shown[q][f]
          BY <1>1, <1>5, <2>2, <3>2, <4>1 DEF Waits
        <4>3. guess'[q][Idx(f)] = guess[q][Idx(f)]
          BY <1>5, <1>11, <4>1, <4>2
        <4> QED BY <1>8, <2>2, <4>2, <4>3 DEF GuessOK
      <3> QED BY <3>1, <3>2
    <2> QED BY <1>5, <1>6, <2>1, <2>2 DEF GuessOK, Waits
  <1>14. HaveOK(p, q)'
    <2>1. PICK r : r = Reached(p, q)'
      OBVIOUS
    <2>2. r = Reached(p, q)
      BY <1>6, <1>7, <2>1 DEF Reached, Frontier
    <2>3. \A f \in have[q] : f <= remoteHigh[q] /\ f <= r
      BY <1>8, <1>9, <2>2 DEF HaveOK
    <2>4. ASSUME NEW f \in have[q], f >= netFrame[q]
          PROVE  \E b : remote[q][Idx(f)] = [frame |-> f, blob |-> b] /\ Due(p, q, f, b)'
      BY <1>8, <1>9, <2>4 DEF HaveOK
    <2>5. ASSUME NEW f \in have[q], f >= N + 1
          PROVE  \E b : remote[q][Idx(f)] = [frame |-> f, blob |-> b] /\ Due(p, q, f, b)'
      <3>1. f >= netFrame[q]
        BY <1>1, <1>4, <1>9, <2>5
      <3> QED BY <2>4, <3>1
    <2>6. ASSUME NEW f \in have[q], f < N + 1, shown'[q][f] # None, f \notin Excused(q)
          PROVE  \E b : shown'[q][f].other = b /\ Due(p, q, f, b)'
      <3>1. CASE f = N
        <4>1. f >= netFrame[q]
          BY <1>1, <1>4, <3>1
        <4>2. PICK b : remote[q][Idx(N)] = [frame |-> N, blob |-> b] /\ Due(p, q, f, b)'
          BY <2>4, <3>1, <4>1
        <4>3. Held(remote[q], N) /\ remote[q][Idx(N)].blob = b
          BY <4>2 DEF Held
        <4>4. other = b
          BY <1>1, <1>2, <4>3 DEF OtherPad
        <4> QED BY <1>5, <3>1, <4>2, <4>4
      <3>2. CASE f # N
        <4>1. f < netFrame[q] /\ f \in 0..MaxFrame
          BY <1>1, <1>4, <1>9, <2>6, <3>2
        <4>2. shown'[q][f] = shown[q][f]
          BY <1>5, <3>2, <4>1
        <4> QED BY <1>8, <1>9, <2>6, <4>1, <4>2 DEF HaveOK
      <3> QED BY <3>1, <3>2
    <2>7. \A i \in Slot : remote[q][i].frame # -1 => remote[q][i].frame \in have[q]
      BY <1>8 DEF HaveOK
    <2> QED BY <1>5, <1>6, <2>1, <2>3, <2>5, <2>6, <2>7 DEF HaveOK
  <1> QED BY <1>13, <1>14

\* Frames less than a ring apart do not share a slot: each is stored.
LEMMA StoredApart ==
  ASSUME NEW R, NEW base, NEW F \in SUBSET Nat, NEW b, StoredOver(R, base, F, b),
         \A f, g \in F : f < g + Ring
  PROVE  \A f \in F : R[Idx(f)] = [frame |-> f, blob |-> b[f]]
  <1> SUFFICES ASSUME NEW f \in F PROVE R[Idx(f)] = [frame |-> f, blob |-> b[f]]
    OBVIOUS
  <1>1. PICK g \in F : Idx(g) = Idx(f) /\ R[Idx(f)] = [frame |-> g, blob |-> b[g]]
    BY SlotOfFrame DEF StoredOver
  <1>2. f < g + Ring /\ g < f + Ring /\ f \in Nat /\ g \in Nat /\ Ring \in Nat
    BY SizeAssumption
  <1>3. f = g
    BY <1>1, <1>2, SlotApart
  <1> QED BY <1>1, <1>3

\* What a packet of the timeline of q brings, and what is owed for it.
Brings(m, p, F) ==
  /\ \A f \in F : f \in Nat /\ m.start <= f /\ f <= m.upto /\ m.blobs[f] \in Blob
  /\ \A f, g \in F : f < g + Ring
  /\ m.upto <= Frontier(p) /\ \A f \in F : Owed(p, f, m.blobs[f])

LEMMA PacketBrings ==
  ASSUME SameInv, NEW m \in net, m.type = "input", m.epoch = epoch[m.src], NEW queue, NEW F,
         F = Missing(m, queue)
  PROVE  /\ Brings(m, m.src, F) /\ m.src \in Peer /\ m.start \in Nat /\ m.upto \in Nat
         /\ F \in SUBSET Nat
  <1>1. /\ m.src \in Peer /\ IsInputMessage(m) /\ m.upto < m.start + Redundancy
        /\ m.upto <= Frontier(m.src) /\ \A f \in m.start..m.upto : Owed(m.src, f, m.blobs[f])
    BY PacketFacts
  <1>2. /\ m.start \in Nat /\ m.upto \in Nat /\ DOMAIN m.blobs = m.start..m.upto
        /\ \A f \in m.start..m.upto : m.blobs[f] \in Blob
        /\ Redundancy \in Nat /\ Ring \in Nat /\ Redundancy <= Ring
    BY <1>1, SizeAssumption DEF IsInputMessage
  <1>3. \A f \in F : f \in m.start..m.upto
    BY <1>2 DEF Missing
  <1>4. \A f \in F : f \in Nat /\ m.start <= f /\ f <= m.upto
    BY <1>2, <1>3
  <1>5. ASSUME NEW f \in F, NEW g \in F PROVE f < g + Ring
    BY <1>1, <1>2, <1>4
  <1> QED BY <1>1, <1>2, <1>3, <1>4, <1>5 DEF Brings

\* The newest frame after storing is no older than any stored one.
LEMMA HighestCovers ==
  ASSUME SameInv, NEW m \in net, m.type = "input", NEW queue \in [Slot -> Entry],
         NEW high \in Int, NoneAbove(queue, high), high >= -1, NEW F, F = Missing(m, queue)
  PROVE  Highest(high, F) \in Int /\ Highest(high, F) >= high /\ \A f \in F : f <= Highest(high, F)
  <1>1. IsInputMessage(m)
    BY PacketFacts
  <1> QED BY <1>1, NewestStored

\* A packet of the timeline: its frames are stored, and those already run are
\* judged by the guess that waited in their slot.
LEMMA RemoteRecvSame ==
  ASSUME SameInv, NoneStale, WindowFits, NEW q \in Peer, NEW m \in net, m.type = "input",
         m.src # q, RecvSameEpoch(q, m)
  PROVE  RemoteOK(m.src, q)'
  <1>1. PICK p, F, b, N : p = m.src /\ F = Missing(m, remote[q]) /\ b = m.blobs /\ N = netFrame[q]
    OBVIOUS
  <1>2. PICK J, R, top : /\ J = Judged(F, N, guess[q])
                         /\ R = Filled(remote[q], F, b) /\ top = Highest(remoteHigh[q], F)
    OBVIOUS
  <1>3. /\ m.epoch = epoch[q] /\ epoch' = epoch /\ netFrame' = netFrame /\ shown' = shown
        /\ lastCaptured' = lastCaptured /\ local' = local /\ lastLocal' = lastLocal
        /\ remote' = [remote EXCEPT ![q] = R] /\ remoteHigh' = [remoteHigh EXCEPT ![q] = top]
        /\ guess' = [guess EXCEPT ![q] =
             [i \in Slot |-> IF \E f \in J : Idx(f) = i THEN None ELSE guess[q][i]]]
        /\ corrected' = [corrected EXCEPT ![q] = corrected[q] \cup
             {f \in J : guess[q][Idx(f)] # b[f] /\ f \notin unmapped[q]}]
        /\ unmapped' = unmapped
        /\ have' = [have EXCEPT ![q] = have[q] \cup F]
    BY <1>1, <1>2 DEF RecvSameEpoch, StoreInput, timelineVars
  <1>4. /\ remote'[q] = R /\ remoteHigh'[q] = top /\ have'[q] = have[q] \cup F
        /\ guess'[q] = [i \in Slot |-> IF \E f \in J : Idx(f) = i THEN None ELSE guess[q][i]]
        /\ Excused(q) \subseteq Excused(q)'
        /\ \A f \in J : guess[q][Idx(f)] # b[f] => f \in Excused(q)'
    <2>1. /\ remote \in [Peer -> [Slot -> Entry]] /\ remoteHigh \in [Peer -> Int]
          /\ guess \in [Peer -> [Slot -> Blob \cup {None}]] /\ have \in [Peer -> SUBSET Nat]
          /\ corrected \in [Peer -> SUBSET Nat]
      BY DEF SameInv, WInv, AInv, IInv, TypeOK
    <2>2. /\ Excused(q)' = corrected'[q] \cup unmapped[q]
          /\ corrected'[q] = corrected[q] \cup
               {f \in J : guess[q][Idx(f)] # b[f] /\ f \notin unmapped[q]}
      BY <1>3, <2>1 DEF Excused
    <2>3. /\ Excused(q) \subseteq Excused(q)'
          /\ \A f \in J : guess[q][Idx(f)] # b[f] => f \in Excused(q)'
      BY <2>2 DEF Excused
    <2> QED BY <1>3, <2>1, <2>3
  <1>5. /\ p \in Peer /\ p # q /\ m.epoch <= epoch[p] /\ m.epoch \in Nat
        /\ epoch[p] \in Nat /\ epoch[q] \in Nat
    <2>1. m.src \in Peer /\ m.epoch \in Nat /\ m.epoch <= epoch[m.src]
      BY PacketFacts
    <2> QED BY <1>1, <2>1, PeerTypes DEF SameInv, WInv
  <1> SUFFICES ASSUME epoch[q] = 1, epoch[p] <= 1 PROVE HaveOK(p, q)' /\ GuessOK(q)'
    <2>1. \A r : r = p => (HaveOK(p, q)' /\ GuessOK(q)' => HaveOK(r, q)' /\ GuessOK(q)')
      OBVIOUS
    <2> QED BY <1>1, <1>3 DEF RemoteOK
  <1>6. epoch[p] = 1
    BY <1>3, <1>5
  <1>7. RemoteOK(p, q) /\ HaveOK(p, q) /\ GuessOK(q)
    BY <1>5, <1>6 DEF SameInv, RemoteOK
  <1>8. /\ Brings(m, p, F) /\ m.start \in Nat /\ m.upto \in Nat /\ F \in SUBSET Nat
    BY <1>1, <1>3, <1>6, PacketBrings
  <1>9. /\ N \in Nat /\ remoteHigh[q] \in Int /\ remoteHigh[q] >= -1
        /\ remote[q] \in [Slot -> Entry] /\ have[q] \in SUBSET Nat
        /\ NoneAbove(remote[q], remoteHigh[q]) /\ Frontier(p) \in Int
        /\ Ring \in Nat /\ Ring > 0 /\ netFrame[q] \in 0..MaxFrame /\ MaxFrame \in Nat
    BY <1>1, <1>5, PeerTypes DEF SameInv, WInv, AInv, IInv, StoredBelowHigh, ClockBounded
  <1>10. top \in Int /\ top >= remoteHigh[q] /\ \A f \in F : f <= top
    BY <1>1, <1>2, <1>9, HighestCovers
  <1>11. StoredOver(R, remote[q], F, b) /\ R \in [Slot -> Entry]
    <2>1. \A f \in F : b[f] \in Blob
      BY <1>1, <1>8 DEF Brings
    <2> QED BY <1>2, <1>8, <1>9, <2>1, FilledSlots
  <1>12. \A f \in F : R[Idx(f)] = [frame |-> f, blob |-> b[f]]
    BY <1>8, <1>11, StoredApart DEF Brings
  <1>13. remoteHigh[q] < m.start + Ring /\ N <= m.start + Ring
    BY <1>1, <1>3, <1>5 DEF NoneStale
  <1>14. Frontier(p) < N + Ring
    BY <1>1, <1>5, <1>6, FrontierNear
  <1>15. OwnKept(p)
    BY <1>3 DEF OwnKept
  <1>16. /\ \A f \in have[q] : f \in Nat /\ f <= Reached(p, q)
         /\ \A f \in have[q] : \A c : Due(p, q, f, c) => Due(p, q, f, c)'
    BY <1>3, <1>5, <1>6, <1>7, <1>15, DueKept
  <1>17. \A f \in F : Due(p, q, f, b[f])'
    <2>1. ASSUME NEW f \in F, NEW c, c = b[f] PROVE Due(p, q, f, c)'
      <3>1. Owed(p, f, c)
        BY <1>1, <1>8, <2>1 DEF Brings
      <3>2. Owed(p, f, c)'
        BY <1>3, <3>1 DEF Owed
      <3> QED BY <1>3, <1>6, <3>2 DEF Due
    <2> QED BY <2>1
  <1>18. GuessOK(q)'
    <2>1. ASSUME NEW i \in Slot, guess'[q][i] # None
          PROVE  \E f \in Nat : f < N /\ f \notin have'[q] /\ Idx(f) = i
      <3>1. guess[q][i] # None /\ \A f \in J : Idx(f) # i
        BY <1>4, <2>1
      <3>2. PICK f \in Nat : f < N /\ f \notin have[q] /\ Idx(f) = i
        BY <1>1, <1>7, <3>1 DEF GuessOK, Waits
      <3>3. f \notin F
        BY <1>2, <3>1, <3>2 DEF Judged
      <3> QED BY <1>4, <3>2, <3>3
    <2>2. ASSUME NEW f \in Nat, f < N, f \notin have'[q], shown[q][f] # None
          PROVE  guess'[q][Idx(f)] = shown[q][f].other
      <3>1. Waits(q, f) /\ f \notin F /\ f \notin have[q]
        BY <1>1, <1>4, <2>2 DEF Waits
      <3>2. guess[q][Idx(f)] = shown[q][f].other
        BY <1>7, <2>2, <3>1 DEF GuessOK
      <3>3. ASSUME NEW g \in J, Idx(g) = Idx(f) PROVE FALSE
        <4>1. g \in F /\ g < N /\ g # f /\ g \in Nat /\ m.start <= g
          BY <1>2, <1>8, <3>1, <3>3 DEF Judged, Brings
        <4>2. N < f + Ring
          BY <1>1, <3>1, WaitsNear DEF SameInv
        <4>3. CASE g < f
          <5>1. g + Ring <= f
            BY <3>3, <4>1, <4>3, SlotApart
          <5> QED BY <1>8, <1>9, <1>13, <2>2, <4>1, <5>1
        <4>4. CASE g > f
          <5>1. f + Ring <= g
            BY <3>3, <4>1, <4>4, SlotApart
          <5> QED BY <1>9, <2>2, <4>1, <4>2, <5>1
        <4> QED BY <4>1, <4>3, <4>4
      <3> QED BY <1>4, <3>2, <3>3, SlotOfFrame
    <2> QED BY <1>1, <1>3, <2>1, <2>2 DEF GuessOK, Waits
  <1>19. HaveOK(p, q)'
    <2>1. PICK r : r = Reached(p, q)'
      OBVIOUS
    <2>2. r = Reached(p, q) /\ r = Frontier(p)
      BY <1>3, <1>6, <2>1 DEF Reached, Frontier
    <2>3. \A f \in have'[q] : f <= top /\ f <= r
      <3>1. ASSUME NEW f \in have[q] PROVE f <= top /\ f <= r
        <4>1. f <= remoteHigh[q] /\ f \in Nat
          BY <1>7, <1>16 DEF HaveOK
        <4> QED BY <1>9, <1>10, <1>16, <2>2, <4>1
      <3>2. ASSUME NEW f \in F PROVE f <= top /\ f <= r
        BY <1>8, <1>9, <1>10, <2>2 DEF Brings
      <3> QED BY <1>4, <3>1, <3>2
    <2>4. ASSUME NEW i \in Slot, R[i].frame # -1 PROVE R[i].frame \in have'[q]
      <3>1. CASE R[i] = remote[q][i]
        BY <1>4, <1>7, <2>4, <3>1 DEF HaveOK
      <3>2. ASSUME NEW f \in F, R[i].frame = f PROVE R[i].frame \in have'[q]
        BY <1>4, <3>2
      <3> QED BY <1>11, <3>1, <3>2, StoredFrame
    <2>5. ASSUME NEW f \in have'[q], f >= N
          PROVE  \E c : R[Idx(f)] = [frame |-> f, blob |-> c] /\ Due(p, q, f, c)'
      <3>1. CASE f \in F
        BY <1>12, <1>17, <3>1
      <3>2. CASE f \notin F
        <4>1. f \in have[q] /\ f \in Nat /\ f <= remoteHigh[q]
          BY <1>4, <1>7, <1>16, <2>5, <3>2 DEF HaveOK
        <4>2. PICK c : remote[q][Idx(f)] = [frame |-> f, blob |-> c] /\ Due(p, q, f, c)
          BY <1>1, <1>7, <2>5, <4>1 DEF HaveOK
        <4>3. ASSUME NEW g \in F, Idx(g) = Idx(f) PROVE FALSE
          <5>1. g # f /\ g \in Nat /\ m.start <= g /\ g <= Frontier(p)
            BY <1>8, <1>9, <3>2, <4>3 DEF Brings
          <5>2. CASE g < f
            <6>1. g + Ring <= f
              BY <4>1, <4>3, <5>1, <5>2, SlotApart
            <6> QED BY <1>8, <1>9, <1>13, <4>1, <5>1, <6>1
          <5>3. CASE g > f
            <6>1. f + Ring <= g
              BY <4>1, <4>3, <5>1, <5>3, SlotApart
            <6> QED BY <1>9, <1>14, <2>5, <4>1, <5>1, <6>1
          <5> QED BY <4>1, <5>1, <5>2, <5>3
        <4>4. R[Idx(f)] = remote[q][Idx(f)]
          BY <1>11, <4>1, <4>3, SlotOfFrame DEF StoredOver
        <4> QED BY <1>16, <4>1, <4>2, <4>4
      <3> QED BY <3>1, <3>2
    <2>6. ASSUME NEW f \in have'[q], f < N, shown[q][f] # None, f \notin Excused(q)'
          PROVE  \E c : shown[q][f].other = c /\ Due(p, q, f, c)'
      <3>1. CASE f \in have[q]
        <4>1. f \notin Excused(q)
          BY <1>4, <2>6
        <4> QED BY <1>1, <1>7, <1>16, <2>6, <3>1, <4>1 DEF HaveOK
      <3>2. CASE f \notin have[q]
        <4>1. f \in F /\ f \in Nat /\ Waits(q, f) /\ Idx(f) \in Slot
          BY <1>1, <1>4, <1>8, <2>6, <3>2, SlotOfFrame DEF Waits
        <4>2. guess[q][Idx(f)] = shown[q][f].other
          BY <1>7, <2>6, <4>1 DEF GuessOK
        <4>3. shown[q][f].other # None
          <5>1. f \in 0..MaxFrame /\ shown[q] \in [0..MaxFrame -> Pads \cup {None}]
            BY <1>1, <1>9, <2>6, <4>1, PeerTypes DEF SameInv, WInv
          <5>2. shown[q][f] \in Pads
            BY <2>6, <5>1
          <5> QED BY <5>2, BlobAssumption DEF Pads
        <4>4. f \in J
          BY <1>2, <2>6, <4>1, <4>2, <4>3 DEF Judged
        <4>5. guess[q][Idx(f)] = b[f]
          BY <1>4, <2>6, <4>4
        <4> QED BY <1>17, <4>1, <4>2, <4>5
      <3> QED BY <3>1, <3>2
    <2> QED BY <1>1, <1>3, <1>4, <2>1, <2>3, <2>4, <2>5, <2>6 DEF HaveOK
  <1> QED BY <1>18, <1>19

\* The first frames have the slots of their numbers.
LEMMA SmallSlot == ASSUME NEW f \in Nat, f < Ring PROVE Idx(f) = f
  <1>1. Ring \in Nat \ {0}
    BY SizeAssumption
  <1> QED BY <1>1 DEF Idx

\* A packet of the timeline its receiver joins by it: its frames are stored
\* over the seed.
LEMMA RemoteRecvNew ==
  ASSUME SameInv, FixedDelay, WindowFits, NEW q \in Peer, NEW m \in net, m.type = "input",
         m.src # q, RecvNewEpoch(q, m)
  PROVE  RemoteOK(m.src, q)'
  <1>1. PICK p, S, F, b : p = m.src /\ S = Seeded(FirstDelay) /\ F = Missing(m, S) /\ b = m.blobs
    OBVIOUS
  <1>2. PICK R, top : R = Filled(S, F, b) /\ top = Highest(FirstDelay - 1, F)
    OBVIOUS
  <1>3. delay[q] = FirstDelay
    BY OneDelay DEF SameInv, WInv, AInv, IInv, TypeOK
  <1>4. /\ m.want > epoch[q] /\ m.epoch = m.want /\ Restart(q, FirstDelay, m.want)
        /\ StoreInput(q, m, S, FirstDelay - 1, 0, NoGuesses, 0..(FirstDelay - 1), {}, {})
    BY <1>1, <1>3 DEF RecvNewEpoch
  <1>5. PICK J : J = Judged(F, 0, NoGuesses)
    OBVIOUS
  <1>6. /\ remote' = [remote EXCEPT ![q] = R] /\ remoteHigh' = [remoteHigh EXCEPT ![q] = top]
        /\ guess' = [guess EXCEPT ![q] =
             [i \in Slot |-> IF \E f \in J : Idx(f) = i THEN None ELSE NoGuesses[i]]]
        /\ have' = [have EXCEPT ![q] = (0..(FirstDelay - 1)) \cup F]
    BY <1>1, <1>2, <1>4, <1>5 DEF StoreInput
  <1>7. /\ epoch \in [Peer -> Nat] /\ netFrame \in [Peer -> 0..MaxFrame]
        /\ remote \in [Peer -> [Slot -> Entry]] /\ remoteHigh \in [Peer -> Int]
        /\ guess \in [Peer -> [Slot -> Blob \cup {None}]] /\ have \in [Peer -> SUBSET Nat]
        /\ shown \in [Peer -> [0..MaxFrame -> Pads \cup {None}]]
        /\ lastCaptured \in [Peer -> Int] /\ local \in [Peer -> [Slot -> Entry]]
        /\ FirstDelay \in Nat /\ Ring \in Nat /\ FirstDelay < Ring
    BY DelayAssumption, SizeAssumption DEF SameInv, WInv, AInv, IInv, TypeOK
  <1>8. /\ p \in Peer /\ p # q /\ m.epoch <= epoch[p] /\ m.epoch \in Nat
        /\ epoch[p] \in Nat /\ epoch[q] \in Nat
    <2>1. m.src \in Peer /\ m.epoch \in Nat /\ m.epoch <= epoch[m.src]
      BY PacketFacts
    <2> QED BY <1>1, <1>7, <2>1
  <1>9. /\ epoch'[q] = m.epoch /\ epoch'[p] = epoch[p] /\ netFrame'[q] = 0
        /\ remote'[q] = R /\ remoteHigh'[q] = top
        /\ guess'[q] = [i \in Slot |-> IF \E f \in J : Idx(f) = i THEN None ELSE NoGuesses[i]]
        /\ have'[q] = (0..(FirstDelay - 1)) \cup F
        /\ netFrame'[p] = netFrame[p] /\ lastCaptured'[p] = lastCaptured[p]
        /\ local'[p] = local[p] /\ shown'[p] = shown[p]
    BY <1>4, <1>6, <1>7, <1>8 DEF Restart
  <1> SUFFICES ASSUME m.epoch = 1, epoch[p] <= 1 PROVE HaveOK(p, q)' /\ GuessOK(q)'
    BY <1>1, <1>9 DEF RemoteOK
  <1>10. epoch[p] = 1 /\ epoch[q] = 0
    BY <1>4, <1>8
  <1>11. Brings(m, p, F) /\ m.start \in Nat /\ m.upto \in Nat /\ F \in SUBSET Nat
    BY <1>1, <1>10, PacketBrings
  <1>12. S \in [Slot -> Entry] /\ NoneAbove(S, FirstDelay - 1)
    BY <1>1, SeededQueue
  <1>13. top \in Int /\ top >= FirstDelay - 1 /\ \A f \in F : f <= top
    <2>1. PICK high \in Int : high = FirstDelay - 1 /\ high >= -1
      BY <1>7
    <2>2. NoneAbove(S, high) /\ top = Highest(high, F)
      BY <1>2, <1>12, <2>1
    <2>3. top \in Int /\ top >= high /\ \A f \in F : f <= top
      BY <1>1, <1>12, <2>1, <2>2, HighestCovers
    <2> QED BY <2>1, <2>3
  <1>14. StoredOver(R, S, F, b)
    <2>1. \A f \in F : b[f] \in Blob
      BY <1>1, <1>11 DEF Brings
    <2> QED BY <1>2, <1>11, <1>12, <2>1, FilledSlots
  <1>15. \A f \in F : R[Idx(f)] = [frame |-> f, blob |-> b[f]]
    BY <1>11, <1>14, StoredApart DEF Brings
  <1>16. /\ Frontier(p) \in Int /\ FirstDelay - 1 <= Frontier(p) /\ Frontier(p) < Ring
    <2>1. netFrame[q] = 0
      BY <1>10 DEF SameInv, OwnOK, Active
    <2>2. Frontier(p) \in Int /\ FirstDelay - 1 <= Frontier(p)
      BY <1>8, PeerTypes DEF SameInv, WInv
    <2>3. Frontier(p) < netFrame[q] + Ring
      BY <1>8, <1>10, FrontierNear
    <2> QED BY <1>7, <2>1, <2>2, <2>3
  <1>17. ASSUME NEW f, NEW c, Owed(p, f, c) PROVE Due(p, q, f, c)'
    <2>1. Owed(p, f, c)'
      BY <1>9, <1>17 DEF Owed
    <2> QED BY <1>9, <1>10, <2>1 DEF Due
  <1>18. \A f \in F : Due(p, q, f, b[f])'
    <2>1. ASSUME NEW f \in F, NEW c, c = b[f] PROVE Due(p, q, f, c)'
      <3>1. Owed(p, f, c)
        BY <1>1, <1>11, <2>1 DEF Brings
      <3> QED BY <1>17, <3>1
    <2> QED BY <2>1
  <1>19. GuessOK(q)'
    <2>1. \A i \in Slot : guess'[q][i] = None
      BY <1>9 DEF NoGuesses
    <2>2. \A f \in Nat : ~(f < netFrame'[q])
      BY <1>9
    <2> QED BY <2>1, <2>2 DEF GuessOK, Waits
  <1>20. HaveOK(p, q)'
    <2>1. PICK r : r = Reached(p, q)'
      OBVIOUS
    <2>2. r = Frontier(p)
      BY <1>9, <1>10, <2>1 DEF Reached, Frontier
    <2>3. \A f \in have'[q] : f <= top /\ f <= r
      <3>1. ASSUME NEW f \in 0..(FirstDelay - 1) PROVE f <= top /\ f <= r
        BY <1>7, <1>13, <1>16, <2>2
      <3>2. ASSUME NEW f \in F PROVE f <= top /\ f <= r
        BY <1>11, <1>13, <1>16, <2>2 DEF Brings
      <3> QED BY <1>9, <3>1, <3>2
    <2>4. ASSUME NEW i \in Slot, R[i].frame # -1 PROVE R[i].frame \in have'[q]
      <3>1. CASE R[i] = S[i]
        BY <1>1, <1>9, <2>4, <3>1, SeedFrames
      <3>2. ASSUME NEW f \in F, R[i].frame = f PROVE R[i].frame \in have'[q]
        BY <1>9, <3>2
      <3> QED BY <1>14, <3>1, <3>2, StoredFrame
    <2>5. ASSUME NEW f \in have'[q]
          PROVE  \E c : R[Idx(f)] = [frame |-> f, blob |-> c] /\ Due(p, q, f, c)'
      <3>1. CASE f \in F
        BY <1>15, <1>18, <3>1
      <3>2. CASE f \notin F
        <4>1. f \in Nat /\ f < FirstDelay
          BY <1>7, <1>9, <2>5, <3>2
        <4>2. /\ S[Idx(f)] = [frame |-> f, blob |-> Neutral] /\ Idx(f) \in Slot
          BY <1>1, <4>1, SeedHolds, SlotOfFrame
        <4>3. ASSUME NEW g \in F, Idx(g) = Idx(f) PROVE FALSE
          <5>1. g # f /\ g \in Nat /\ g < Ring
            BY <1>7, <1>11, <1>16, <3>2, <4>3 DEF Brings
          <5>2. f < Ring
            BY <1>7, <4>1
          <5>3. Idx(f) = f /\ Idx(g) = g
            BY <4>1, <5>1, <5>2, SmallSlot
          <5> QED BY <4>3, <5>1, <5>3
        <4>4. R[Idx(f)] = S[Idx(f)]
          BY <1>14, <4>2, <4>3 DEF StoredOver
        <4>5. Due(p, q, f, Neutral)'
          BY <1>8, <1>17, <4>1, SeedIsDue
        <4> QED BY <4>2, <4>4, <4>5
      <3> QED BY <3>1, <3>2
    <2>6. \A f \in have'[q] : ~(f < netFrame'[q])
      <3>1. ASSUME NEW f \in have'[q] PROVE f \in Nat
        <4>1. f \in 0..(FirstDelay - 1) \/ f \in F
          BY <1>9, <3>1
        <4>2. f \in 0..(FirstDelay - 1) => f \in Nat
          BY <1>7
        <4> QED BY <1>11, <4>1, <4>2
      <3> QED BY <1>9, <3>1
    <2> QED BY <1>9, <2>1, <2>3, <2>4, <2>5, <2>6 DEF HaveOK
  <1> QED BY <1>19, <1>20

\* The owner's step, when the part of the other that is about its pads stands.
LEMMA RemoteOwnerStays ==
  ASSUME SameInv, NEW p \in Peer, NEW q \in Peer, p # q, epoch' = epoch,
         OwnKept(p), RemoteKept(q)
  PROVE  RemoteOK(p, q)'
  <1>1. KeepsOwed(p) /\ RemoteOK(p, q) /\ AInv
    BY OwnStays DEF SameInv, WInv
  <1>2. PICK g \in Int : g = Frontier(p)' /\ Frontier(p) <= g
    <2>1. Frontier(p)' = Frontier(p)
      BY DEF OwnKept, Frontier
    <2>2. Frontier(p) \in Int
      BY <1>1, PeerTypes
    <2> QED BY <2>1, <2>2
  <1> QED BY <1>1, <1>2, RemoteOwnerSteps

\* Steps that only send.
LEMMA SameQuiet ==
  ASSUME SameInv, WInv', epoch' = epoch, \A q \in Peer : OwnKept(q) /\ RemoteKept(q),
         \A m \in net' : m.type = "input" => m \in net \/ PadsOK(m)'
  PROVE  SameInv'
  <1>1. PICK p \in Peer : TRUE
    BY PeerAssumption
  <1>2. OwnOK(p)' /\ KeepsOwed(p)
    BY OwnStays DEF SameInv, WInv
  <1>3. PadsInv' /\ \A q \in Peer : OwnOK(q)'
    BY <1>2, PadsStay
  <1>4. \A q, r \in Peer : q # r => RemoteOK(q, r)'
    BY RemoteOwnerStays
  <1> QED BY <1>3, <1>4 DEF SameInv

LEMMA AllKept ==
  ASSUME UNCHANGED <<queueVars, historyVars>>,
         \A q \in Peer : Excused(q) \subseteq Excused(q)'
  PROVE  \A q \in Peer : OwnKept(q) /\ RemoteKept(q)
  BY DEF queueVars, historyVars, OwnKept, RemoteKept

LEMMA ExcusedStay ==
  ASSUME UNCHANGED <<historyVars, unmapped>>
  PROVE  \A q \in Peer : Excused(q) \subseteq Excused(q)'
  BY DEF historyVars, Excused

\* A held tick says again what the last frame said.
LEMMA SamePumpStalled ==
  ASSUME SameInv, WInv', FixedDelay, NEW p \in Peer, PumpStalled(p)
  PROVE  SameInv'
  <1>1. /\ UNCHANGED <<timelineVars, queueVars, unmapped, historyVars>> /\ lastCaptured[p] >= 0
        /\ Transmit({InputPacket(p, lastCaptured[p] + delay[p], local[p])})
    BY DEF PumpStalled
  <1>2. AInv /\ OwnOK(p) /\ delay[p] = FirstDelay
    BY OneDelay DEF SameInv, WInv, AInv, IInv, TypeOK
  <1>3. PICK upto \in Nat : upto = Frontier(p) /\ upto = lastCaptured[p] + delay[p]
    <2>1. lastCaptured[p] \in Int /\ FirstDelay \in Nat
      BY <1>2, PeerTypes
    <2>2. lastCaptured[p] + FirstDelay \in Nat
      BY <1>1, <2>1
    <2> QED BY <1>2, <2>2 DEF Frontier
  <1>4. PICK queue, n : queue = local[p] /\ n = InputPacket(p, upto, queue)
    OBVIOUS
  <1>5. queue \in [Slot -> Entry] /\ netFrame[p] \in Nat /\ netFrame[p] <= MaxFrame /\ MaxFrame \in Nat
    <2>1. local[p] \in [Slot -> Entry] /\ netFrame[p] \in 0..MaxFrame /\ MaxFrame \in Nat
      BY <1>2, PeerTypes
    <2> QED BY <1>4, <2>1
  <1>6. PacketSays(n, p, upto, queue)
    BY <1>2, <1>4, <1>5, PacketPads
  <1>7. ASSUME NEW f \in n.start..n.upto PROVE Owed(p, f, n.blobs[f])'
    <2>1. PICK b : b = n.blobs[f]
      OBVIOUS
    <2>2. b = BlobAt(local[p], f) /\ f \in Nat /\ f > upto - Ring
      BY <1>4, <1>6, <2>1 DEF PacketSays
    <2>3. ASSUME f < netFrame[p], shown[p][f] # None PROVE b = shown[p][f].own
      <3>1. f \in 0..MaxFrame
        BY <1>5, <2>2, <2>3
      <3> QED BY <1>2, <1>3, <2>2, <2>3, <3>1 DEF OwnOK, ShownIsQueued
    <2>4. Owed(p, f, b)
      BY <2>2, <2>3 DEF Owed
    <2>5. Owed(p, f, b)'
      BY <1>1, <2>4 DEF Owed, queueVars, historyVars
    <2> QED BY <2>1, <2>5
  <1>8. PadsOK(n)'
    <2>1. n.src = p /\ n.upto < n.start + Redundancy
      BY <1>6 DEF PacketSays
    <2> QED BY <1>7, <2>1 DEF PadsOK
  <1>9. ASSUME NEW m \in net', m.type = "input" PROVE m \in net \/ PadsOK(m)'
    <2>1. m \in net \/ m = n
      BY <1>1, <1>3, <1>4, <1>9, OnlySentArrives
    <2> QED BY <1>8, <2>1
  <1>10. epoch' = epoch
    BY <1>1 DEF timelineVars
  <1> QED BY <1>1, <1>9, <1>10, AllKept, ExcusedStay, SameQuiet

\* A replay takes the entry of a frame in the map, and no more.
LEMMA SameReplayFrames ==
  ASSUME SameInv, WInv', NEW p \in Peer, ReplayFrames(p)
  PROVE  SameInv'
  <1>1. UNCHANGED <<timelineVars, queueVars, net, historyVars>> /\ TakeEntry(p)
    BY DEF ReplayFrames
  <1>2. epoch' = epoch /\ corrected' = corrected /\ net' = net
    BY <1>1 DEF timelineVars, historyVars
  <1>3. \A q \in Peer : Excused(q) \subseteq Excused(q)'
    BY <1>1, <1>2, ExcusedGrow DEF SameInv, WInv
  <1> QED BY <1>1, <1>2, <1>3, AllKept, SameQuiet

LEMMA SameRunFrame ==
  ASSUME SameInv, WInv', FixedDelay, WindowFits, GapFits, NEW p \in Peer, RunFrame(p)
  PROVE  SameInv'
  <1>1. AInv /\ OwnOK(p)
    BY DEF SameInv, WInv
  <1>2. Active(p) /\ netFrame[p] < MaxFrame
    BY <1>1, RunFrameRan
  <1>3. PICK raw \in Blob :
          Ran(p, Filled(local[p], CaptureFrames(p), [f \in CaptureFrames(p) |-> raw]))
    BY <1>1, RunFrameRan
  <1>4. PICK Q : Q = Filled(local[p], CaptureFrames(p), [f \in CaptureFrames(p) |-> raw])
    OBVIOUS
  <1>5. Ran(p, Q)
    BY <1>3, <1>4
  <1>6. Q \in [Slot -> Entry]
    BY <1>1, <1>4, CapturedQueue
  <1>7. OwnOK(p)' /\ KeepsOwed(p)
    BY <1>1, <1>2, <1>4, <1>5, OwnRunFrame, Zenon
  <1>8. AfterFrame(p, Q)
    BY <1>1, <1>2, <1>5, <1>6, RanFacts, Zenon
  <1>9. epoch' = epoch /\ \A q \in Peer \ {p} : OwnKept(q) /\ RemoteKept(q)
    BY <1>5, <1>8 DEF AfterFrame, Ran, OwnKept, RemoteKept
  <1>10. PICK n : n = InputPacket(p, netFrame[p] + FirstDelay, Q)
    OBVIOUS
  <1>11. PadsOK(n)'
    BY <1>1, <1>2, <1>4, <1>5, <1>10, SentPads, Zenon
  <1>12. ASSUME NEW m \in net', m.type = "input" PROVE m \in net \/ PadsOK(m)'
    <2>1. m \in net \/ m = n
      BY <1>5, <1>10, OnlySentArrives DEF Ran
    <2> QED BY <1>11, <2>1
  <1>13. PadsInv' /\ \A q \in Peer : OwnOK(q)'
    BY <1>7, <1>9, <1>12, PadsStay
  <1>14. PICK g \in Int : g = Frontier(p)' /\ Frontier(p) <= g
    <2>1. Frontier(p)' = netFrame[p] + FirstDelay
      BY <1>8 DEF AfterFrame, Frontier
    <2>2. /\ netFrame[p] + FirstDelay \in Int /\ Frontier(p) <= netFrame[p] + FirstDelay
      BY <1>1, PeerTypes
    <2> QED BY <2>1, <2>2
  <1>15. ASSUME NEW q \in Peer, NEW r \in Peer, q # r PROVE RemoteOK(q, r)'
    <2>1. CASE r = p
      BY <1>2, <1>5, <1>6, <1>15, <2>1, RemoteRunFrame, Zenon
    <2>2. CASE r # p
      <3>1. q = p
        BY <1>15, <2>2, PeerAssumption
      <3>2. RemoteOK(p, r) /\ RemoteKept(r)
        BY <1>9, <2>2 DEF SameInv
      <3> QED BY <1>1, <1>7, <1>9, <1>14, <2>2, <3>1, <3>2, RemoteOwnerSteps, Zenon
    <2> QED BY <2>1, <2>2
  <1> QED BY <1>13, <1>15 DEF SameInv

LEMMA SameRunWithoutInput ==
  ASSUME SameInv, WInv', NEW p \in Peer, RunWithoutInput(p)
  PROVE  SameInv'
  <1>1. /\ UNCHANGED <<epoch, lastCaptured, local, lastLocal, shown, remoteHigh, net,
                       remote, guess, have, corrected, unmapped>>
        /\ netFrame' = [netFrame EXCEPT ![p] = netFrame[p] + 1]
    BY DEF RunWithoutInput, timelineVars
  <1>2. AInv /\ OwnOK(p)' /\ KeepsOwed(p)
    BY OwnRunWithoutInput DEF SameInv, WInv
  <1>3. \A q \in Peer \ {p} : OwnKept(q) /\ RemoteKept(q)
    <2>1. netFrame \in [Peer -> 0..MaxFrame]
      BY <1>2 DEF AInv, IInv, TypeOK
    <2> QED BY <1>1, <2>1 DEF OwnKept, RemoteKept, Excused
  <1>4. PadsInv' /\ \A q \in Peer : OwnOK(q)'
    BY <1>1, <1>2, <1>3, PadsStay
  <1>5. PICK g \in Int : g = Frontier(p)' /\ Frontier(p) <= g
    <2>1. Frontier(p)' = Frontier(p) /\ Frontier(p) \in Int
      BY <1>1, <1>2, PeerTypes DEF Frontier
    <2> QED BY <2>1
  <1>6. ASSUME NEW q \in Peer, NEW r \in Peer, q # r PROVE RemoteOK(q, r)'
    <2>1. CASE r = p
      BY <1>6, <2>1, RemoteRunWithoutInput
    <2>2. CASE r # p
      <3>1. q = p
        BY <1>6, <2>2, PeerAssumption
      <3>2. RemoteOK(p, r) /\ RemoteKept(r)
        BY <1>3, <2>2 DEF SameInv
      <3> QED BY <1>1, <1>2, <1>5, <2>2, <3>1, <3>2, RemoteOwnerSteps, Zenon
    <2> QED BY <2>1, <2>2
  <1> QED BY <1>4, <1>6 DEF SameInv

LEMMA SameRecvSame ==
  ASSUME SameInv, WInv', NoneStale, WindowFits, NEW p \in Peer, NEW m \in net,
         m.type = "input", m.src # p, RecvSameEpoch(p, m)
  PROVE  SameInv'
  <1>1. /\ UNCHANGED <<epoch, netFrame, lastCaptured, local, lastLocal, net, shown, unmapped>>
        /\ \A q \in Peer \ {p} : /\ remote'[q] = remote[q] /\ remoteHigh'[q] = remoteHigh[q]
                                 /\ guess'[q] = guess[q] /\ corrected'[q] = corrected[q]
                                 /\ have'[q] = have[q]
    BY DEF RecvSameEpoch, StoreInput, timelineVars, SameInv, WInv, AInv, IInv, TypeOK
  <1>2. /\ \A q \in Peer : OwnKept(q)
        /\ \A q \in Peer \ {p} : RemoteKept(q)
    BY <1>1 DEF OwnKept, RemoteKept, Excused
  <1>3. OwnOK(p)' /\ KeepsOwed(p)
    BY <1>1, <1>2, OwnStays DEF SameInv, WInv
  <1>4. PadsInv' /\ \A q \in Peer : OwnOK(q)'
    BY <1>1, <1>2, <1>3, PadsStay
  <1>5. m.src \in Peer /\ RemoteOK(m.src, p)'
    BY PacketFacts, RemoteRecvSame
  <1>6. ASSUME NEW q \in Peer, NEW r \in Peer, q # r PROVE RemoteOK(q, r)'
    <2>1. CASE r = p
      <3>1. q = m.src
        BY <1>5, <1>6, <2>1, PeerAssumption
      <3> QED BY <1>5, <2>1, <3>1
    <2>2. CASE r # p
      BY <1>1, <1>2, <1>6, <2>2, RemoteOwnerStays
    <2> QED BY <2>1, <2>2
  <1> QED BY <1>4, <1>6 DEF SameInv

\* A peer joins a timeline, whatever it then has of the other.
LEMMA SameJoins ==
  ASSUME SameInv, WInv', NEW p \in Peer, NEW e \in Nat, e > epoch[p],
         Restart(p, FirstDelay, e), net' = net, \A q \in Peer \ {p} : RemoteKept(q),
         \A q \in Peer \ {p} : RemoteOK(q, p)'
  PROVE  SameInv'
  <1>1. PadsInv' /\ \A q \in Peer : OwnOK(q)'
    BY PadsRestart
  <1>2. ASSUME NEW q \in Peer, NEW r \in Peer, q # r PROVE RemoteOK(q, r)'
    <2>1. CASE r = p
      BY <1>2, <2>1
    <2>2. CASE r # p
      <3>1. q = p
        BY <1>2, <2>2, PeerAssumption
      <3> QED BY <2>2, <3>1, RemoteOwnerJoins
    <2> QED BY <2>1, <2>2
  <1> QED BY <1>1, <1>2 DEF SameInv

LEMMA OthersRemote ==
  ASSUME AInv, NEW p \in Peer, NEW d, NEW e, Restart(p, d, e), NEW R, NEW high, NEW G, NEW H, NEW C,
         remote' = [remote EXCEPT ![p] = R], remoteHigh' = [remoteHigh EXCEPT ![p] = high],
         guess' = [guess EXCEPT ![p] = G], have' = [have EXCEPT ![p] = H],
         corrected' = [corrected EXCEPT ![p] = C]
  PROVE  \A q \in Peer \ {p} : RemoteKept(q)
  BY DEF Restart, RemoteKept, Excused, AInv, IInv, TypeOK

LEMMA SameAdopt ==
  ASSUME SameInv, WInv', FixedDelay, NEW p \in Peer, NEW d \in Delays \cup {FirstDelay},
         NEW e \in Nat, e > epoch[p], Restart(p, d, e), net' = net,
         remote' = [remote EXCEPT ![p] = Seeded(d)],
         remoteHigh' = [remoteHigh EXCEPT ![p] = d - 1],
         guess' = [guess EXCEPT ![p] = NoGuesses],
         have' = [have EXCEPT ![p] = 0..(d - 1)],
         corrected' = [corrected EXCEPT ![p] = {}]
  PROVE  SameInv'
  <1>1. d = FirstDelay
    BY OneDelay
  <1>2. \A q \in Peer \ {p} : RemoteKept(q)
    BY OthersRemote DEF SameInv, WInv
  <1>3. \A q \in Peer \ {p} : RemoteOK(q, p)'
    BY <1>1, RemoteAdopts
  <1> QED BY <1>1, <1>2, <1>3, SameJoins

LEMMA SameRecvNew ==
  ASSUME SameInv, WInv', FixedDelay, WindowFits, NEW p \in Peer, NEW m \in net,
         m.type = "input", m.src # p, RecvNewEpoch(p, m)
  PROVE  SameInv'
  <1>1. AInv /\ delay[p] = FirstDelay /\ m.src \in Peer /\ m.want \in Nat
    BY OneDelay, PacketFacts DEF SameInv, WInv, AInv, IInv, TypeOK, IsInputMessage
  <1>2. m.want > epoch[p] /\ Restart(p, FirstDelay, m.want) /\ net' = net
    BY <1>1 DEF RecvNewEpoch
  <1>3. \A q \in Peer \ {p} : RemoteKept(q)
    BY <1>1, <1>2 DEF RecvNewEpoch, StoreInput, Restart, RemoteKept, Excused,
                       AInv, IInv, TypeOK
  <1>4. \A q \in Peer \ {p} : RemoteOK(q, p)'
    <2>1. RemoteOK(m.src, p)'
      BY RemoteRecvNew
    <2>2. \A q \in Peer \ {p} : q = m.src
      BY <1>1, PeerAssumption
    <2> QED BY <2>1, <2>2
  <1> QED BY <1>1, <1>2, <1>3, <1>4, SameJoins

LEMMA SameOnPeerEpoch ==
  ASSUME SameInv, WInv', FixedDelay, NEW p \in Peer, NEW m \in net,
         m.type = "epoch", OnPeerEpoch(p, m)
  PROVE  SameInv'
  <1>1. m.epoch \in Nat /\ m.delay \in Delays \cup {FirstDelay}
    BY MessageKinds DEF SameInv, WInv, AInv, IInv, EpochMessage
  <1>2. CASE /\ m.epoch > epoch[p] /\ Restart(p, m.delay, m.epoch)
             /\ remote' = [remote EXCEPT ![p] = Seeded(m.delay)]
             /\ remoteHigh' = [remoteHigh EXCEPT ![p] = m.delay - 1]
             /\ guess' = [guess EXCEPT ![p] = NoGuesses]
             /\ have' = [have EXCEPT ![p] = 0..(m.delay - 1)]
             /\ corrected' = [corrected EXCEPT ![p] = {}]
             /\ UNCHANGED <<peerAcked, net>>
    BY <1>1, <1>2, SameAdopt
  <1>3. CASE /\ Transmit({EpochPacket(p, want[p], delay[p])})
             /\ UNCHANGED <<timelineVars, queueVars, unmapped, historyVars>>
    <2>1. \A n \in net' : n.type = "input" => n \in net
      BY <1>3, OnlySentArrives DEF EpochPacket
    <2>2. epoch' = epoch
      BY <1>3 DEF timelineVars
    <2> QED BY <1>3, <2>1, <2>2, AllKept, ExcusedStay, SameQuiet
  <1> QED BY <1>2, <1>3 DEF OnPeerEpoch

LEMMA SameInit == Init => SameInv
  <1> SUFFICES ASSUME Init PROVE SameInv
    OBVIOUS
  <1>1. WInv
    BY WindowInit
  <1>2. PadsInv
    BY DEF Init, PadsInv
  <1>3. /\ \A p \in Peer : shown[p] = NothingShown /\ lastLocal[p] = Neutral
        /\ \A p \in Peer : netFrame[p] = 0 /\ epoch[p] = 0 /\ local[p] = Seeded(0)
    BY DEF Init
  <1>4. \A f \in Nat : BlobAt(Seeded(0), f) = Neutral
    <2>1. ASSUME NEW i \in Slot PROVE Seeded(0)[i].blob = Neutral
      BY DEF Seeded
    <2> QED BY <2>1, SlotOfFrame DEF BlobAt
  <1>5. ASSUME NEW p \in Peer PROVE OwnOK(p)
    <2>1. ShownIsQueued(p)
      BY <1>3 DEF ShownIsQueued, NothingShown
    <2>2. HolesAreNeutral(p)
      <3> SUFFICES ASSUME NEW f \in 0..Frontier(p)
                   PROVE  lastLocal[p] = Neutral /\ \A g \in 0..f : BlobAt(local[p], g) = Neutral
        BY <1>3 DEF HolesAreNeutral
      <3> QED BY <1>3, <1>4
    <2> QED BY <1>3, <2>1, <2>2 DEF OwnOK
  <1>6. \A p, q \in Peer : RemoteOK(p, q)
    BY <1>3 DEF RemoteOK
  <1> QED BY <1>1, <1>2, <1>5, <1>6 DEF SameInv

LEMMA SameNext ==
  ASSUME FixedDelay, WindowFits, GapFits, SameInv, NoneStale, [Next]_vars
  PROVE  SameInv'
  <1>1. WInv'
    BY WindowNext DEF SameInv
  <1>2. ASSUME NEW p \in Peer, ProposeEpoch(p) PROVE SameInv'
    <2>1. PICK d \in Delays :
            /\ Transmit({EpochPacket(p, want'[p], d)}) \/ UNCHANGED net
            /\ UNCHANGED <<epoch, queueVars, unmapped, historyVars>>
      BY <1>2 DEF ProposeEpoch
    <2>2. \A n \in net' : n.type = "input" => n \in net
      BY <2>1, OnlySentArrives DEF EpochPacket
    <2> QED BY <1>1, <2>1, <2>2, AllKept, ExcusedStay, SameQuiet
  <1>3. ASSUME NEW p \in Peer, NEW m \in net, m.type = "input", m.src # p,
               RecvProposal(p, m)
        PROVE  SameInv'
    <2>1. delay[p] \in Delays \cup {FirstDelay} /\ m.want \in Nat
      BY <1>3, MessageFields DEF SameInv, WInv, AInv, IInv, TypeOK
    <2> QED BY <1>1, <1>3, <2>1, SameAdopt DEF RecvProposal
  <1>4. ASSUME NEW p \in Peer, Receive(p) PROVE SameInv'
    BY <1>1, <1>3, <1>4, SameOnPeerEpoch, SameRecvSame, SameRecvNew
       DEF Receive, OnRecvInput
  <1>5. ASSUME NEW p \in Peer, PumpStalled(p) PROVE SameInv'
    BY <1>1, <1>5, SamePumpStalled
  <1>6. ASSUME NEW p \in Peer, RunFrame(p) PROVE SameInv'
    BY <1>1, <1>6, SameRunFrame
  <1>7. ASSUME NEW p \in Peer, RunWithoutInput(p) PROVE SameInv'
    BY <1>1, <1>7, SameRunWithoutInput
  <1>8. ASSUME NEW p \in Peer, ReplayFrames(p) PROVE SameInv'
    BY <1>1, <1>8, SameReplayFrames
  <1>9. CASE UNCHANGED vars
    <2>1. UNCHANGED <<epoch, net, queueVars, unmapped, historyVars>>
      BY <1>9 DEF vars, timelineVars
    <2> QED BY <1>1, <2>1, AllKept, ExcusedStay, SameQuiet
  <1> QED BY <1>2, <1>4, <1>5, <1>6, <1>7, <1>8, <1>9 DEF Next

\* On the first timeline a frame both games ran, whose pad a peer has by now,
\* ran with the pad the other's own game was given, or fired its rollback
\* trigger (on_frame_begin, on_recv_input, g_was_pred), unless another frame
\* had its entry in g_net_for_engine when the pad came.  However late a packet
\* is, as long as it is not older than the ring: a stale one can overwrite the
\* slot of a newer frame, and its guess.
THEOREM FirstTimelineSameGame ==
  ASSUME FixedDelay, WindowFits, GapFits
  PROVE  Spec /\ []NoneStale => []((\A p \in Peer : epoch[p] <= 1) => SameGameOrCorrected)
  <1>1. SameInv => ((\A p \in Peer : epoch[p] <= 1) => SameGameOrCorrected)
    <2> SUFFICES ASSUME SameInv, \A p \in Peer : epoch[p] <= 1, NEW p \in Peer, NEW q \in Peer,
                        p # q, epoch[p] = epoch[q], NEW f \in 0..MaxFrame,
                        shown[p][f] # None, shown[q][f] # None, f \in have[q],
                        f \notin corrected[q], f \notin unmapped[q]
                 PROVE  shown[q][f].other = shown[p][f].own
      BY DEF SameGameOrCorrected
    <2>1. f < netFrame[p] /\ f < netFrame[q]
      BY DEF SameInv, OwnOK, ShownIsQueued
    <2>2. epoch[q] = 1 /\ epoch[p] = 1
      <3>1. netFrame[q] \in Nat /\ epoch[q] \in Nat
        BY PeerTypes DEF SameInv, WInv
      <3>2. Active(q)
        BY <2>1, <3>1 DEF SameInv, OwnOK
      <3> QED BY <3>1, <3>2 DEF Active
    <2>3. HaveOK(p, q)
      BY <2>2 DEF SameInv, RemoteOK
    <2>4. PICK b : shown[q][f].other = b /\ Due(p, q, f, b)
      BY <2>1, <2>3 DEF HaveOK, Excused
    <2> QED BY <2>1, <2>2, <2>4 DEF Due, Owed
  <1>2. SameInv /\ NoneStale /\ [Next]_vars => SameInv'
    BY SameNext
  <1> QED BY <1>1, <1>2, SameInit, PTL DEF Spec
============================================================================
