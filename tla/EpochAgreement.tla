--------------------------- MODULE EpochAgreement ---------------------------
(***************************************************************************)
(* What the lockstep timeline promises (net_input.cpp, propose_epoch and   *)
(* activate_epoch), without packets, delays or queues.  A peer proposes a  *)
(* timeline by wanting one above every timeline it knows; it moves only to *)
(* a timeline the other peer wants, and only forward.  Neither peer is an  *)
(* authority, and a local event alone never restarts the clock.            *)
(***************************************************************************)
EXTENDS Naturals

CONSTANT Peer

VARIABLES epoch,    \* the timeline a peer runs on; 0 before the first
          want      \* the newest timeline a peer knows of

Init ==
    /\ epoch = [p \in Peer |-> 0]
    /\ want = [p \in Peer |-> 0]

Propose(p) ==
    /\ want' = [want EXCEPT ![p] = @ + 1]
    /\ UNCHANGED epoch

Adopt(p) ==
    \E q \in Peer \ {p} : \E e \in (epoch[p] + 1)..want[q] :
        /\ epoch' = [epoch EXCEPT ![p] = e]
        /\ want' = [want EXCEPT ![p] = IF @ >= e THEN @ ELSE e]

Next == \E p \in Peer : Propose(p) \/ Adopt(p)

Spec == Init /\ [][Next]_<<epoch, want>>
=============================================================================
