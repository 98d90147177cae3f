-------------------------- MODULE DeferredFoldProof --------------------------
(***************************************************************************)
(* Proofs about DeferredFold, for any number of pages, ring slots and jobs: *)
(* the types, that every page buffer has one owner, and that deferring the  *)
(* copies implements BaselineFold.                                          *)
(***************************************************************************)
EXTENDS DeferredFold, FiniteSetTheorems, SequenceTheorems, TLAPS

----------------------------------------------------------------------------
(* Least and greatest of a set of naturals; how many values a function has. *)

LEMMA LeastNatural ==
  ASSUME NEW S \in SUBSET Nat, S # {}
  PROVE  \E n \in S : \A m \in S : n <= m
<1> DEFINE T == {1..n : n \in S}
<1>1. IsWellFoundedOn(StrictSubsetOrdering(Nat), FiniteSubsetsOf(Nat))
  BY FS_StrictSubsetOrderingWellFounded
<1>2. T \subseteq FiniteSubsetsOf(Nat) /\ T # {}
  <2>1. \A n \in S : n \in Int /\ 1..n \in SUBSET Nat
    OBVIOUS
  <2>2. \A n \in S : IsFiniteSet(1..n)
    BY <2>1, FS_Interval
  <2> QED BY <2>1, <2>2 DEF FiniteSubsetsOf
<1>3. PICK t \in T : \A u \in T : ~(<<u, t>> \in StrictSubsetOrdering(Nat))
  <2> HIDE DEF T
  <2> QED BY <1>1, <1>2, WFMin
<1>4. PICK n \in S : t = 1..n
  BY <1>3
<1>5. ASSUME NEW m \in S, m < n PROVE FALSE
  <2>1. 1..m \in T /\ 1..m \in SUBSET Nat /\ 1..n \in SUBSET Nat
    OBVIOUS
  <2>2. 1..m \subseteq 1..n /\ n \in 1..n /\ n \notin 1..m
    BY <1>5
  <2>3. <<1..m, 1..n>> \in StrictSubsetOrdering(Nat)
    BY <2>1, <2>2 DEF StrictSubsetOrdering
  <2> QED BY <1>3, <1>4, <2>1, <2>3
<1> QED BY <1>5

LEMMA MinExists ==
  ASSUME NEW S \in SUBSET Nat, S # {}
  PROVE  Min(S) \in S
<1>1. PICK n \in S : \A m \in S : n <= m
  BY LeastNatural
<1> QED BY <1>1 DEF Min

LEMMA MaxIs ==
  ASSUME NEW S \in SUBSET Int, NEW m \in S, \A x \in S : x <= m
  PROVE  Max(S) = m
<1>1. \A x \in S : (\A y \in S : x >= y) <=> x = m
  OBVIOUS
<1> QED BY <1>1, Zenon DEF Max

LEMMA MaxExists ==
  ASSUME NEW n \in Nat, NEW S \in SUBSET (1..n), S # {}
  PROVE  Max(S) \in S /\ \A x \in S : x <= Max(S)
<1> DEFINE T == {n - x : x \in S}
<1>1. \A x \in S : x \in Int /\ n - x \in Nat /\ n - x \in T
  OBVIOUS
<1>2. PICK t \in T : \A m \in T : t <= m
  BY <1>1, LeastNatural
<1>3. PICK y \in S : t = n - y
  BY <1>2
<1>4. \A x \in S : n - y <= n - x
  <2> HIDE DEF T
  <2> QED BY <1>1, <1>2, <1>3
<1> QED BY <1>1, <1>4, MaxIs

LEMMA ImageBound ==
  ASSUME NEW S, IsFiniteSet(S), NEW f
  PROVE  IsFiniteSet({f[x] : x \in S}) /\ Cardinality({f[x] : x \in S}) <= Cardinality(S)
<1> DEFINE T == {f[x] : x \in S}
           g == [x \in S |-> f[x]]
<1>1. g \in Surjection(S, T)
  BY DEF Surjection
<1> QED BY <1>1, FS_Surjection

----------------------------------------------------------------------------
Buffers == 1..(RingSlots + 2 * FoldRing + 2)
Job == [slot : 0..MaxSlots, pages : SUBSET Pages, buf : Buffers, seq : Nat, of : Nat]

Workplaces == {"waiting", "looking", "copying", "returning", "reporting"}

(* The slots handed to a fold and not yet submitted: the one in hand.       *)
InHand == IF main \in {"fold", "drain"} THEN 1 ELSE 0

TypeInv ==
  /\ baseline \in [Pages -> 0..MaxSlots] /\ captures \in Nat /\ overtaken \in BOOLEAN
  /\ folded \in 0..MaxSlots /\ submitted \in Nat /\ submitted + InHand <= folded
  /\ buffer \in [0..(RingSlots - 1) -> Buffers]
  /\ queue \in Seq(Job) /\ Len(queue) <= FoldRing
  /\ returned \in Seq(Buffers) /\ Len(returned) <= FoldRing
  /\ completed \in 0..submitted
  /\ \A i \in 1..Len(queue) : queue[i].seq <= submitted
  /\ worker \in Workplaces /\ main \in {"idle", "fold", "drain", "loading"}
  /\ left \subseteq Pages /\ dirty \subseteq Pages
  /\ done.seq \in 0..submitted /\ done.buf \in Buffers \cup {NoBuffer}
  /\ DOMAIN done = {"slot", "pages", "buf", "seq", "of"}
  /\ done.buf # NoBuffer <=> worker = "returning"
  /\ worker = "copying" => queue # <<>> /\ left \subseteq Head(queue).pages

(* There is always a buffer that nobody has.                                *)
LEMMA FreshIsFree ==
  ASSUME TypeInv
  PROVE  Fresh \in Buffers /\ Fresh \notin InUse
<1> DEFINE A == {buffer[s] : s \in DOMAIN buffer}
           bufs == [i \in 1..Len(queue) |-> queue[i].buf]
           B == {bufs[i] : i \in 1..Len(queue)}
           C == {returned[i] : i \in 1..Len(returned)}
<1>1. IsFiniteSet(A) /\ Cardinality(A) <= RingSlots
  <2>1. DOMAIN buffer = 0..(RingSlots - 1)
    BY DEF TypeInv
  <2>2. IsFiniteSet(0..(RingSlots - 1)) /\ Cardinality(0..(RingSlots - 1)) = RingSlots
    BY FoldAssumption, FS_Interval
  <2>3. IsFiniteSet(A) /\ Cardinality(A) <= Cardinality(0..(RingSlots - 1))
    BY <2>1, <2>2, ImageBound
  <2> QED BY <2>2, <2>3
<1>2. IsFiniteSet(B) /\ Cardinality(B) <= FoldRing
  <2>1. Len(queue) \in Nat /\ Len(queue) <= FoldRing
    BY DEF TypeInv
  <2>2. IsFiniteSet(1..Len(queue)) /\ Cardinality(1..Len(queue)) = Len(queue)
    BY <2>1, FS_Interval
  <2>3. IsFiniteSet(B) /\ Cardinality(B) <= Cardinality(1..Len(queue))
    <3> HIDE DEF bufs
    <3> QED BY <2>2, ImageBound
  <2>4. Cardinality(B) \in Nat
    BY <2>3, FS_CardinalityType
  <2> HIDE DEF B
  <2> QED BY <2>1, <2>2, <2>3, <2>4, FoldAssumption
<1>3. IsFiniteSet(C) /\ Cardinality(C) <= FoldRing
  <2>1. Len(returned) \in Nat /\ Len(returned) <= FoldRing
    BY DEF TypeInv
  <2>2. IsFiniteSet(1..Len(returned)) /\ Cardinality(1..Len(returned)) = Len(returned)
    BY <2>1, FS_Interval
  <2>3. IsFiniteSet(C) /\ Cardinality(C) <= Cardinality(1..Len(returned))
    BY <2>2, ImageBound
  <2>4. Cardinality(C) \in Nat
    BY <2>3, FS_CardinalityType
  <2> QED BY <2>1, <2>2, <2>3, <2>4, FoldAssumption
<1>4. InUse = A \cup B \cup C \cup {done.buf}
  <2>1. DOMAIN queue = 1..Len(queue) /\ DOMAIN returned = 1..Len(returned)
    BY DEF TypeInv
  <2>2. B = {queue[i].buf : i \in 1..Len(queue)}
    OBVIOUS
  <2> QED BY <2>1, <2>2 DEF InUse
<1> HIDE DEF A, B, C
<1>5. IsFiniteSet(InUse) /\ Cardinality(InUse) <= RingSlots + 2 * FoldRing + 1
  <2>1. IsFiniteSet(A \cup B) /\ Cardinality(A \cup B) <= RingSlots + FoldRing
    <3>1. /\ Cardinality(A \cup B) = Cardinality(A) + Cardinality(B) - Cardinality(A \cap B)
          /\ IsFiniteSet(A \cup B) /\ IsFiniteSet(A \cap B)
      BY <1>1, <1>2, FS_Union, FS_Intersection
    <3>2. {Cardinality(A), Cardinality(B), Cardinality(A \cap B)} \subseteq Nat
      BY <3>1, <1>1, <1>2, FS_CardinalityType
    <3> QED BY <3>1, <3>2, <1>1, <1>2, FoldAssumption
  <2>2. IsFiniteSet(A \cup B \cup C) /\ Cardinality(A \cup B \cup C) <= RingSlots + 2 * FoldRing
    <3>1. /\ Cardinality(A \cup B \cup C)
               = Cardinality(A \cup B) + Cardinality(C) - Cardinality((A \cup B) \cap C)
          /\ IsFiniteSet(A \cup B \cup C) /\ IsFiniteSet((A \cup B) \cap C)
      BY <2>1, <1>3, FS_Union, FS_Intersection
    <3>2. {Cardinality(A \cup B), Cardinality(C), Cardinality((A \cup B) \cap C)} \subseteq Nat
      BY <3>1, <2>1, <1>3, FS_CardinalityType
    <3> QED BY <3>1, <3>2, <2>1, <1>3, FoldAssumption
  <2>3. /\ IsFiniteSet(A \cup B \cup C \cup {done.buf})
        /\ Cardinality(A \cup B \cup C \cup {done.buf}) <= Cardinality(A \cup B \cup C) + 1
        /\ Cardinality(A \cup B \cup C) \in Nat
    <3>1. Cardinality(A \cup B \cup C) \in Nat
      BY <2>2, FS_CardinalityType
    <3> QED BY <2>2, <3>1, FS_AddElement
  <2>4. Cardinality(InUse) \in Nat
    BY <2>3, <1>4, FS_CardinalityType
  <2> QED BY <1>4, <2>2, <2>3, <2>4, FoldAssumption
<1>6. Buffers \ InUse # {}
  <2>1. Cardinality(Buffers) = RingSlots + 2 * FoldRing + 2
    BY FoldAssumption, FS_Interval DEF Buffers
  <2>2. Buffers \subseteq InUse => Cardinality(Buffers) <= Cardinality(InUse)
    BY <1>5, FS_Subset
  <2>3. Cardinality(InUse) \in Nat
    BY <1>5, FS_CardinalityType
  <2> QED BY <1>5, <2>1, <2>2, <2>3, FoldAssumption
<1>7. Fresh = Min(Buffers \ InUse) /\ Buffers \ InUse \in SUBSET Nat
  BY FoldAssumption DEF Fresh, Buffers
<1> QED BY <1>6, <1>7, MinExists

(* The slot whose buffer a job takes, and the buffer it gets for it.        *)
LEMMA BufferTaken ==
  ASSUME TypeInv, Folding
  PROVE  /\ Reused \in DOMAIN buffer
         /\ (IF returned = <<>> THEN Fresh ELSE Head(returned)) \in Buffers
         /\ (IF returned = <<>> THEN returned ELSE Tail(returned)) \in Seq(Buffers)
         /\ Len(IF returned = <<>> THEN returned ELSE Tail(returned)) <= FoldRing
<1>1. Reused \in DOMAIN buffer
  BY FoldAssumption DEF TypeInv, Reused
<1>2. returned # <<>> => /\ Head(returned) \in Buffers /\ Tail(returned) \in Seq(Buffers)
                         /\ Len(Tail(returned)) = Len(returned) - 1
  BY DEF TypeInv
<1> QED BY <1>1, <1>2, FreshIsFree, FoldAssumption DEF TypeInv

LEMMA OldestJob ==
  ASSUME TypeInv, queue # <<>>
  PROVE  Head(queue) = queue[1] /\ 1 \in 1..Len(queue) /\ queue[1] \in Job
BY DEF TypeInv

LEMMA TypeInvImplies == TypeInv => TypeOK
<1> SUFFICES ASSUME TypeInv PROVE TypeOK
  OBVIOUS
<1>1. submitted <= MaxSlots
  BY FoldAssumption DEF TypeInv, InHand
<1> QED BY <1>1 DEF TypeInv, TypeOK, Workplaces

LEMMA InitTyped == Init => TypeInv
<1> SUFFICES ASSUME Init PROVE TypeInv
  OBVIOUS
<1>1. buffer \in [0..(RingSlots - 1) -> Buffers]
  BY FoldAssumption DEF Init, Buffers
<1>2. /\ queue \in Seq(Job) /\ returned \in Seq(Buffers) /\ Len(queue) = 0 /\ Len(returned) = 0
  BY DEF Init
<1>3. InHand = 0
  BY DEF Init, InHand
<1>4. /\ done.seq = 0 /\ done.buf = NoBuffer /\ DOMAIN done = {"slot", "pages", "buf", "seq", "of"}
      /\ worker = "waiting" /\ main = "idle" /\ left = {} /\ dirty = {}
  BY DEF Init, NoJob
<1>5. /\ captures = 1 /\ overtaken = FALSE /\ folded = 0 /\ submitted = 0 /\ completed = 0
      /\ baseline = [p \in Pages |-> 0]
  BY DEF Init
<1>6. \A i \in 1..Len(queue) : queue[i].seq <= submitted
  BY <1>2
<1>7. /\ baseline \in [Pages -> 0..MaxSlots] /\ captures \in Nat /\ overtaken \in BOOLEAN
      /\ folded \in 0..MaxSlots /\ submitted \in Nat /\ submitted + InHand <= folded
      /\ completed \in 0..submitted
  <2>1. MaxSlots \in Nat /\ 0 \in 0..MaxSlots
    BY FoldAssumption
  <2>2. baseline \in [Pages -> 0..MaxSlots]
    BY <1>5, <2>1
  <2>3. captures \in Nat /\ overtaken \in BOOLEAN
    BY <1>5
  <2>4. folded \in 0..MaxSlots /\ submitted \in Nat /\ completed \in 0..submitted
    BY <1>5, <2>1
  <2>5. submitted + InHand <= folded
    BY <1>3, <1>5
  <2> QED BY <2>2, <2>3, <2>4, <2>5
<1>8. Len(queue) <= FoldRing /\ Len(returned) <= FoldRing
  BY <1>2, FoldAssumption
<1>9. /\ worker \in Workplaces /\ main \in {"idle", "fold", "drain", "loading"}
      /\ left \subseteq Pages /\ dirty \subseteq Pages
      /\ done.seq \in 0..submitted /\ done.buf \in Buffers \cup {NoBuffer}
      /\ done.buf # NoBuffer <=> worker = "returning"
      /\ worker # "copying"
  BY <1>4, <1>5 DEF Workplaces
<1> QED BY <1>1, <1>2, <1>4, <1>6, <1>7, <1>8, <1>9 DEF TypeInv

LEMMA StepTyped == TypeInv /\ [Next]_vars => TypeInv'
<1> SUFFICES ASSUME TypeInv, [Next]_vars PROVE TypeInv'
  OBVIOUS
<1> USE FoldAssumption DEF workerVars
<1>1. CASE SaveReusesSlot
  BY <1>1 DEF SaveReusesSlot, TypeInv, InHand
<1>2. CASE QueueFull
  BY <1>2 DEF QueueFull, TypeInv, InHand
<1>3. CASE QueueDrained
  BY <1>3 DEF QueueDrained, TypeInv, InHand
<1>4. CASE SubmitJob
  <2>1. /\ Folding /\ UNCHANGED <<baseline, captures, overtaken, folded, completed, worker, left, done>>
        /\ Len(queue) < FoldRing /\ submitted' = submitted + 1 /\ main' = "idle" /\ dirty' = {}
    BY <1>4 DEF SubmitJob, Folding
  <2>2. /\ buffer' \in [0..(RingSlots - 1) -> Buffers]
        /\ returned' \in Seq(Buffers) /\ Len(returned') <= FoldRing
    BY <1>4, <2>1, BufferTaken DEF SubmitJob, TypeInv
  <2> DEFINE j == [slot |-> folded, pages |-> dirty, buf |-> buffer[Reused],
                   seq |-> submitted + 1, of |-> captures]
  <2>3. j \in Job
    <3>1. buffer[Reused] \in Buffers
      BY <2>1, BufferTaken DEF TypeInv
    <3>2. folded \in 0..MaxSlots /\ dirty \in SUBSET Pages /\ submitted + 1 \in Nat /\ captures \in Nat
      BY DEF TypeInv
    <3> QED BY <3>1, <3>2 DEF Job
  <2>4. /\ queue' = Append(queue, j) /\ queue' \in Seq(Job) /\ Len(queue') = Len(queue) + 1
        /\ queue'[Len(queue) + 1] = j /\ \A i \in 1..Len(queue) : queue'[i] = queue[i]
    BY <1>4, <2>3 DEF SubmitJob, TypeInv
  <2>5. queue # <<>> => queue' # <<>> /\ Head(queue') = Head(queue)
    BY <2>4 DEF TypeInv
  <2>6. submitted' + InHand' <= folded'
    BY <2>1 DEF TypeInv, InHand, Folding
  <2>7. \A i \in 1..Len(queue') : queue'[i].seq <= submitted'
    <3>1. j.seq = submitted + 1 /\ submitted \in Nat /\ Len(queue) \in Nat
      BY DEF TypeInv
    <3>2. \A i \in 1..Len(queue) : queue[i].seq \in Nat /\ queue[i].seq <= submitted
      <4>1. \A i \in 1..Len(queue) : queue[i] \in Job
        BY DEF TypeInv
      <4> QED BY <4>1 DEF TypeInv, Job
    <3>3. \A i \in 1..Len(queue') : i \in 1..Len(queue) \/ i = Len(queue) + 1
      BY <2>4, <3>1
    <3> HIDE DEF j
    <3> QED BY <2>1, <2>4, <3>1, <3>2, <3>3
  <2> HIDE DEF j
  <2> QED BY <2>1, <2>2, <2>4, <2>5, <2>6, <2>7 DEF TypeInv
<1>5. CASE FoldInline
  BY <1>5 DEF FoldInline, TypeInv, InHand
<1>6. CASE RollbackDrain
  BY <1>6 DEF RollbackDrain, TypeInv, InHand
<1>7. CASE RollbackDone
  BY <1>7 DEF RollbackDone, Loading, TypeInv, InHand
<1>8. CASE Toggle
  BY <1>8 DEF Toggle, TypeInv, InHand
<1>9. CASE Recapture
  BY <1>9 DEF Recapture, TypeInv, InHand
<1>10. CASE Wake
  BY <1>10 DEF Wake, TypeInv, InHand, Workplaces
<1>11. CASE Look
  <2>1. queue # <<>> => Head(queue).pages \subseteq Pages
    BY OldestJob DEF Job
  <2> QED BY <1>11, <2>1 DEF Look, TypeInv, InHand, Workplaces
<1>12. CASE CopyPage
  <2>1. Head(queue).slot \in 0..MaxSlots
    BY <1>12, OldestJob DEF CopyPage, TypeInv, Job
  <2>2. baseline' \in [Pages -> 0..MaxSlots]
    BY <1>12, <2>1 DEF CopyPage, TypeInv
  <2>3. left' \subseteq left
    BY <1>12 DEF CopyPage
  <2>4. UNCHANGED <<captures, overtaken, folded, buffer, queue, returned, submitted, completed,
                    worker, done, main, dirty>>
    BY <1>12 DEF CopyPage
  <2> QED BY <2>2, <2>3, <2>4 DEF TypeInv, InHand
<1>13. CASE Consume
  <2>1. /\ queue # <<>> /\ done' = Head(queue) /\ queue' = Tail(queue) /\ worker' = "returning"
        /\ UNCHANGED <<baseline, captures, overtaken, folded, buffer, returned, submitted, completed,
                       left, main, dirty>>
    BY <1>13 DEF Consume, TypeInv
  <2>2. /\ Head(queue) = queue[1] /\ 1 \in 1..Len(queue) /\ queue[1] \in Job
        /\ Tail(queue) \in Seq(Job) /\ Len(Tail(queue)) = Len(queue) - 1
        /\ \A i \in 1..(Len(queue) - 1) : Tail(queue)[i] = queue[i + 1]
    BY <2>1 DEF TypeInv
  <2>3. \A i \in 1..Len(queue') : queue'[i].seq <= submitted'
    BY <2>1, <2>2 DEF TypeInv
  <2>4. /\ done'.seq \in 0..submitted' /\ done'.buf \in Buffers
        /\ DOMAIN done' = {"slot", "pages", "buf", "seq", "of"}
    BY <2>1, <2>2 DEF TypeInv, Job
  <2>5. done'.buf # NoBuffer
    BY <2>4, FoldAssumption DEF Buffers, NoBuffer
  <2>6. Len(queue') <= FoldRing
    BY <2>1, <2>2, FoldAssumption DEF TypeInv
  <2> QED BY <2>1, <2>2, <2>3, <2>4, <2>5, <2>6 DEF TypeInv, InHand, Workplaces
<1>14. CASE PushReturn
  BY <1>14 DEF PushReturn, TypeInv, InHand, Workplaces
<1>15. CASE Report
  BY <1>15 DEF Report, TypeInv, InHand, Workplaces, NoJob
<1>16. CASE UNCHANGED vars
  BY <1>16 DEF vars, TypeInv, InHand
<1> QED
  BY <1>1, <1>2, <1>3, <1>4, <1>5, <1>6, <1>7, <1>8, <1>9, <1>10, <1>11, <1>12, <1>13, <1>14,
     <1>15, <1>16 DEF Next, Main, Worker

(* The types (DeferredFold's TypeOK).                                       *)
THEOREM TypeCorrect == Spec => []TypeOK
BY InitTyped, StepTyped, TypeInvImplies, PTL DEF Spec

----------------------------------------------------------------------------
(* The buffers.                                                             *)

OwnedOnce ==
  /\ \A s, t \in DOMAIN buffer : buffer[s] = buffer[t] => s = t
  /\ \A i, j \in 1..Len(queue) : queue[i].buf = queue[j].buf => i = j
  /\ \A i, j \in 1..Len(returned) : returned[i] = returned[j] => i = j
  /\ \A s \in DOMAIN buffer : /\ \A i \in 1..Len(queue) : buffer[s] # queue[i].buf
                              /\ \A i \in 1..Len(returned) : buffer[s] # returned[i]
                              /\ buffer[s] # done.buf
  /\ \A i \in 1..Len(queue) : /\ \A j \in 1..Len(returned) : queue[i].buf # returned[j]
                              /\ queue[i].buf # done.buf
  /\ \A i \in 1..Len(returned) : returned[i] # done.buf

LEMMA OwnedOnceImplies == TypeInv /\ OwnedOnce => OneOwner
<1> SUFFICES ASSUME TypeInv, OwnedOnce, NEW b \in InUse \ {NoBuffer}
             PROVE  Cardinality(Owners(b)) = 1
  BY DEF OneOwner
<1> DEFINE S == {t \in DOMAIN buffer : buffer[t] = b}
           J == {j \in DOMAIN queue : queue[j].buf = b}
           R == {j \in DOMAIN returned : returned[j] = b}
<1>0. DOMAIN queue = 1..Len(queue) /\ DOMAIN returned = 1..Len(returned)
  BY DEF TypeInv
<1>1. /\ Owners(b) = {<<"slot", s>> : s \in S} \cup {<<"job", i>> : i \in J}
                     \cup {<<"spare", i>> : i \in R} \cup (IF done.buf = b THEN {<<"worker", 0>>} ELSE {})
  BY DEF Owners
<1>2. /\ \A t \in S : t \in DOMAIN buffer /\ buffer[t] = b
      /\ \A i \in J : i \in 1..Len(queue) /\ queue[i].buf = b
      /\ \A i \in R : i \in 1..Len(returned) /\ returned[i] = b
      /\ S # {} \/ J # {} \/ R # {} \/ done.buf = b
  BY <1>0 DEF InUse
<1> HIDE DEF S, J, R
<1>3. /\ \A s, t \in S : s = t
      /\ \A i, j \in J : i = j
      /\ \A i, j \in R : i = j
  BY <1>2 DEF OwnedOnce
<1>4. /\ S # {} => J = {} /\ R = {} /\ done.buf # b
      /\ J # {} => R = {} /\ done.buf # b
      /\ R # {} => done.buf # b
  BY <1>2 DEF OwnedOnce
<1>5. \E o : Owners(b) = {o}
  <2>1. CASE S # {}
    <3>1. PICK s : S = {s}
      BY <2>1, <1>3
    <3>2. Owners(b) = {<<"slot", s>>}
      BY <2>1, <3>1, <1>1, <1>4
    <3> QED BY <3>2
  <2>2. CASE J # {}
    <3>1. PICK i : J = {i}
      BY <2>2, <1>3
    <3>2. S = {} /\ R = {} /\ done.buf # b
      BY <2>2, <1>4
    <3>3. Owners(b) = {<<"job", i>>}
      BY <3>1, <3>2, <1>1
    <3> QED BY <3>3
  <2>3. CASE R # {}
    <3>1. PICK i : R = {i}
      BY <2>3, <1>3
    <3>2. S = {} /\ J = {} /\ done.buf # b
      BY <2>3, <1>4
    <3>3. Owners(b) = {<<"spare", i>>}
      BY <3>1, <3>2, <1>1
    <3> QED BY <3>3
  <2>4. CASE S = {} /\ J = {} /\ R = {} /\ done.buf = b
    <3>1. Owners(b) = {<<"worker", 0>>}
      BY <2>4, <1>1
    <3> QED BY <3>1
  <2> QED BY <2>1, <2>2, <2>3, <2>4, <1>2
<1> QED BY <1>5, FS_Singleton

LEMMA InitOwned == Init => OwnedOnce
BY FoldAssumption DEF Init, OwnedOnce, NoJob, NoBuffer

LEMMA SubmitOwned ==
  ASSUME TypeInv, OwnedOnce, SubmitJob
  PROVE  OwnedOnce'
<1> DEFINE taken == buffer[Reused]
           given == IF returned = <<>> THEN Fresh ELSE Head(returned)
           j == [slot |-> folded, pages |-> dirty, buf |-> taken, seq |-> submitted + 1,
                 of |-> captures]
<1>1. /\ queue' = Append(queue, j) /\ done' = done
      /\ buffer' = [buffer EXCEPT ![Reused] = given]
      /\ returned' = (IF returned = <<>> THEN returned ELSE Tail(returned))
      /\ Folding
  BY DEF SubmitJob, Folding
<1>2. DOMAIN queue = 1..Len(queue) /\ DOMAIN returned = 1..Len(returned) /\ Reused \in DOMAIN buffer
  BY <1>1, BufferTaken DEF TypeInv
<1>3. /\ \A s \in DOMAIN buffer : buffer[s] # given
      /\ \A i \in 1..Len(queue) : queue[i].buf # given
      /\ done.buf # given
  <2>1. CASE returned = <<>>
    BY <2>1, <1>2, FreshIsFree DEF InUse
  <2>2. CASE returned # <<>>
    <3>1. given = returned[1] /\ 1 \in 1..Len(returned)
      BY <2>2 DEF TypeInv
    <3> QED BY <3>1 DEF OwnedOnce
  <2> QED BY <2>1, <2>2
<1>4. /\ DOMAIN buffer' = DOMAIN buffer /\ buffer'[Reused] = given
      /\ \A s \in DOMAIN buffer : s # Reused => buffer'[s] = buffer[s]
  BY <1>1, <1>2
<1>5. /\ Len(queue') = Len(queue) + 1 /\ Len(queue) \in Nat /\ queue'[Len(queue) + 1].buf = taken
      /\ \A i \in 1..Len(queue) : queue'[i] = queue[i]
  BY <1>1 DEF TypeInv
<1>6. ASSUME NEW i \in 1..Len(returned')
      PROVE  \E k \in 1..Len(returned) : returned'[i] = returned[k] /\ returned'[i] # given
  <2>1. returned # <<>> /\ returned' = Tail(returned)
    BY <1>1, <1>6 DEF TypeInv
  <2>2. /\ Len(Tail(returned)) = Len(returned) - 1 /\ Len(returned) \in Nat
        /\ \A k \in 1..(Len(returned) - 1) : Tail(returned)[k] = returned[k + 1]
        /\ given = returned[1]
    BY <2>1 DEF TypeInv
  <2>3. i + 1 \in 1..Len(returned) /\ 1 \in 1..Len(returned) /\ returned'[i] = returned[i + 1] /\ i + 1 # 1
    BY <1>6, <2>1, <2>2
  <2> QED BY <2>2, <2>3 DEF OwnedOnce
<1>7. \A i, k \in 1..Len(returned') : returned'[i] = returned'[k] => i = k
  <2>1. CASE returned = <<>>
    BY <2>1, <1>1 DEF TypeInv
  <2>2. CASE returned # <<>>
    <3>1. /\ returned' = Tail(returned) /\ Len(returned') = Len(returned) - 1 /\ Len(returned) \in Nat
          /\ \A k \in 1..(Len(returned) - 1) : returned'[k] = returned[k + 1]
      BY <2>2, <1>1 DEF TypeInv
    <3>2. \A k \in 1..Len(returned') : k + 1 \in 1..Len(returned) /\ returned'[k] = returned[k + 1]
      BY <3>1
    <3>3. \A i, k \in 1..Len(returned') : returned[i + 1] = returned[k + 1] => i + 1 = k + 1
      BY <3>2 DEF OwnedOnce
    <3> QED BY <3>2, <3>3
  <2> QED BY <2>1, <2>2
<1>8. \A s \in DOMAIN buffer : s # Reused => buffer[s] # taken
  BY <1>2 DEF OwnedOnce
<1>9. \A i \in 1..Len(queue') : i \in 1..Len(queue) \/ i = Len(queue) + 1
  BY <1>5
<1>10. /\ taken # given /\ taken # done.buf
       /\ \A i \in 1..Len(queue) : queue[i].buf # taken
       /\ \A i \in 1..Len(returned) : returned[i] # taken
  <2> HIDE DEF given
  <2> QED BY <1>2, <1>3 DEF OwnedOnce
<1> HIDE DEF taken, given, j
<1>11. \A i \in 1..Len(queue') :
          \/ queue'[i].buf = taken /\ i = Len(queue) + 1
          \/ i \in 1..Len(queue) /\ queue'[i] = queue[i]
  BY <1>5, <1>9
<1>12. \A s, t \in DOMAIN buffer' : buffer'[s] = buffer'[t] => s = t
  BY <1>3, <1>4 DEF OwnedOnce
<1>13. \A i, k \in 1..Len(queue') : queue'[i].buf = queue'[k].buf => i = k
  BY <1>10, <1>11 DEF OwnedOnce
<1>14. \A s \in DOMAIN buffer' : /\ \A i \in 1..Len(queue') : buffer'[s] # queue'[i].buf
                                 /\ \A i \in 1..Len(returned') : buffer'[s] # returned'[i]
                                 /\ buffer'[s] # done'.buf
  <2> SUFFICES ASSUME NEW s \in DOMAIN buffer
               PROVE  /\ \A i \in 1..Len(queue') : buffer'[s] # queue'[i].buf
                      /\ \A i \in 1..Len(returned') : buffer'[s] # returned'[i]
                      /\ buffer'[s] # done'.buf
    BY <1>4
  <2>1. CASE s = Reused
    BY <2>1, <1>1, <1>3, <1>4, <1>6, <1>10, <1>11
  <2>2. CASE s # Reused
    BY <2>2, <1>1, <1>4, <1>6, <1>8, <1>11 DEF OwnedOnce
  <2> QED BY <2>1, <2>2
<1>15. /\ \A i \in 1..Len(queue') : /\ \A k \in 1..Len(returned') : queue'[i].buf # returned'[k]
                                    /\ queue'[i].buf # done'.buf
       /\ \A i \in 1..Len(returned') : returned'[i] # done'.buf
  BY <1>1, <1>6, <1>10, <1>11 DEF OwnedOnce
<1> QED BY <1>7, <1>12, <1>13, <1>14, <1>15 DEF OwnedOnce

LEMMA ConsumeOwned ==
  ASSUME TypeInv, OwnedOnce, Consume
  PROVE  OwnedOnce'
<1>1. /\ queue # <<>> /\ queue' = Tail(queue) /\ done' = queue[1] /\ 1 \in 1..Len(queue)
      /\ UNCHANGED <<buffer, returned>>
  BY OldestJob DEF Consume, TypeInv
<1>2. \A i \in 1..Len(queue') : i + 1 \in 1..Len(queue) /\ queue'[i] = queue[i + 1] /\ i + 1 # 1
  <2>1. /\ Len(Tail(queue)) = Len(queue) - 1 /\ Len(queue) \in Nat
        /\ \A i \in 1..(Len(queue) - 1) : Tail(queue)[i] = queue[i + 1]
    BY <1>1 DEF TypeInv
  <2> QED BY <1>1, <2>1
<1>3. \A i, k \in 1..Len(queue') : queue'[i].buf = queue'[k].buf => i = k
  <2>1. \A i, k \in 1..Len(queue') : queue[i + 1].buf = queue[k + 1].buf => i + 1 = k + 1
    BY <1>2 DEF OwnedOnce
  <2> QED BY <1>2, <2>1
<1>4. \A i \in 1..Len(queue') : \E k \in 1..Len(queue) : k # 1 /\ queue'[i] = queue[k]
  BY <1>2
<1> QED BY <1>1, <1>3, <1>4 DEF OwnedOnce

LEMMA PushOwned ==
  ASSUME TypeInv, OwnedOnce, PushReturn
  PROVE  OwnedOnce'
<1>1. /\ done.buf \in Buffers /\ done' = [done EXCEPT !.buf = NoBuffer] /\ done'.buf = NoBuffer
      /\ UNCHANGED <<buffer, queue>>
  BY DEF PushReturn, TypeInv
<1>2. /\ \A s \in DOMAIN buffer : buffer[s] # NoBuffer
      /\ \A i \in 1..Len(queue) : queue[i].buf # NoBuffer
      /\ \A i \in 1..Len(returned) : returned[i] # NoBuffer
  <2>1. NoBuffer \notin Buffers
    BY FoldAssumption DEF Buffers, NoBuffer
  <2>2. /\ \A i \in 1..Len(queue) : queue[i] \in Job
        /\ \A i \in 1..Len(returned) : returned[i] \in Buffers
        /\ \A s \in DOMAIN buffer : buffer[s] \in Buffers
    BY DEF TypeInv
  <2> QED BY <2>1, <2>2 DEF Job
<1>3. CASE Len(returned) >= FoldRing
  <2>1. returned' = returned
    BY <1>3 DEF PushReturn
  <2> QED BY <1>1, <1>2, <2>1 DEF OwnedOnce
<1>4. CASE ~(Len(returned) >= FoldRing)
  <2>1. returned' = Append(returned, done.buf)
    BY <1>4 DEF PushReturn
  <2>2. \A i \in 1..Len(returned') :
          \/ i = Len(returned) + 1 /\ returned'[i] = done.buf
          \/ i \in 1..Len(returned) /\ returned'[i] = returned[i]
    <3>1. /\ Len(returned') = Len(returned) + 1 /\ Len(returned) \in Nat
          /\ returned'[Len(returned) + 1] = done.buf
          /\ \A i \in 1..Len(returned) : returned'[i] = returned[i]
      BY <1>1, <2>1 DEF TypeInv
    <3> QED BY <3>1
  <2>3. done.buf # NoBuffer
    BY <1>1, FoldAssumption DEF Buffers, NoBuffer
  <2>4. \A i, k \in 1..Len(returned') : returned'[i] = returned'[k] => i = k
    BY <2>2 DEF OwnedOnce
  <2> QED BY <1>1, <1>2, <2>2, <2>3, <2>4 DEF OwnedOnce
<1> QED BY <1>3, <1>4

LEMMA StepOwned == TypeInv /\ OwnedOnce /\ [Next]_vars => OwnedOnce'
<1> SUFFICES ASSUME TypeInv, OwnedOnce, [Next]_vars PROVE OwnedOnce'
  OBVIOUS
<1>1. CASE UNCHANGED <<buffer, queue, returned, done>>
  BY <1>1 DEF OwnedOnce
<1>2. CASE SubmitJob \/ Consume \/ PushReturn
  BY <1>2, SubmitOwned, ConsumeOwned, PushOwned
<1>3. CASE Report
  <2>1. /\ done'.buf = NoBuffer /\ done.buf = NoBuffer /\ UNCHANGED <<buffer, queue, returned>>
    BY <1>3 DEF Report, TypeInv, NoJob
  <2> QED BY <2>1 DEF OwnedOnce
<1>4. \/ UNCHANGED <<buffer, queue, returned, done>>
      \/ SubmitJob \/ Consume \/ PushReturn \/ Report
  BY DEF Next, Main, Worker, vars, workerVars, SaveReusesSlot, QueueFull, QueueDrained, FoldInline,
         RollbackDrain, RollbackDone, Toggle, Recapture, Wake, Look, CopyPage
<1> QED BY <1>1, <1>2, <1>3, <1>4

(* A page buffer is in one place only, so a job's bytes cannot change under *)
(* the worker (save's detach, push_return, pop_return).                     *)
THEOREM BuffersHaveOneOwner == Spec => []OneOwner
<1>1. Init => TypeInv /\ OwnedOnce
  BY InitTyped, InitOwned
<1>2. TypeInv /\ OwnedOnce /\ [Next]_vars => (TypeInv /\ OwnedOnce)'
  BY StepTyped, StepOwned
<1> QED BY <1>1, <1>2, OwnedOnceImplies, PTL DEF Spec

----------------------------------------------------------------------------
(* The refinement.                                                          *)

(* While nothing has overtaken the queue, its jobs are on the baseline in   *)
(* force, and what the worker has copied of its job is in it.               *)
CopyInv ==
  ~overtaken =>
    /\ \A i \in 1..Len(queue) : queue[i].of = captures
    /\ worker = "copying" =>
         \A p \in Head(queue).pages \ left : baseline[p] = Head(queue).slot

RefineInv == TypeInv /\ CopyInv

LEMMA InitCopied == Init => CopyInv
BY DEF Init, CopyInv

(* What the pages still queued are is what counts for a page; the baseline  *)
(* is, for one that no job has.                                             *)
LEMMA LogicalSame ==
  ASSUME TypeInv, queue' = queue,
         \A p \in Pages : Pending(p) = {} => baseline'[p] = baseline[p]
  PROVE  Logical' = Logical
BY DEF Logical, Pending

LEMMA LogicalAppended ==
  ASSUME TypeInv, NEW j \in Job, queue' = Append(queue, j), baseline' = baseline
  PROVE  Logical' = [p \in Pages |-> IF p \in j.pages THEN j.slot ELSE Logical[p]]
<1>1. /\ Len(queue') = Len(queue) + 1 /\ Len(queue) \in Nat /\ queue'[Len(queue) + 1] = j
      /\ \A i \in 1..Len(queue) : queue'[i] = queue[i]
      /\ DOMAIN queue = 1..Len(queue) /\ DOMAIN queue' = 1..(Len(queue) + 1)
  BY DEF TypeInv
<1> SUFFICES ASSUME NEW p \in Pages
             PROVE  Logical'[p] = IF p \in j.pages THEN j.slot ELSE Logical[p]
  BY DEF Logical
<1>2. CASE p \in j.pages
  <2>1. Pending(p)' \in SUBSET Int /\ Len(queue) + 1 \in Pending(p)'
        /\ \A x \in Pending(p)' : x <= Len(queue) + 1
    BY <1>1, <1>2 DEF Pending
  <2>2. Max(Pending(p)') = Len(queue) + 1
    BY <2>1, MaxIs
  <2>3. Logical'[p] = queue'[Max(Pending(p)')].slot
    BY <2>1 DEF Logical
  <2> QED BY <1>1, <1>2, <2>2, <2>3
<1>3. CASE p \notin j.pages
  <2>1. Pending(p)' = Pending(p)
    BY <1>1, <1>3 DEF Pending
  <2>2. CASE Pending(p) = {}
    BY <2>1, <2>2, <1>3 DEF Logical
  <2>3. CASE Pending(p) # {}
    <3>1. Pending(p) \in SUBSET (1..Len(queue))
      BY <1>1 DEF Pending
    <3>2. Max(Pending(p)) \in 1..Len(queue)
      BY <1>1, <2>3, <3>1, MaxExists
    <3>3. Logical'[p] = queue'[Max(Pending(p))].slot /\ Logical[p] = queue[Max(Pending(p))].slot
      BY <2>1, <2>3 DEF Logical
    <3> QED BY <1>1, <1>3, <3>2, <3>3
  <2> QED BY <2>2, <2>3
<1> QED BY <1>2, <1>3

(* A job whose pages are all in the baseline may go.                        *)
LEMMA LogicalConsumed ==
  ASSUME TypeInv, queue # <<>>, queue' = Tail(queue), baseline' = baseline,
         \A p \in Head(queue).pages : baseline[p] = Head(queue).slot
  PROVE  Logical' = Logical
<1>1. /\ Len(queue') = Len(queue) - 1 /\ Len(queue) \in Nat /\ Len(queue) > 0
      /\ \A i \in 1..(Len(queue) - 1) : queue'[i] = queue[i + 1]
      /\ DOMAIN queue = 1..Len(queue) /\ DOMAIN queue' = 1..(Len(queue) - 1)
      /\ Head(queue) = queue[1]
  BY DEF TypeInv
<1> SUFFICES ASSUME NEW p \in Pages PROVE Logical'[p] = Logical[p]
  BY DEF Logical
<1>2. \A i \in Pending(p)' : i + 1 \in Pending(p) /\ i \in 1..(Len(queue) - 1)
  BY <1>1 DEF Pending
<1>3. \A i \in Pending(p) : i # 1 => i - 1 \in Pending(p)'
  <2> SUFFICES ASSUME NEW i \in 1..Len(queue), p \in queue[i].pages, i # 1
               PROVE  i - 1 \in 1..(Len(queue) - 1) /\ p \in queue'[i - 1].pages
    BY <1>1 DEF Pending
  <2>1. i - 1 \in 1..(Len(queue) - 1) /\ (i - 1) + 1 = i
    BY <1>1
  <2> QED BY <1>1, <2>1
<1>4. CASE Pending(p)' # {}
  <2>1. Pending(p)' \in SUBSET (1..(Len(queue) - 1)) /\ Len(queue) - 1 \in Nat
    BY <1>1, <1>2
  <2> DEFINE m == Max(Pending(p)')
  <2>2. m \in Pending(p)' /\ \A x \in Pending(p)' : x <= m
    BY <1>4, <2>1, MaxExists
  <2>3. Pending(p) \in SUBSET Int /\ m + 1 \in Pending(p) /\ \A x \in Pending(p) : x <= m + 1
    <3>1. Pending(p) \in SUBSET (1..Len(queue))
      BY <1>1 DEF Pending
    <3>2. ASSUME NEW x \in Pending(p) PROVE x <= m + 1
      <4>1. CASE x = 1
        BY <4>1, <2>1, <2>2
      <4>2. CASE x # 1
        <5>1. x - 1 \in Pending(p)' /\ x \in Int /\ m \in Int
          BY <4>2, <1>3, <3>1, <2>1, <2>2
        <5>2. x - 1 <= m
          BY <5>1, <2>2
        <5> QED BY <5>1, <5>2
      <4> QED BY <4>1, <4>2
    <3> QED BY <1>2, <2>2, <3>1, <3>2
  <2>4. Max(Pending(p)) = m + 1
    BY <2>3, MaxIs
  <2>5. Logical'[p] = queue'[m].slot /\ Logical[p] = queue[m + 1].slot
    BY <1>4, <2>3, <2>4 DEF Logical
  <2> QED BY <1>1, <1>2, <2>2, <2>5
<1>5. CASE Pending(p)' = {}
  <2>1. Logical'[p] = baseline[p]
    BY <1>5 DEF Logical
  <2>2. CASE Pending(p) = {}
    BY <2>1, <2>2 DEF Logical
  <2>3. CASE Pending(p) # {}
    <3>1. Pending(p) = {1}
      BY <1>3, <1>5, <2>3
    <3>2. Max(Pending(p)) = 1
      BY <3>1, MaxIs
    <3>3. p \in Head(queue).pages /\ Logical[p] = Head(queue).slot
      BY <1>1, <3>1, <3>2 DEF Logical, Pending
    <3> QED BY <2>1, <3>3
  <2> QED BY <2>2, <2>3
<1> QED BY <1>4, <1>5

(* What a submission leaves at the head of the queue.                       *)
LEMMA SubmittedJob ==
  ASSUME TypeInv, SubmitJob
  PROVE  \E j \in Job : /\ j.slot = folded /\ j.pages = dirty /\ j.of = captures
                        /\ queue' = Append(queue, j)
<1> DEFINE j == [slot |-> folded, pages |-> dirty, buf |-> buffer[Reused],
                 seq |-> submitted + 1, of |-> captures]
<1>1. buffer[Reused] \in Buffers
  BY BufferTaken DEF TypeInv, SubmitJob, Folding
<1>2. folded \in 0..MaxSlots /\ dirty \in SUBSET Pages /\ submitted + 1 \in Nat /\ captures \in Nat
  BY DEF TypeInv
<1>3. j \in Job /\ queue' = Append(queue, j)
  BY <1>1, <1>2 DEF Job, SubmitJob
<1> QED BY <1>3

LEMMA StepCopied == RefineInv /\ [Next]_vars => CopyInv'
<1> SUFFICES ASSUME RefineInv, [Next]_vars PROVE CopyInv'
  OBVIOUS
<1> USE DEF RefineInv, workerVars
<1>1. CASE SubmitJob
  <2>1. PICK j \in Job : j.of = captures /\ queue' = Append(queue, j)
    BY <1>1, SubmittedJob
  <2>2. /\ Len(queue') = Len(queue) + 1 /\ Len(queue) \in Nat /\ queue'[Len(queue) + 1] = j
        /\ \A i \in 1..Len(queue) : queue'[i] = queue[i]
        /\ queue # <<>> => Head(queue') = Head(queue)
    BY <2>1 DEF TypeInv
  <2>3. UNCHANGED <<baseline, captures, overtaken, worker, left>>
    BY <1>1 DEF SubmitJob
  <2>4. \A i \in 1..Len(queue') : i \in 1..Len(queue) \/ i = Len(queue) + 1
    BY <2>2
  <2> QED BY <2>1, <2>2, <2>3, <2>4 DEF CopyInv, TypeInv
<1>2. CASE FoldInline
  <2>1. /\ UNCHANGED <<captures, queue, worker, left>>
        /\ baseline' = [p \in Pages |-> IF p \in dirty THEN folded ELSE baseline[p]]
        /\ ~overtaken' => ~overtaken /\ \A p \in dirty : Pending(p) = {}
    BY <1>2 DEF FoldInline
  <2>2. ASSUME ~overtaken', worker = "copying", NEW p \in Head(queue).pages
        PROVE  p \in Pages /\ p \notin dirty
    <3>1. queue # <<>> /\ Head(queue) = queue[1] /\ queue[1] \in Job /\ 1 \in DOMAIN queue
      BY <2>2, OldestJob DEF TypeInv
    <3>2. 1 \in Pending(p) /\ p \in Pages
      BY <2>2, <3>1 DEF Pending, Job
    <3> QED BY <2>1, <2>2, <3>2
  <2> QED BY <2>1, <2>2 DEF CopyInv
<1>3. CASE Recapture
  <2>1. /\ UNCHANGED <<queue, worker, left>>
        /\ ~overtaken' => ~overtaken /\ queue = <<>>
    BY <1>3 DEF Recapture
  <2>2. ~overtaken' => Len(queue') = 0 /\ worker' # "copying"
    BY <2>1 DEF TypeInv
  <2> QED BY <2>2 DEF CopyInv
<1>4. CASE Look
  <2>1. /\ UNCHANGED <<baseline, captures, overtaken, queue>>
        /\ worker' = "copying" => left' = Head(queue).pages
    BY <1>4 DEF Look
  <2> QED BY <2>1 DEF CopyInv
<1>5. CASE CopyPage
  <2>1. PICK p \in left : /\ left' = left \ {p}
                          /\ baseline' = IF Head(queue).of = captures
                                         THEN [baseline EXCEPT ![p] = Head(queue).slot] ELSE baseline
    BY <1>5 DEF CopyPage
  <2>2. UNCHANGED <<captures, overtaken, queue, worker>> /\ worker = "copying"
    BY <1>5 DEF CopyPage
  <2>3. queue # <<>> /\ Head(queue) = queue[1] /\ 1 \in 1..Len(queue) /\ Head(queue).pages \subseteq Pages
    BY <2>2, OldestJob DEF TypeInv, Job
  <2>4. ~overtaken => baseline' = [baseline EXCEPT ![p] = Head(queue).slot]
    BY <2>1, <2>3 DEF CopyInv
  <2>5. DOMAIN baseline = Pages
    BY DEF TypeInv
  <2> QED BY <2>1, <2>2, <2>3, <2>4, <2>5 DEF CopyInv
<1>6. CASE Consume
  <2>1. /\ UNCHANGED <<captures, overtaken>> /\ queue' = Tail(queue) /\ worker' = "returning"
        /\ queue # <<>>
    BY <1>6 DEF Consume, TypeInv
  <2>2. \A i \in 1..Len(queue') : i + 1 \in 1..Len(queue) /\ queue'[i] = queue[i + 1]
    <3>1. /\ Len(Tail(queue)) = Len(queue) - 1 /\ Len(queue) \in Nat
          /\ \A i \in 1..(Len(queue) - 1) : Tail(queue)[i] = queue[i + 1]
      BY <2>1 DEF TypeInv
    <3> QED BY <2>1, <3>1
  <2>3. ~overtaken' => \A i \in 1..Len(queue') : queue'[i].of = captures'
    BY <2>1, <2>2 DEF CopyInv
  <2> QED BY <2>1, <2>3 DEF CopyInv
<1>7. CASE UNCHANGED <<baseline, captures, overtaken, queue>> /\ (worker' = "copying" => UNCHANGED <<worker, left>>)
  BY <1>7 DEF CopyInv
<1>8. \/ SubmitJob \/ FoldInline \/ Recapture \/ Look \/ CopyPage \/ Consume
      \/ UNCHANGED <<baseline, captures, overtaken, queue>> /\ (worker' = "copying" => UNCHANGED <<worker, left>>)
  BY DEF Next, Main, Worker, vars, SaveReusesSlot, QueueFull, QueueDrained, RollbackDrain,
         RollbackDone, Toggle, Wake, PushReturn, Report
<1> QED BY <1>1, <1>2, <1>3, <1>4, <1>5, <1>6, <1>7, <1>8

LEMMA StepRefines ==
  ASSUME RefineInv, [Next]_vars
  PROVE  overtaken' \/ Abstract!Next \/ UNCHANGED (Abstract!vars)
<1> SUFFICES ASSUME ~overtaken' PROVE Abstract!Next \/ UNCHANGED (Abstract!vars)
  OBVIOUS
<1> USE DEF RefineInv, workerVars
<1>0. UNCHANGED <<Logical, folded, dirty, Folding>> => UNCHANGED (Abstract!vars)
  BY DEF Abstract!vars
<1>1. CASE SaveReusesSlot
  <2>1. /\ ~Folding /\ Folding' /\ folded < MaxSlots /\ folded' = folded + 1
        /\ dirty' \in SUBSET Pages /\ UNCHANGED <<baseline, queue>>
    BY <1>1 DEF SaveReusesSlot, Folding
  <2>2. Logical' = Logical
    BY <2>1, LogicalSame
  <2>3. Abstract!Reuse
    BY <2>1, <2>2 DEF Abstract!Reuse
  <2> QED BY <2>3 DEF Abstract!Next
<1>2. CASE SubmitJob
  <2>1. PICK j \in Job : j.slot = folded /\ j.pages = dirty /\ queue' = Append(queue, j)
    BY <1>2, SubmittedJob
  <2>2. Folding /\ ~Folding' /\ dirty' = {} /\ UNCHANGED <<baseline, folded>>
    BY <1>2 DEF SubmitJob, Folding
  <2>3. Logical' = [p \in Pages |-> IF p \in dirty THEN folded ELSE Logical[p]]
    BY <2>1, <2>2, LogicalAppended
  <2>4. Abstract!Fold
    BY <2>2, <2>3 DEF Abstract!Fold
  <2> QED BY <2>4 DEF Abstract!Next
<1>3. CASE FoldInline
  <2>1. /\ Folding /\ ~Folding' /\ dirty' = {} /\ UNCHANGED <<queue, folded>>
        /\ baseline' = [p \in Pages |-> IF p \in dirty THEN folded ELSE baseline[p]]
        /\ \A p \in dirty : Pending(p) = {}
    BY <1>3 DEF FoldInline, Folding
  <2>2. \A p \in Pages : Pending(p)' = Pending(p)
    BY <2>1 DEF Pending
  <2>3. Logical' = [p \in Pages |-> IF p \in dirty THEN folded ELSE Logical[p]]
    BY <2>1, <2>2 DEF Logical
  <2>4. Abstract!Fold
    BY <2>1, <2>3 DEF Abstract!Fold
  <2> QED BY <2>4 DEF Abstract!Next
<1>4. CASE Recapture
  <2>1. /\ ~Folding /\ Folding' = Folding /\ queue = <<>> /\ queue' = <<>>
        /\ baseline' = [p \in Pages |-> folded]
        /\ UNCHANGED <<folded, dirty>>
    BY <1>4 DEF Recapture, Folding
  <2>2. Logical' = [p \in Pages |-> folded]
    BY <2>1 DEF Logical, Pending
  <2>3. Abstract!Capture
    BY <2>1, <2>2 DEF Abstract!Capture
  <2> QED BY <2>3 DEF Abstract!Next
<1>5. CASE CopyPage
  <2>1. /\ UNCHANGED <<queue, folded, dirty, Folding>> /\ worker = "copying" /\ queue # <<>>
    BY <1>5 DEF CopyPage, Folding, TypeInv
  <2>2. Head(queue) = queue[1] /\ 1 \in DOMAIN queue /\ left \subseteq Head(queue).pages
    BY <2>1, OldestJob DEF TypeInv
  <2>3. \A p \in Pages : Pending(p) = {} => baseline'[p] = baseline[p]
    <3>1. \A p \in left : Pending(p) # {}
      BY <2>2 DEF Pending
    <3> QED BY <3>1, <1>5 DEF CopyPage, TypeInv
  <2> QED BY <1>0, <2>1, <2>3, LogicalSame
<1>6. CASE Consume
  <2>1. /\ UNCHANGED <<baseline, folded, dirty, Folding, overtaken>> /\ worker = "copying" /\ left = {}
        /\ queue # <<>> /\ queue' = Tail(queue)
    BY <1>6 DEF Consume, Folding, TypeInv
  <2>2. \A p \in Head(queue).pages : baseline[p] = Head(queue).slot
    BY <2>1 DEF CopyInv
  <2> QED BY <1>0, <2>1, <2>2, LogicalConsumed
<1>7. CASE UNCHANGED <<baseline, queue, folded, dirty, Folding>>
  BY <1>0, <1>7, LogicalSame
<1>8. \/ SaveReusesSlot \/ SubmitJob \/ FoldInline \/ Recapture \/ CopyPage \/ Consume
      \/ UNCHANGED <<baseline, queue, folded, dirty, Folding>>
  BY DEF Next, Main, Worker, vars, QueueFull, QueueDrained, RollbackDrain, RollbackDone, Loading,
         Toggle, Wake, Look, PushReturn, Report, Folding
<1> QED BY <1>1, <1>2, <1>3, <1>4, <1>5, <1>6, <1>7, <1>8

(* Deferring the copies changes nothing but their time: until something is  *)
(* folded inline, or captured anew, over a copy still in the queue, every   *)
(* step of the two threads is a step of BaselineFold or none (save, fold_   *)
(* worker).                                                                 *)
THEOREM DeferredFoldImplements == Spec => ImplementsFold
<1>1. Init => RefineInv
  BY InitTyped, InitCopied DEF RefineInv
<1>2. RefineInv /\ [Next]_vars => RefineInv'
  BY StepTyped, StepCopied DEF RefineInv
<1>3. RefineInv /\ [Next]_vars => [overtaken' \/ Abstract!Next]_(Abstract!vars)
  BY StepRefines
<1> QED BY <1>1, <1>2, <1>3, PTL DEF Spec, ImplementsFold

=============================================================================
