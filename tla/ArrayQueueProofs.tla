-------------------------- MODULE ArrayQueueProofs --------------------------
(***************************************************************************)
(* Proofs about ArrayQueue for any number of threads, any capacity, any    *)
(* values and any bound on the laps; last, that it implements BoundedQueue *)
(* under the mapping of MCArrayQueue.                                      *)
(***************************************************************************)
EXTENDS MCArrayQueue, SequenceTheorems, TLAPS

USE CapacityAssumption, MaxLapAssumption, NullAssumption

-----------------------------------------------------------------------------
(* Positions.                                                              *)

\* The next position is a position, strictly after p, and the claim it makes
\* counts one lap more for slot p.index and nothing for any other slot.
LEMMA NextPositionFacts ==
  ASSUME NEW p \in Position
  PROVE  /\ NextPosition(p) \in Position
         /\ Leq(p, NextPosition(p))
         /\ NextPosition(p) # p
         /\ \A i \in Slots :
              LET q == NextPosition(p) IN
              (IF i < q.index THEN q.lap + 1 ELSE q.lap) =
                IF i = p.index THEN p.lap + 1
                ELSE IF i < p.index THEN p.lap + 1 ELSE p.lap
  BY DEF NextPosition, PlusOne, Position, Slots, Leq

LEMMA StampArithmetic ==
  ASSUME NEW p \in Position
  PROVE  PlusOne(p) \in Stamp /\ PlusLap(p) \in Position /\ PlusLap(p) \in Stamp /\ p \in Stamp
  BY DEF PlusOne, PlusLap, Position, Stamp, Slots

LEMMA LeqReflexive == \A p \in Stamp : Leq(p, p)
  BY DEF Leq, Stamp

LEMMA LeqAntisymmetric ==
  ASSUME NEW p \in Position, NEW q \in Position, Leq(p, q), Leq(q, p)
  PROVE  p = q
  BY DEF Leq, Position, Slots

LEMMA LeqTransitive ==
  ASSUME NEW p \in Stamp, NEW q \in Stamp, NEW r \in Stamp, Leq(p, q), Leq(q, r)
  PROVE  Leq(p, r)
  BY DEF Leq, Stamp, Slots

-----------------------------------------------------------------------------
(* Type correctness.                                                       *)

\* Every step keeps the fields and the locals within their types.
LEMMA TypeStep == TypeOK /\ [Next]_vars => TypeOK'
<1> SUFFICES ASSUME TypeOK, [Next]_vars PROVE TypeOK'
  OBVIOUS
<1> USE StampArithmetic, NextPositionFacts DEF TypeOK, Goto, Answer, queue, PCs
<1>1. ASSUME NEW t \in Threads, Start(t) PROVE TypeOK'
  BY <1>1 DEF Start, StartPush, StartPop, StartQuery
<1>2. ASSUME NEW t \in Threads, PushStep(t) PROVE TypeOK'
  <2>1. CASE PushLoadTail(t)   BY <2>1 DEF PushLoadTail
  <2>2. CASE PushLoadStamp(t)  BY <2>2 DEF PushLoadStamp
  <2>3. CASE PushClaim(t)      BY <2>3 DEF PushClaim
  <2>4. CASE PushClaimFails(t) BY <2>4 DEF PushClaimFails
  <2>5. CASE PushWrite(t)      BY <2>5 DEF PushWrite
  <2>6. CASE PushPublish(t)    BY <2>6 DEF PushPublish
  <2>7. CASE PushIsFull(t)     BY <2>7 DEF PushIsFull
  <2>8. CASE PushNotFull(t)    BY <2>8 DEF PushNotFull
  <2> QED BY <1>2, <2>1, <2>2, <2>3, <2>4, <2>5, <2>6, <2>7, <2>8 DEF PushStep
<1>3. ASSUME NEW t \in Threads, PopStep(t) PROVE TypeOK'
  <2>1. CASE PopLoadHead(t)   BY <2>1 DEF PopLoadHead
  <2>2. CASE PopLoadStamp(t)  BY <2>2 DEF PopLoadStamp
  <2>3. CASE PopClaim(t)      BY <2>3 DEF PopClaim
  <2>4. CASE PopClaimFails(t) BY <2>4 DEF PopClaimFails
  <2>5. CASE PopRead(t)       BY <2>5 DEF PopRead, Position
  <2>6. CASE PopRelease(t)    BY <2>6 DEF PopRelease
  <2>7. CASE PopIsEmpty(t)    BY <2>7 DEF PopIsEmpty
  <2>8. CASE PopNotEmpty(t)   BY <2>8 DEF PopNotEmpty
  <2> QED BY <1>3, <2>1, <2>2, <2>3, <2>4, <2>5, <2>6, <2>7, <2>8 DEF PopStep
<1>4. ASSUME NEW t \in Threads, QueryStep(t) PROVE TypeOK'
  <2>1. CASE EmptyLoadHead(t) \/ EmptyLoadTail(t)
    BY <2>1 DEF EmptyLoadHead, EmptyLoadTail
  <2>2. CASE FullLoadTail(t) \/ FullLoadHead(t)
    BY <2>2 DEF FullLoadTail, FullLoadHead
  <2>3. CASE SizeLoadTail(t) \/ SizeLoadHead(t)
    BY <2>3 DEF SizeLoadTail, SizeLoadHead
  <2>4. CASE SizeDone(t) \/ SizeRetry(t)
    BY <2>4 DEF SizeDone, SizeRetry
  <2> QED BY <1>4, <2>1, <2>2, <2>3, <2>4 DEF QueryStep
<1>5. ASSUME NEW t \in Threads, Return(t) PROVE TypeOK'
  BY <1>5 DEF Return, Origin, Position, Slots
<1>6. CASE UNCHANGED vars
  BY <1>6 DEF vars
<1> QED BY <1>1, <1>2, <1>3, <1>4, <1>5, <1>6 DEF Next, Step

THEOREM TypeCorrect == Spec => []TypeOK
<1>1. Init => TypeOK
  BY DEF Init, TypeOK, Origin, Position, Stamp, Slots, PCs
<1> QED BY <1>1, TypeStep, PTL DEF Spec

-----------------------------------------------------------------------------
(* The inductive invariant.                                                *)

LEMMA InitInv == Init => IInv
  BY DEF Init, IInv, TypeOK, ClaimsAlternate, StampCountsClaims, OneOwner, ThreadInv,
         OwnerHoldsSlot, StampSeen, LoadedBehind, SizeHeadFits, Writing, Reading,
         TailLap, HeadLap, Origin, Position, Stamp, Slots, PCs

\* A step of t that changes no field of the queue and leaves t outside of a slot
\* needs only be looked at for t.
LEMMA QuietStep ==
  ASSUME IInv, TypeOK', NEW t \in Threads, UNCHANGED queue,
         \A u \in Threads \ {t} :
           pc'[u] = pc[u] /\ pos'[u] = pos[u] /\ other'[u] = other[u],
         ~Writing(t)', ~Reading(t)',
         StampSeen(t)', LoadedBehind(t)', SizeHeadFits(t)'
  PROVE  IInv'
<1> USE DEF queue
<1>1. ClaimsAlternate' /\ StampCountsClaims'
  BY DEF IInv, ClaimsAlternate, StampCountsClaims, TailLap, HeadLap
<1>2. \A u \in Threads \ {t} : ThreadInv(u)'
  BY DEF IInv, ThreadInv, OwnerHoldsSlot, StampSeen, LoadedBehind, SizeHeadFits,
         Writing, Reading, TailLap, HeadLap
<1>3. ThreadInv(t)'
  BY DEF ThreadInv, OwnerHoldsSlot
<1>4. OneOwner'
  BY DEF IInv, OneOwner, Writing, Reading
<1> QED BY <1>1, <1>2, <1>3, <1>4 DEF IInv

\* The alternation of the claims at the slots of head and tail bounds the tail.
LEMMA BoundsOfTail == IInv => TailWithinLap
<1> SUFFICES ASSUME IInv PROVE TailWithinLap
  OBVIOUS
<1>1. head.index \in Slots /\ tail.index \in Slots /\ head.lap \in Nat /\ tail.lap \in Nat
  BY DEF IInv, TypeOK, Position
<1>2. \A i \in {head.index, tail.index} :
        HeadLap(i) <= TailLap(i) /\ TailLap(i) <= HeadLap(i) + 1
  BY <1>1 DEF IInv, ClaimsAlternate
<1> QED BY <1>1, <1>2 DEF HeadLap, TailLap, TailWithinLap, Leq, PlusLap, Slots

\* The calls begin and end, the loads and the refusals.
LEMMA QuietActions ==
  ASSUME IInv, TypeOK', NEW t \in Threads,
         \/ Start(t) \/ Return(t) \/ QueryStep(t)
         \/ PushLoadTail(t) \/ PushLoadStamp(t) \/ PushClaimFails(t)
         \/ PushIsFull(t) \/ PushNotFull(t)
         \/ PopLoadHead(t) \/ PopLoadStamp(t) \/ PopClaimFails(t)
         \/ PopIsEmpty(t) \/ PopNotEmpty(t)
  PROVE  IInv'
<1> DEFINE Frame == /\ UNCHANGED queue
                    /\ \A u \in Threads \ {t} :
                         pc'[u] = pc[u] /\ pos'[u] = pos[u] /\ other'[u] = other[u]
           Local == /\ ~Writing(t)' /\ ~Reading(t)'
                    /\ StampSeen(t)' /\ LoadedBehind(t)' /\ SizeHeadFits(t)'
<1> SUFFICES Frame /\ Local
  BY QuietStep
<1> USE DEF IInv, TypeOK, ThreadInv, Goto, Answer, queue, Writing, Reading,
            StampSeen, LoadedBehind, SizeHeadFits
<1>0. Leq(head, head) /\ Leq(tail, tail)
  BY LeqReflexive, StampArithmetic
<1>1. CASE Start(t)
  BY <1>1 DEF Start, StartPush, StartPop, StartQuery
<1>2. CASE Return(t)
  BY <1>2 DEF Return
<1>3. CASE PushLoadTail(t) \/ PopLoadHead(t) \/ PushClaimFails(t) \/ PopClaimFails(t)
  BY <1>3, <1>0 DEF PushLoadTail, PopLoadHead, PushClaimFails, PopClaimFails
<1>4. CASE PushLoadStamp(t) \/ PopLoadStamp(t)
  BY <1>4 DEF PushLoadStamp, PopLoadStamp, Leq, Position, PlusOne, Slots
<1>5. CASE PushIsFull(t) \/ PushNotFull(t) \/ PopIsEmpty(t) \/ PopNotEmpty(t)
  BY <1>5 DEF PushIsFull, PushNotFull, PopIsEmpty, PopNotEmpty
<1>6. CASE QueryStep(t)
  <2>1. CASE EmptyLoadHead(t) \/ EmptyLoadTail(t) \/ FullLoadTail(t) \/ FullLoadHead(t)
    BY <2>1, <1>0 DEF EmptyLoadHead, EmptyLoadTail, FullLoadTail, FullLoadHead
  <2>2. CASE SizeLoadTail(t) \/ SizeDone(t) \/ SizeRetry(t)
    BY <2>2, <1>0 DEF SizeLoadTail, SizeDone, SizeRetry
  <2>3. CASE SizeLoadHead(t)
    <3>1. TailWithinLap
      BY BoundsOfTail
    <3> QED BY <2>3, <3>1 DEF SizeLoadHead, TailWithinLap
  <2> QED BY <1>6, <2>1, <2>2, <2>3 DEF QueryStep
<1> QED BY <1>1, <1>2, <1>3, <1>4, <1>5, <1>6

\* A push that succeeds in its exchange becomes the owner of the slot.
LEMMA PushClaimStep ==
  ASSUME IInv, TypeOK', NEW t \in Threads, PushClaim(t)
  PROVE  IInv'
<1> DEFINE p == pos[t]
           i == p.index
<1> USE DEF Writing, Reading
<1>1. /\ p \in Position /\ i \in Slots /\ stamp[i] \in Stamp
      /\ tail = p /\ tail' = NextPosition(p)
      /\ pc[t] = "push_cas" /\ pc' = [pc EXCEPT ![t] = "push_write"]
      /\ UNCHANGED <<head, stamp, value, pos, other, arg, res>>
  BY DEF PushClaim, Goto, IInv, TypeOK, Position
<1>2. /\ TailLap(i) = p.lap
      /\ \A j \in Slots : TailLap(j)' = IF j = i THEN p.lap + 1 ELSE TailLap(j)
      /\ \A j \in Slots : HeadLap(j)' = HeadLap(j) /\ HeadLap(j) \in Nat /\ TailLap(j) \in Nat
  BY <1>1, NextPositionFacts DEF TailLap, HeadLap, IInv, TypeOK, Position, Slots
<1>3. stamp[i] = p /\ HeadLap(i) = p.lap
  BY <1>1, <1>2 DEF IInv, ThreadInv, StampSeen, StampCountsClaims, ClaimsAlternate,
                    Leq, Stamp, Position, Slots
<1>4. \A u \in Threads : (Writing(u) \/ Reading(u)) => pos[u].index # i
  <2> SUFFICES ASSUME NEW u \in Threads, Writing(u) \/ Reading(u), pos[u].index = i
                PROVE  FALSE
    OBVIOUS
  <2>1. CASE Writing(u)
    <3>1. stamp[i] = pos[u] /\ TailLap(i) = pos[u].lap + 1
      BY <2>1 DEF IInv, ThreadInv, OwnerHoldsSlot
    <3> QED BY <1>1, <1>2, <1>3, <3>1 DEF Position
  <2>2. CASE Reading(u)
    <3>1. stamp[i] = PlusOne(pos[u])
      BY <2>2 DEF IInv, ThreadInv, OwnerHoldsSlot
    <3> QED BY <1>1, <1>3, <3>1 DEF PlusOne, Position, Slots
  <2> QED BY <2>1, <2>2
<1>5. ClaimsAlternate' /\ StampCountsClaims'
  BY <1>1, <1>2, <1>3 DEF IInv, ClaimsAlternate, StampCountsClaims, Position, Slots
<1>6. OneOwner'
  BY <1>1, <1>4 DEF IInv, OneOwner, TypeOK
<1>7. ASSUME NEW u \in Threads PROVE ThreadInv(u)'
  <2>1. OwnerHoldsSlot(u)'
    BY <1>1, <1>2, <1>3, <1>4 DEF IInv, ThreadInv, OwnerHoldsSlot, TypeOK, Position
  <2>2. StampSeen(u)'
    BY <1>1 DEF IInv, ThreadInv, StampSeen, TypeOK
  <2>3. Leq(tail, tail') /\ tail' # tail /\ tail' \in Position
    BY <1>1, NextPositionFacts
  <2>4. LoadedBehind(u)'
    <3>1. \A q \in Position : Leq(q, tail) => Leq(q, tail')
      BY <1>1, <2>3, LeqTransitive, StampArithmetic DEF IInv, TypeOK
    <3> QED BY <1>1, <3>1 DEF IInv, ThreadInv, LoadedBehind, TypeOK
  <2>5. SizeHeadFits(u)'
    BY <1>1, <2>3 DEF IInv, ThreadInv, LoadedBehind, SizeHeadFits, TypeOK, Leq, Position, Slots
  <2> QED BY <2>1, <2>2, <2>4, <2>5 DEF ThreadInv
<1> QED BY <1>5, <1>6, <1>7 DEF IInv

\* The owner's plain write to the slot is invisible to the invariant.
LEMMA PushWriteStep ==
  ASSUME IInv, TypeOK', NEW t \in Threads, PushWrite(t)
  PROVE  IInv'
<1> USE DEF Writing, Reading
<1>1. /\ pc[t] = "push_write" /\ pc' = [pc EXCEPT ![t] = "push_publish"]
      /\ UNCHANGED <<head, tail, stamp, pos, other>>
  BY DEF PushWrite, Goto
<1>2. ClaimsAlternate' /\ StampCountsClaims'
  BY <1>1 DEF IInv, ClaimsAlternate, StampCountsClaims, HeadLap, TailLap
<1>3. \A u \in Threads : Writing(u)' = Writing(u) /\ Reading(u)' = Reading(u)
  BY <1>1 DEF IInv, TypeOK
<1>4. OneOwner'
  BY <1>1, <1>3 DEF IInv, OneOwner
<1>5. ASSUME NEW u \in Threads PROVE ThreadInv(u)'
  BY <1>1, <1>3 DEF IInv, TypeOK, ThreadInv, OwnerHoldsSlot, StampSeen, LoadedBehind,
                    SizeHeadFits, HeadLap, TailLap
<1> QED BY <1>2, <1>4, <1>5 DEF IInv

\* The push hands the slot over to the pop of the same lap.
LEMMA PushPublishStep ==
  ASSUME IInv, TypeOK', NEW t \in Threads, PushPublish(t)
  PROVE  IInv'
<1> DEFINE p == pos[t]
           i == p.index
<1> USE DEF Writing, Reading
<1>1. /\ p \in Position /\ i \in Slots /\ p.lap \in Nat
      /\ pc[t] = "push_publish" /\ pc' = [pc EXCEPT ![t] = "push_ret"]
      /\ stamp' = [stamp EXCEPT ![i] = PlusOne(p)]
      /\ UNCHANGED <<head, tail, value, pos, other, arg>>
  BY DEF PushPublish, Answer, Goto, IInv, TypeOK, Position
<1>2. stamp[i] = p /\ TailLap(i) = p.lap + 1
  BY <1>1 DEF IInv, ThreadInv, OwnerHoldsSlot
<1>3. /\ ClaimsAlternate'
      /\ \A j \in Slots : TailLap(j)' = TailLap(j) /\ HeadLap(j)' = HeadLap(j)
  BY <1>1 DEF IInv, ClaimsAlternate, HeadLap, TailLap
<1>4. StampCountsClaims'
  <2>1. stamp'[i].index = i + 1 /\ stamp'[i].lap = p.lap
    BY <1>1 DEF IInv, TypeOK, PlusOne
  <2>2. \A j \in Slots \ {i} : stamp'[j] = stamp[j]
    BY <1>1 DEF IInv, TypeOK
  <2>3. ASSUME NEW j \in Slots
        PROVE  \/ stamp'[j].index = j     /\ stamp'[j].lap = HeadLap(j)'
               \/ stamp'[j].index = j + 1 /\ stamp'[j].lap = TailLap(j)' - 1
    <3>1. CASE j = i
      BY <1>1, <1>2, <1>3, <2>1, <3>1
    <3>2. CASE j # i
      BY <1>3, <2>2, <3>2 DEF IInv, StampCountsClaims
    <3> QED BY <3>1, <3>2
  <2> QED BY <2>3 DEF StampCountsClaims
<1>5. OneOwner'
  BY <1>1 DEF IInv, TypeOK, OneOwner
<1>6. ASSUME NEW u \in Threads PROVE ThreadInv(u)'
  <2>1. OwnerHoldsSlot(u)'
    <3>1. CASE u = t
      BY <1>1, <3>1 DEF OwnerHoldsSlot, IInv, TypeOK
    <3>2. CASE u # t
      <4>1. Writing(u)' = Writing(u) /\ Reading(u)' = Reading(u)
        BY <1>1, <3>2 DEF IInv, TypeOK
      <4>2. Writing(u) \/ Reading(u) => pos[u].index # i
        BY <1>1, <3>2 DEF IInv, OneOwner
      <4>3. pos[u].index \in Slots
        BY DEF IInv, TypeOK, Position
      <4> QED BY <1>1, <1>3, <4>1, <4>2, <4>3 DEF IInv, TypeOK, ThreadInv, OwnerHoldsSlot
    <3> QED BY <3>1, <3>2
  <2>2. StampSeen(u)'
    <3>1. \A s \in Stamp : Leq(s, p) => Leq(s, PlusOne(p))
      BY <1>1 DEF Leq, PlusOne, Stamp, Position, Slots
    <3>2. /\ pos[u] \in Position /\ pos[u] \in Stamp /\ PlusOne(pos[u]) \in Stamp
          /\ pos[u].index \in Slots
      BY StampArithmetic DEF IInv, TypeOK, Position
    <3> QED BY <1>1, <1>2, <3>1, <3>2 DEF IInv, TypeOK, ThreadInv, StampSeen
  <2>3. LoadedBehind(u)' /\ SizeHeadFits(u)'
    BY <1>1 DEF IInv, TypeOK, ThreadInv, LoadedBehind, SizeHeadFits
  <2> QED BY <2>1, <2>2, <2>3 DEF ThreadInv
<1> QED BY <1>3, <1>4, <1>5, <1>6 DEF IInv

\* The slot that a pop claims is published: the head it expects has not moved.
LEMMA PublishedForPop ==
  ASSUME IInv, NEW t \in Threads, pc[t] = "pop_cas", pos[t] = head
  PROVE  stamp[head.index] = PlusOne(head) /\ TailLap(head.index) = head.lap + 1
<1> DEFINE i == head.index
<1>1. /\ head \in Position /\ i \in Slots /\ head.lap \in Nat /\ stamp[i] \in Stamp
      /\ HeadLap(i) = head.lap /\ TailLap(i) \in Nat
  BY DEF IInv, TypeOK, Position, HeadLap, TailLap, Slots
<1>2. Leq(PlusOne(head), stamp[i])
  BY DEF IInv, ThreadInv, StampSeen
<1>3. /\ TailLap(i) <= head.lap + 1
      /\ \/ stamp[i].index = i     /\ stamp[i].lap = head.lap
         \/ stamp[i].index = i + 1 /\ stamp[i].lap = TailLap(i) - 1
  BY <1>1 DEF IInv, ClaimsAlternate, StampCountsClaims
<1> QED BY <1>1, <1>2, <1>3 DEF Leq, PlusOne, Stamp, Slots

\* A pop that succeeds in its exchange becomes the owner of the slot.
LEMMA PopClaimStep ==
  ASSUME IInv, TypeOK', NEW t \in Threads, PopClaim(t)
  PROVE  IInv'
<1> DEFINE p == pos[t]
           i == p.index
<1> USE DEF Writing, Reading
<1>1. /\ p \in Position /\ i \in Slots /\ p.lap \in Nat /\ stamp[i] \in Stamp
      /\ head = p /\ head' = NextPosition(p)
      /\ pc[t] = "pop_cas" /\ pc' = [pc EXCEPT ![t] = "pop_read"]
      /\ UNCHANGED <<tail, stamp, value, pos, other, arg, res>>
  BY DEF PopClaim, Goto, IInv, TypeOK, Position
<1>2. /\ HeadLap(i) = p.lap
      /\ \A j \in Slots : HeadLap(j)' = IF j = i THEN p.lap + 1 ELSE HeadLap(j)
      /\ \A j \in Slots : TailLap(j)' = TailLap(j) /\ HeadLap(j) \in Nat /\ TailLap(j) \in Nat
  BY <1>1, NextPositionFacts DEF TailLap, HeadLap, IInv, TypeOK, Position, Slots
<1>3. stamp[i] = PlusOne(p) /\ TailLap(i) = p.lap + 1
  BY <1>1, PublishedForPop
<1>4. \A u \in Threads : (Writing(u) \/ Reading(u)) => pos[u].index # i
  <2> SUFFICES ASSUME NEW u \in Threads, Writing(u) \/ Reading(u), pos[u].index = i
                PROVE  FALSE
    OBVIOUS
  <2>0. pos[u] \in Position
    BY DEF IInv, TypeOK
  <2>1. CASE Writing(u)
    <3>1. stamp[i] = pos[u]
      BY <2>1 DEF IInv, ThreadInv, OwnerHoldsSlot
    <3> QED BY <1>1, <1>3, <3>1 DEF Position, PlusOne, Slots
  <2>2. CASE Reading(u)
    <3>1. stamp[i] = PlusOne(pos[u]) /\ HeadLap(i) = pos[u].lap + 1
      BY <2>2 DEF IInv, ThreadInv, OwnerHoldsSlot
    <3> QED BY <1>1, <1>2, <1>3, <2>0, <3>1 DEF PlusOne, Position
  <2> QED BY <2>1, <2>2
<1>5. ClaimsAlternate' /\ StampCountsClaims'
  BY <1>1, <1>2, <1>3 DEF IInv, ClaimsAlternate, StampCountsClaims, PlusOne, Position, Slots
<1>6. OneOwner'
  BY <1>1, <1>4 DEF IInv, OneOwner, TypeOK
<1>7. ASSUME NEW u \in Threads PROVE ThreadInv(u)'
  <2>1. OwnerHoldsSlot(u)'
    BY <1>1, <1>2, <1>3, <1>4 DEF IInv, ThreadInv, OwnerHoldsSlot, TypeOK, Position
  <2>2. StampSeen(u)' /\ SizeHeadFits(u)'
    BY <1>1 DEF IInv, ThreadInv, StampSeen, SizeHeadFits, TypeOK
  <2>3. \A q \in Position : Leq(q, head) => Leq(q, head')
    BY <1>1, NextPositionFacts, LeqTransitive, StampArithmetic DEF IInv, TypeOK
  <2>4. LoadedBehind(u)'
    BY <1>1, <2>3 DEF IInv, ThreadInv, LoadedBehind, TypeOK
  <2> QED BY <2>1, <2>2, <2>4 DEF ThreadInv
<1> QED BY <1>5, <1>6, <1>7 DEF IInv

\* The owner's plain read is invisible to the invariant.
LEMMA PopReadStep ==
  ASSUME IInv, TypeOK', NEW t \in Threads, PopRead(t)
  PROVE  IInv'
<1> USE DEF Writing, Reading
<1>1. /\ pc[t] = "pop_read" /\ pc' = [pc EXCEPT ![t] = "pop_release"]
      /\ UNCHANGED <<head, tail, stamp, pos, other>>
  BY DEF PopRead, Goto, queue
<1>2. ClaimsAlternate' /\ StampCountsClaims'
  BY <1>1 DEF IInv, ClaimsAlternate, StampCountsClaims, HeadLap, TailLap
<1>3. \A u \in Threads : Writing(u)' = Writing(u) /\ Reading(u)' = Reading(u)
  BY <1>1 DEF IInv, TypeOK
<1>4. OneOwner'
  BY <1>1, <1>3 DEF IInv, OneOwner
<1>5. ASSUME NEW u \in Threads PROVE ThreadInv(u)'
  BY <1>1, <1>3 DEF IInv, TypeOK, ThreadInv, OwnerHoldsSlot, StampSeen, LoadedBehind,
                    SizeHeadFits, HeadLap, TailLap
<1> QED BY <1>2, <1>4, <1>5 DEF IInv

\* The pop hands the slot over to the push of the next lap.
LEMMA PopReleaseStep ==
  ASSUME IInv, TypeOK', NEW t \in Threads, PopRelease(t)
  PROVE  IInv'
<1> DEFINE p == pos[t]
           i == p.index
<1> USE DEF Writing, Reading
<1>1. /\ p \in Position /\ i \in Slots /\ p.lap \in Nat
      /\ pc[t] = "pop_release" /\ pc' = [pc EXCEPT ![t] = "pop_ret"]
      /\ stamp' = [stamp EXCEPT ![i] = PlusLap(p)]
      /\ UNCHANGED <<head, tail, value, pos, other, arg>>
  BY DEF PopRelease, Answer, Goto, IInv, TypeOK, Position
<1>2. stamp[i] = PlusOne(p) /\ HeadLap(i) = p.lap + 1
  BY <1>1 DEF IInv, ThreadInv, OwnerHoldsSlot
<1>3. /\ ClaimsAlternate'
      /\ \A j \in Slots : TailLap(j)' = TailLap(j) /\ HeadLap(j)' = HeadLap(j)
  BY <1>1 DEF IInv, ClaimsAlternate, HeadLap, TailLap
<1>4. StampCountsClaims'
  BY <1>1, <1>2, <1>3 DEF IInv, TypeOK, StampCountsClaims, PlusLap, Position, Slots
<1>5. OneOwner'
  BY <1>1 DEF IInv, TypeOK, OneOwner
<1>6. ASSUME NEW u \in Threads PROVE ThreadInv(u)'
  <2>1. OwnerHoldsSlot(u)'
    <3>1. CASE u = t
      BY <1>1, <3>1 DEF OwnerHoldsSlot, IInv, TypeOK
    <3>2. CASE u # t
      <4>1. Writing(u)' = Writing(u) /\ Reading(u)' = Reading(u)
        BY <1>1, <3>2 DEF IInv, TypeOK
      <4>2. Writing(u) \/ Reading(u) => pos[u].index # i
        BY <1>1, <3>2 DEF IInv, OneOwner
      <4>3. pos[u].index \in Slots
        BY DEF IInv, TypeOK, Position
      <4> QED BY <1>1, <1>3, <4>1, <4>2, <4>3 DEF IInv, TypeOK, ThreadInv, OwnerHoldsSlot
    <3> QED BY <3>1, <3>2
  <2>2. StampSeen(u)'
    <3>1. \A s \in Stamp : Leq(s, PlusOne(p)) => Leq(s, PlusLap(p))
      BY <1>1 DEF Leq, PlusOne, PlusLap, Stamp, Position, Slots
    <3>2. /\ pos[u] \in Position /\ pos[u] \in Stamp /\ PlusOne(pos[u]) \in Stamp
          /\ pos[u].index \in Slots
      BY StampArithmetic DEF IInv, TypeOK, Position
    <3> QED BY <1>1, <1>2, <3>1, <3>2 DEF IInv, TypeOK, ThreadInv, StampSeen
  <2>3. LoadedBehind(u)' /\ SizeHeadFits(u)'
    BY <1>1 DEF IInv, TypeOK, ThreadInv, LoadedBehind, SizeHeadFits
  <2> QED BY <2>1, <2>2, <2>3 DEF ThreadInv
<1> QED BY <1>3, <1>4, <1>5, <1>6 DEF IInv

\* The invariant is inductive.
LEMMA InvStep == IInv /\ [Next]_vars => IInv'
<1> SUFFICES ASSUME IInv, [Next]_vars PROVE IInv'
  OBVIOUS
<1>1. TypeOK'
  BY TypeStep DEF IInv
<1>2. CASE UNCHANGED vars
  BY <1>2 DEF vars, IInv, TypeOK, ClaimsAlternate, StampCountsClaims, OneOwner, ThreadInv,
              OwnerHoldsSlot, StampSeen, LoadedBehind, SizeHeadFits, Writing, Reading,
              TailLap, HeadLap
<1>3. ASSUME NEW t \in Threads, Start(t) \/ Step(t) PROVE IInv'
  BY <1>1, <1>3, QuietActions, PushClaimStep, PushWriteStep, PushPublishStep,
     PopClaimStep, PopReadStep, PopReleaseStep
     DEF Step, PushStep, PopStep
<1> QED BY <1>2, <1>3 DEF Next

THEOREM Invariant == Spec => []IInv
  BY InitInv, InvStep, PTL DEF Spec

-----------------------------------------------------------------------------
(* What follows from the invariant.                                        *)

\* slot->value is only ever touched by the one call that owns the slot: the
\* plain accesses of push and pop do not race, with any number of threads.
THEOREM SlotsAreExclusive == Spec => []SlotExclusive
<1>1. IInv => SlotExclusive
  BY DEF IInv, OneOwner, SlotExclusive, Writers, Readers, Writing, Reading
<1> QED BY <1>1, Invariant, PTL

\* The tail stays within one lap of the head.
THEOREM TailStaysWithinLap == Spec => []TailWithinLap
  BY BoundsOfTail, Invariant, PTL

\* size() answers the number of elements the queue held when the head was loaded.
THEOREM SizeAnswersASnapshot == Spec => SizeIsSnapshot
<1> DEFINE Snapshot ==
      \A t \in Threads :
        SizeDone(t) =>
          SizeOf(other[t], pos[t]) =
            (pos[t].lap - other[t].lap) * Capacity + pos[t].index - other[t].index
<1>1. IInv => Snapshot
  <2> SUFFICES ASSUME IInv, NEW t \in Threads, SizeDone(t)
               PROVE  SizeOf(other[t], pos[t]) =
                        (pos[t].lap - other[t].lap) * Capacity + pos[t].index - other[t].index
    OBVIOUS
  <2> DEFINE h == other[t]
             p == pos[t]
  <2>1. h \in Position /\ p \in Position /\ Leq(h, p) /\ Leq(p, PlusLap(h))
    BY DEF SizeDone, Goto, IInv, TypeOK, ThreadInv, SizeHeadFits
  <2>2. /\ h.lap \in Nat /\ p.lap \in Nat /\ h.index \in Slots /\ p.index \in Slots
        /\ h.lap = p.lap /\ h.index = p.index => h = p
    BY <2>1 DEF Position
  <2>3. CASE p.lap = h.lap
    <3>1. (p.lap - h.lap) * Capacity = 0
      BY <2>2, <2>3
    <3>2. h.index < p.index \/ h = p
      BY <2>1, <2>2, <2>3 DEF Leq, Slots
    <3> QED BY <2>2, <2>3, <3>1, <3>2 DEF SizeOf, Slots
  <2>4. CASE p.lap = h.lap + 1
    <3>1. (p.lap - h.lap) * Capacity = Capacity
      BY <2>2, <2>4
    <3>2. p.index <= h.index /\ h # p
      BY <2>1, <2>2, <2>4 DEF Leq, PlusLap, Slots
    <3> QED BY <2>2, <3>1, <3>2 DEF SizeOf, Slots
  <2>5. p.lap = h.lap \/ p.lap = h.lap + 1
    BY <2>1, <2>2 DEF Leq, PlusLap
  <2> QED BY <2>3, <2>4, <2>5
<1>2. IInv => [Snapshot]_vars
  BY <1>1
<1> QED BY <1>2, Invariant, PTL DEF SizeIsSnapshot

\* The position a refusal compares was loaded from a word that has not moved away.
LEMMA RefusalFacts ==
  ASSUME IInv, NEW t \in Threads
  PROVE  /\ PushIsFull(t) => IsFull
         /\ PopIsEmpty(t) => IsEmpty
         /\ EmptyLoadTail(t) /\ res'[t] = "true" => IsEmpty
         /\ FullLoadHead(t) /\ res'[t] = "true" => IsFull
<1>1. TailWithinLap
  BY BoundsOfTail
<1>2. /\ head \in Position /\ tail \in Position /\ PlusLap(head) \in Position
      /\ pos[t] \in Position
  BY StampArithmetic DEF IInv, TypeOK
<1>3. ASSUME pc[t] \in {"push_full", "full_head"}, PlusLap(head) = pos[t] PROVE IsFull
  <2>1. Leq(PlusLap(head), tail)
    BY <1>3 DEF IInv, ThreadInv, LoadedBehind
  <2> QED BY <1>1, <1>2, <2>1, LeqAntisymmetric DEF TailWithinLap, IsFull
<1>4. ASSUME pc[t] \in {"pop_empty", "empty_tail"}, tail = pos[t] PROVE IsEmpty
  <2>1. Leq(tail, head)
    BY <1>4 DEF IInv, ThreadInv, LoadedBehind
  <2> QED BY <1>1, <1>2, <2>1, LeqAntisymmetric DEF TailWithinLap, IsEmpty
<1>5. PushIsFull(t) => IsFull
  BY <1>3 DEF PushIsFull, Answer, Goto
<1>6. PopIsEmpty(t) => IsEmpty
  BY <1>4 DEF PopIsEmpty, Answer, Goto
<1>7. EmptyLoadTail(t) /\ res'[t] = "true" => IsEmpty
  BY <1>4 DEF EmptyLoadTail, Answer, Goto, IInv, TypeOK
<1>8. FullLoadHead(t) /\ res'[t] = "true" => IsFull
  BY <1>3 DEF FullLoadHead, Answer, Goto, IInv, TypeOK
<1> QED BY <1>5, <1>6, <1>7, <1>8

\* "Full" and "empty" are answered at an instant when the queue is full or empty.
THEOREM RefusalsAreTrue == Spec => RefusalIsTrue
<1> DEFINE Refusals ==
      \A t \in Threads :
        /\ PushIsFull(t) => IsFull
        /\ PopIsEmpty(t) => IsEmpty
        /\ EmptyLoadTail(t) /\ res'[t] = "true" => IsEmpty
        /\ FullLoadHead(t) /\ res'[t] = "true" => IsFull
<1>1. IInv => Refusals
  BY RefusalFacts
<1>2. IInv => [Refusals]_vars
  BY <1>1
<1> QED BY <1>2, Invariant, PTL DEF RefusalIsTrue
-----------------------------------------------------------------------------
(* Sequences by their elements.                                            *)

\* A function on 1 .. n is a sequence, empty only when n is 0.
LEMMA FunctionIsSequence ==
  ASSUME NEW n \in Nat, NEW s, s = [k \in 1 .. n |-> s[k]]
  PROVE  /\ s \in Seq({s[k] : k \in 1 .. n})
         /\ Len(s) = n
         /\ s = <<>> <=> n = 0
<1>1. s \in [1 .. n -> {s[k] : k \in 1 .. n}]
  OBVIOUS
<1>2. s \in Seq({s[k] : k \in 1 .. n})
  BY <1>1, SeqDef
<1>3. Len(s) = n
  BY <1>1, <1>2, LenProperties
<1> QED BY <1>2, <1>3, EmptySeq

LEMMA AppendByElements ==
  ASSUME NEW n \in Nat, NEW s, s = [k \in 1 .. n |-> s[k]], NEW x
  PROVE  Append(s, x) = [k \in 1 .. n + 1 |-> IF k = n + 1 THEN x ELSE s[k]]
  BY FunctionIsSequence

LEMMA TailByElements ==
  ASSUME NEW n \in Nat \ {0}, NEW s, s = [k \in 1 .. n |-> s[k]]
  PROVE  Head(s) = s[1] /\ Tail(s) = [k \in 1 .. n - 1 |-> s[k + 1]]
  BY FunctionIsSequence

-----------------------------------------------------------------------------
(* The positions from head to tail.                                        *)

\* p has been claimed by a push and by no pop yet.
InWindow(p) == Leq(head, p) /\ Leq(p, tail) /\ p # tail

\* What a tail within one lap of the head makes of Length and Ahead.
LengthInRange == Length \in 0 .. Capacity

AheadInWindow ==
  \A k \in 1 .. Length : Ahead(head, k - 1) \in Position /\ InWindow(Ahead(head, k - 1))

LEMMA WindowPositions == IInv => LengthInRange /\ AheadInWindow
<1> SUFFICES ASSUME IInv PROVE LengthInRange /\ AheadInWindow
  OBVIOUS
<1>1. /\ head.index \in Slots /\ tail.index \in Slots /\ head.lap \in Nat /\ tail.lap \in Nat
      /\ TailWithinLap
  BY BoundsOfTail DEF IInv, TypeOK, Position
<1>2. \/ tail.lap = head.lap /\ head.index <= tail.index
      \/ tail.lap = head.lap + 1 /\ tail.index <= head.index
  BY <1>1 DEF TailWithinLap, Leq, PlusLap
<1>3. Length \in 0 .. Capacity
  BY <1>1, <1>2 DEF Length, Slots
<1>4. ASSUME NEW k \in 1 .. Length
      PROVE  Ahead(head, k - 1) \in Position /\ InWindow(Ahead(head, k - 1))
  BY <1>1, <1>2, <1>3 DEF Length, Slots, Ahead, InWindow, Position, Leq
<1> QED BY <1>3, <1>4 DEF LengthInRange, AheadInWindow

\* The slot of a position in the window has one push more than pops.
LEMMA WindowLaps ==
  ASSUME IInv, NEW p \in Position, InWindow(p)
  PROVE  p.index \in Slots /\ HeadLap(p.index) = p.lap /\ TailLap(p.index) = p.lap + 1
<1>1. /\ head.index \in Slots /\ tail.index \in Slots /\ head.lap \in Nat /\ tail.lap \in Nat
      /\ p.index \in Slots /\ p.lap \in Nat /\ tail \in Position
      /\ TailWithinLap
  BY BoundsOfTail DEF IInv, TypeOK, Position
<1>2. p.lap # tail.lap \/ p.index # tail.index
  BY <1>1 DEF InWindow, Position
<1> QED BY <1>1, <1>2 DEF InWindow, TailWithinLap, Leq, PlusLap, HeadLap, TailLap, Slots

-----------------------------------------------------------------------------
(* The items at those positions.                                           *)

\* Besides the inductive invariant: a slot that is claimed by a push and not yet
\* published has that push, and the push leaves its pointer in the slot.
PusherIsThere ==
  \A i \in Slots :
    stamp[i].index = i /\ TailLap(i) = HeadLap(i) + 1 =>
      \E t \in Threads : Writing(t) /\ pos[t].index = i

ValueIsWritten ==
  \A t \in Threads : pc[t] = "push_publish" => value[pos[t].index] = arg[t]

ItemsInv == IInv /\ PusherIsThere /\ ValueIsWritten

\* The slot a pop is about to release has seen as many pops as pushes.
LEMMA ReleasedIsOutside ==
  ASSUME IInv, NEW t \in Threads, pc[t] = "pop_release"
  PROVE  TailLap(pos[t].index) = HeadLap(pos[t].index)
<1>1. pos[t].index \in Slots /\ pos[t].lap \in Nat /\ tail.lap \in Nat
  BY DEF IInv, TypeOK, Position
<1>2. stamp[pos[t].index] = PlusOne(pos[t]) /\ HeadLap(pos[t].index) = pos[t].lap + 1
  BY DEF IInv, ThreadInv, OwnerHoldsSlot, Reading
<1>3. TailLap(pos[t].index) - 1 = pos[t].lap /\ TailLap(pos[t].index) \in Nat
  BY <1>1, <1>2 DEF IInv, StampCountsClaims, PlusOne, TailLap, Slots
<1> QED BY <1>1, <1>2, <1>3

\* Only the owner of a slot writes to it, and only a push leaves it unpublished.
LEMMA ItemsStep == ItemsInv /\ [Next]_vars => ItemsInv'
<1> SUFFICES ASSUME ItemsInv, [Next]_vars PROVE ItemsInv'
  OBVIOUS
<1>0. IInv /\ IInv' /\ PusherIsThere /\ ValueIsWritten
  BY InvStep DEF ItemsInv
<1>1. TypeOK /\ TypeOK'
  BY <1>0 DEF IInv
<1> USE DEF Writing
<1>2. CASE UNCHANGED vars
  BY <1>0, <1>2 DEF vars, PusherIsThere, ValueIsWritten, ItemsInv, TailLap, HeadLap
<1>3. ASSUME NEW t \in Threads,
             \/ Start(t) \/ Return(t) \/ QueryStep(t)
             \/ PushLoadTail(t) \/ PushLoadStamp(t) \/ PushClaimFails(t)
             \/ PushIsFull(t) \/ PushNotFull(t)
             \/ PopLoadHead(t) \/ PopLoadStamp(t) \/ PopClaimFails(t)
             \/ PopRead(t) \/ PopIsEmpty(t) \/ PopNotEmpty(t)
      PROVE  PusherIsThere' /\ ValueIsWritten'
  <2>1. /\ UNCHANGED queue
        /\ ~Writing(t) /\ ~Writing(t)'
        /\ \A u \in Threads \ {t} : pc'[u] = pc[u] /\ pos'[u] = pos[u] /\ arg'[u] = arg[u]
    <3> USE <1>1 DEF TypeOK, Goto, Answer
    <3>1. CASE Start(t) \/ Return(t)
      BY <3>1 DEF Start, StartPush, StartPop, StartQuery, Return
    <3>2. CASE QueryStep(t)
      BY <3>2 DEF QueryStep, EmptyLoadHead, EmptyLoadTail, FullLoadTail, FullLoadHead,
                  SizeLoadTail, SizeLoadHead, SizeDone, SizeRetry
    <3>3. CASE PushLoadTail(t) \/ PushLoadStamp(t) \/ PushClaimFails(t)
                 \/ PushIsFull(t) \/ PushNotFull(t)
      BY <3>3 DEF PushLoadTail, PushLoadStamp, PushClaimFails, PushIsFull, PushNotFull
    <3>4. CASE PopLoadHead(t) \/ PopLoadStamp(t) \/ PopClaimFails(t)
                 \/ PopRead(t) \/ PopIsEmpty(t) \/ PopNotEmpty(t)
      BY <3>4 DEF PopLoadHead, PopLoadStamp, PopClaimFails, PopRead, PopIsEmpty, PopNotEmpty
    <3> QED BY <1>3, <3>1, <3>2, <3>3, <3>4
  <2>2. PusherIsThere'
    BY <1>0, <2>1 DEF PusherIsThere, queue, TailLap, HeadLap
  <2>3. ValueIsWritten'
    BY <1>0, <2>1 DEF ValueIsWritten, queue
  <2> QED BY <2>2, <2>3
<1>4. ASSUME NEW t \in Threads, PushClaim(t)
      PROVE  PusherIsThere' /\ ValueIsWritten'
  <2>1. /\ tail \in Position /\ pos[t] = tail /\ tail' = NextPosition(tail)
        /\ pc[t] = "push_cas" /\ pc' = [pc EXCEPT ![t] = "push_write"]
        /\ UNCHANGED <<head, stamp, value, pos, other, arg, res>>
    BY <1>1, <1>4 DEF PushClaim, Goto, TypeOK
  <2>2. \A i \in Slots \ {tail.index} : TailLap(i)' = TailLap(i)
    BY <2>1, NextPositionFacts DEF TailLap
  <2>3. \A i \in Slots : HeadLap(i)' = HeadLap(i)
    BY <2>1 DEF HeadLap
  <2>4. Writing(t)' /\ pos'[t].index = tail.index
    BY <1>1, <2>1 DEF TypeOK
  <2>5. \A u \in Threads : Writing(u) => Writing(u)'
    BY <1>1, <2>1 DEF TypeOK
  <2>6. PusherIsThere'
    BY <1>0, <2>1, <2>2, <2>3, <2>4, <2>5 DEF PusherIsThere
  <2>7. ValueIsWritten'
    BY <1>0, <1>1, <2>1 DEF ValueIsWritten, TypeOK
  <2> QED BY <2>6, <2>7
<1>5. ASSUME NEW t \in Threads, PushWrite(t)
      PROVE  PusherIsThere' /\ ValueIsWritten'
  <2>1. /\ pc[t] = "push_write" /\ pc' = [pc EXCEPT ![t] = "push_publish"]
        /\ value' = [value EXCEPT ![pos[t].index] = arg[t]]
        /\ UNCHANGED <<head, tail, stamp, pos, other, arg, res>>
        /\ \A u \in Threads : pos[u].index \in Slots
    BY <1>1, <1>5 DEF PushWrite, Goto, TypeOK, Position
  <2>2. \A u \in Threads : Writing(u)' = Writing(u)
    BY <1>1, <2>1 DEF TypeOK
  <2>3. PusherIsThere'
    BY <1>0, <2>1, <2>2 DEF PusherIsThere, TailLap, HeadLap
  <2>4. \A u \in Threads \ {t} : Writing(u) => pos[u].index # pos[t].index
    BY <1>0, <2>1 DEF IInv, OneOwner
  <2>5. ValueIsWritten'
    BY <1>0, <1>1, <2>1, <2>4 DEF ValueIsWritten, TypeOK
  <2> QED BY <2>3, <2>5
<1>6. ASSUME NEW t \in Threads, PushPublish(t)
      PROVE  PusherIsThere' /\ ValueIsWritten'
  <2>1. /\ pc[t] = "push_publish" /\ pc' = [pc EXCEPT ![t] = "push_ret"]
        /\ stamp' = [stamp EXCEPT ![pos[t].index] = PlusOne(pos[t])]
        /\ UNCHANGED <<head, tail, value, pos, other, arg>>
        /\ \A u \in Threads : pos[u].index \in Slots
    BY <1>1, <1>6 DEF PushPublish, Answer, Goto, TypeOK, Position
  <2>2. \A u \in Threads \ {t} : Writing(u) => Writing(u)'
    BY <1>1, <2>1 DEF TypeOK
  <2>3. stamp'[pos[t].index].index = pos[t].index + 1
    BY <1>1, <2>1 DEF TypeOK, PlusOne
  <2>4. \A i \in Slots \ {pos[t].index} : stamp'[i] = stamp[i]
    BY <1>1, <2>1 DEF TypeOK
  <2>5. \A i \in Slots : TailLap(i)' = TailLap(i) /\ HeadLap(i)' = HeadLap(i)
    BY <2>1 DEF TailLap, HeadLap
  <2>6. ASSUME NEW i \in Slots, stamp'[i].index = i, TailLap(i)' = HeadLap(i)' + 1
        PROVE  \E u \in Threads : Writing(u)' /\ pos'[u].index = i
    <3>1. i # pos[t].index
      BY <2>3, <2>6 DEF Slots
    <3>2. PICK u \in Threads : Writing(u) /\ pos[u].index = i
      BY <1>0, <2>4, <2>5, <2>6, <3>1 DEF PusherIsThere
    <3> QED BY <2>1, <2>2, <3>1, <3>2
  <2>7. ValueIsWritten'
    BY <1>0, <1>1, <2>1 DEF ValueIsWritten, TypeOK
  <2> QED BY <2>6, <2>7 DEF PusherIsThere
<1>7. ASSUME NEW t \in Threads, PopClaim(t)
      PROVE  PusherIsThere' /\ ValueIsWritten'
  <2>1. /\ head \in Position /\ pos[t] = head /\ head' = NextPosition(head)
        /\ pc[t] = "pop_cas" /\ pc' = [pc EXCEPT ![t] = "pop_read"]
        /\ UNCHANGED <<tail, stamp, value, pos, other, arg, res>>
    BY <1>1, <1>7 DEF PopClaim, Goto, TypeOK
  <2>2. \A i \in Slots : TailLap(i)' = TailLap(i)
    BY <2>1 DEF TailLap
  <2>3. \A i \in Slots \ {head.index} : HeadLap(i)' = HeadLap(i)
    BY <2>1, NextPositionFacts DEF HeadLap
  <2>4. ASSUME NEW i \in Slots, i = head.index PROVE TailLap(i)' # HeadLap(i)' + 1
    <3>1. head.lap \in Nat /\ tail.lap \in Nat /\ tail.index \in Slots
      BY <1>1, <2>1 DEF TypeOK, Position
    <3>2. HeadLap(i)' = head.lap + 1 /\ HeadLap(i) = head.lap
      BY <2>1, <2>4, <3>1, NextPositionFacts DEF HeadLap, Slots
    <3>3. TailLap(i) \in Nat
      BY <3>1 DEF TailLap
    <3> QED BY <1>0, <2>2, <3>1, <3>2, <3>3 DEF IInv, ClaimsAlternate
  <2>5. \A u \in Threads : Writing(u)' = Writing(u)
    BY <1>1, <2>1 DEF TypeOK
  <2>6. PusherIsThere'
    BY <1>0, <2>1, <2>2, <2>3, <2>4, <2>5 DEF PusherIsThere
  <2>7. ValueIsWritten'
    BY <1>0, <1>1, <2>1 DEF ValueIsWritten, TypeOK
  <2> QED BY <2>6, <2>7
<1>8. ASSUME NEW t \in Threads, PopRelease(t)
      PROVE  PusherIsThere' /\ ValueIsWritten'
  <2>1. /\ pc[t] = "pop_release" /\ pc' = [pc EXCEPT ![t] = "pop_ret"]
        /\ stamp' = [stamp EXCEPT ![pos[t].index] = PlusLap(pos[t])]
        /\ UNCHANGED <<head, tail, value, pos, other, arg>>
        /\ pos[t].index \in Slots /\ pos[t].lap \in Nat
    BY <1>1, <1>8 DEF PopRelease, Answer, Goto, TypeOK, Position
  <2>2. TailLap(pos[t].index) = HeadLap(pos[t].index)
    BY <1>0, <2>1, ReleasedIsOutside
  <2>3. \A i \in Slots \ {pos[t].index} : stamp'[i] = stamp[i]
    BY <1>1, <2>1 DEF TypeOK
  <2>4. \A i \in Slots : TailLap(i)' = TailLap(i) /\ HeadLap(i)' = HeadLap(i)
    BY <2>1 DEF TailLap, HeadLap
  <2>5. \A u \in Threads : Writing(u)' = Writing(u)
    BY <1>1, <2>1 DEF TypeOK
  <2>6. HeadLap(pos[t].index) \in Nat
    BY <1>1, <2>1 DEF TypeOK, Position, HeadLap
  <2>7. PusherIsThere'
    BY <1>0, <2>1, <2>2, <2>3, <2>4, <2>5, <2>6 DEF PusherIsThere
  <2>8. ValueIsWritten'
    BY <1>0, <1>1, <2>1 DEF ValueIsWritten, TypeOK
  <2> QED BY <2>7, <2>8
<1>9. ASSUME NEW t \in Threads, Start(t) \/ Step(t) PROVE PusherIsThere' /\ ValueIsWritten'
  BY <1>3, <1>4, <1>5, <1>6, <1>7, <1>8, <1>9 DEF Step, PushStep, PopStep
<1> QED BY <1>0, <1>2, <1>9 DEF Next, ItemsInv

\* The claims and the stamp decide whose word the item is.
PushersItems ==
  \A p \in Position : \A t \in Threads :
    Writing(t) /\ pos[t] = p => stamp[p.index] = p /\ ItemAt(p) = arg[t]

LEMMA ItemOfPusher == ItemsInv => PushersItems
<1> SUFFICES ASSUME ItemsInv, NEW p \in Position, NEW t \in Threads, Writing(t), pos[t] = p
             PROVE  stamp[p.index] = p /\ ItemAt(p) = arg[t]
  BY DEF PushersItems
<1>1. stamp[p.index] = p
  BY DEF ItemsInv, IInv, ThreadInv, OwnerHoldsSlot
<1>2. p # PlusOne(p)
  BY DEF PlusOne, Position, Slots
<1>3. \A u \in Writers(p.index) : u = t
  BY DEF ItemsInv, IInv, OneOwner, Writers, Writing
<1>4. t \in Writers(p.index)
  BY DEF Writers, Writing
<1>5. (CHOOSE u \in Writers(p.index) : pos[u] = p) = t
  BY <1>3, <1>4
<1> QED BY <1>1, <1>2, <1>5 DEF ItemAt

LEMMA ItemHasOwner ==
  ItemsInv =>
    \A p \in Position :
      InWindow(p) =>
        \/ stamp[p.index] = PlusOne(p)
        \/ \E t \in Threads : Writing(t) /\ pos[t] = p
<1> SUFFICES ASSUME ItemsInv, NEW p \in Position, InWindow(p), stamp[p.index] # PlusOne(p)
             PROVE  \E t \in Threads : Writing(t) /\ pos[t] = p
  OBVIOUS
<1>1. p.index \in Slots /\ HeadLap(p.index) = p.lap /\ TailLap(p.index) = p.lap + 1
  BY WindowLaps DEF ItemsInv
<1>2. stamp[p.index].index = p.index /\ stamp[p.index].lap = p.lap
  <2>1. \/ stamp[p.index].index = p.index /\ stamp[p.index].lap = p.lap
        \/ stamp[p.index].index = p.index + 1 /\ stamp[p.index].lap = p.lap
    <3>1. /\ p.lap \in Nat
          /\ \/ stamp[p.index].index = p.index /\ stamp[p.index].lap = HeadLap(p.index)
             \/ stamp[p.index].index = p.index + 1 /\ stamp[p.index].lap = TailLap(p.index) - 1
      BY <1>1 DEF ItemsInv, IInv, StampCountsClaims, Position
    <3> QED BY <1>1, <3>1
  <2>2. stamp[p.index] \in Stamp /\ p.lap \in Nat
    BY <1>1 DEF ItemsInv, IInv, TypeOK, Position
  <2> QED BY <2>1, <2>2 DEF Stamp, PlusOne
<1>3. PICK t \in Threads : Writing(t) /\ pos[t].index = p.index
  BY <1>1, <1>2 DEF ItemsInv, PusherIsThere
<1>4. stamp[p.index] = pos[t] /\ pos[t] \in Position
  BY <1>3 DEF ItemsInv, IInv, TypeOK, ThreadInv, OwnerHoldsSlot
<1> QED BY <1>2, <1>3, <1>4 DEF Position

\* A step that leaves the stamp, the published value and the pusher of p alone
\* leaves its item alone.
LEMMA ItemKept ==
  ASSUME ItemsInv, ItemsInv', NEW p \in Position, InWindow(p),
         stamp'[p.index] = stamp[p.index],
         stamp[p.index] = PlusOne(p) => value'[p.index] = value[p.index],
         \A u \in Threads : Writing(u) /\ pos[u] = p => Writing(u)' /\ pos'[u] = p /\ arg'[u] = arg[u]
  PROVE  ItemAt(p)' = ItemAt(p)
<1>1. CASE stamp[p.index] = PlusOne(p)
  BY <1>1 DEF ItemAt, PlusOne
<1>2. CASE \E t \in Threads : Writing(t) /\ pos[t] = p
  <2>1. PICK t \in Threads : Writing(t) /\ pos[t] = p
    BY <1>2
  <2>2. ItemAt(p) = arg[t]
    BY <2>1, ItemOfPusher DEF PushersItems
  <2>3. Writing(t)' /\ pos'[t] = p /\ arg'[t] = arg[t]
    BY <2>1
  <2>4. PushersItems'
    BY ItemOfPusher, PTL
  <2> QED BY <2>2, <2>3, <2>4 DEF PushersItems
<1> QED BY <1>1, <1>2, ItemHasOwner

-----------------------------------------------------------------------------
(* The steps of the abstract queue.                                        *)

\* The items do not change when neither the window nor an item in it does.
LEMMA ItemsUnchanged ==
  ASSUME ItemsInv, UNCHANGED <<head, tail>>,
         \A p \in Position : InWindow(p) => ItemAt(p)' = ItemAt(p)
  PROVE  AbstractItems' = AbstractItems
<1>1. \A k \in 1 .. Length : Ahead(head, k - 1) \in Position /\ InWindow(Ahead(head, k - 1))
  BY WindowPositions DEF ItemsInv, AheadInWindow
<1>2. Length' = Length
  BY DEF Length
<1>3. \A k \in 1 .. Length : ItemAt(Ahead(head, k - 1))' = ItemAt(Ahead(head, k - 1))
  BY <1>1
<1> QED BY <1>2, <1>3 DEF AbstractItems

\* The calls of the threads that do not move do not change.
LEMMA OthersCalls ==
  ASSUME NEW u \in Threads,
         pc'[u] = pc[u], pos'[u] = pos[u], arg'[u] = arg[u], res'[u] = res[u],
         pc[u] = "pop_read" => value'[pos[u].index] = value[pos[u].index]
  PROVE  AbstractCall(u)' = AbstractCall(u)
  BY DEF AbstractCall, PushPending, PopPending

\* The claim of a push adds the tail to the window.
LEMMA PushGrowsWindow ==
  ASSUME head \in Position, tail \in Position, TailWithinLap, TailWithinLap',
         head' = head, tail' = NextPosition(tail), Length' \in 0 .. Capacity
  PROVE  Length' = Length + 1 /\ Ahead(head, Length) = tail
<1>1. /\ head.index \in Slots /\ tail.index \in Slots /\ head.lap \in Nat /\ tail.lap \in Nat
      /\ tail = [lap |-> tail.lap, index |-> tail.index]
  BY DEF Position
<1>2. \/ tail.lap = head.lap /\ head.index <= tail.index
      \/ tail.lap = head.lap + 1 /\ tail.index <= head.index
  BY <1>1 DEF TailWithinLap, Leq, PlusLap
<1>3. Length' = Length + 1
  <2>1. \/ tail'.lap = head.lap
        \/ tail'.lap = head.lap + 1 /\ tail'.index <= head.index
    BY <1>1, <1>2 DEF TailWithinLap, Leq, PlusLap, NextPosition, PlusOne
  <2> QED BY <1>1, <1>2, <2>1 DEF Length, NextPosition, PlusOne, Slots
<1>4. Length < Capacity
  <2>1. Length \in Int
    BY <1>1 DEF Length, Slots
  <2> QED BY <1>3, <2>1
<1>5. Ahead(head, Length) = [lap |-> tail.lap, index |-> tail.index]
  BY <1>1, <1>2, <1>4 DEF Length, Ahead, Slots
<1> QED BY <1>1, <1>3, <1>5

\* A push that moves the tail appends its pointer.
LEMMA PushClaimSimulates ==
  ASSUME ItemsInv, ItemsInv', NEW t \in Threads, PushClaim(t)
  PROVE  Abstract!Push(t)
<1> DEFINE calls == [u \in Threads |-> AbstractCall(u)]
<1> USE DEF Writing
<1>1. /\ tail \in Position /\ pos[t] = tail /\ tail' = NextPosition(tail)
      /\ pc[t] = "push_cas" /\ pc' = [pc EXCEPT ![t] = "push_write"]
      /\ UNCHANGED <<head, stamp, value, pos, other, arg, res>>
      /\ pc \in [Threads -> PCs]
  BY DEF PushClaim, Goto, ItemsInv, IInv, TypeOK
<1>2. /\ head.index \in Slots /\ tail.index \in Slots /\ head.lap \in Nat /\ tail.lap \in Nat
      /\ head \in Position
  BY DEF ItemsInv, IInv, TypeOK, Position
<1>3. Length \in 0 .. Capacity /\ Length' \in 0 .. Capacity
  <2>1. LengthInRange /\ LengthInRange'
    BY WindowPositions, PTL DEF ItemsInv
  <2> QED BY <2>1 DEF LengthInRange
<1>4. Length' = Length + 1 /\ Ahead(head, Length) = tail
  <2>1. TailWithinLap /\ TailWithinLap'
    BY BoundsOfTail, PTL DEF ItemsInv
  <2> QED BY <1>1, <1>2, <1>3, <2>1, PushGrowsWindow
<1>5. \A p \in Position : InWindow(p) => ItemAt(p)' = ItemAt(p)
  BY <1>1, ItemKept
<1>6. \A p \in Position : p = tail => ItemAt(p)' = arg[t]
  <2>1. PushersItems'
    BY ItemOfPusher, PTL
  <2>2. Writing(t)' /\ pos'[t] = tail /\ arg'[t] = arg[t]
    BY <1>1
  <2> QED BY <2>1, <2>2 DEF PushersItems
<1>7. /\ \A k \in 1 .. Length : Ahead(head, k - 1) \in Position /\ InWindow(Ahead(head, k - 1))
      /\ \A k \in 1 .. Length + 1 : Ahead(head, k - 1)' = Ahead(head, k - 1)
  BY <1>1, WindowPositions DEF ItemsInv, AheadInWindow, Ahead
<1>8. AbstractItems' = [k \in 1 .. Length + 1 |-> IF k = Length + 1 THEN arg[t] ELSE AbstractItems[k]]
  <2>1. \A k \in 1 .. Length : ItemAt(Ahead(head, k - 1))' = AbstractItems[k]
    BY <1>1, <1>5, <1>7 DEF AbstractItems
  <2>2. \A k \in 1 .. Length + 1 : k = Length + 1 => ItemAt(Ahead(head, k - 1))' = arg[t]
    BY <1>1, <1>3, <1>4, <1>6
  <2> QED BY <1>3, <1>4, <2>1, <2>2 DEF AbstractItems
<1>9. AbstractItems' = Append(AbstractItems, arg[t]) /\ Len(AbstractItems) < Capacity
  <2>1. AbstractItems = [k \in 1 .. Length |-> AbstractItems[k]]
    BY DEF AbstractItems
  <2>2. Length \in Nat /\ Length < Capacity
    BY <1>3, <1>4
  <2> QED BY <1>8, <2>1, <2>2, AppendByElements, FunctionIsSequence
<1>10. calls[t] = [op |-> "push", arg |-> arg[t]]
  BY <1>1 DEF AbstractCall, PushPending, PopPending
<1>11. calls' = [calls EXCEPT ![t] = [op |-> "pushed", ret |-> "true"]]
  <2>1. AbstractCall(t)' = [op |-> "pushed", ret |-> "true"]
    BY <1>1 DEF AbstractCall, PushPending, PopPending
  <2>2. \A u \in Threads \ {t} : AbstractCall(u)' = AbstractCall(u)
    BY <1>1, OthersCalls
  <2> QED BY <2>1, <2>2
<1> QED BY <1>9, <1>10, <1>11 DEF Abstract!Push, Abstract!PushDone

\* The claim of a pop takes the head out of the window.
LEMMA PopShrinksWindow ==
  ASSUME head \in Position, tail \in Position, TailWithinLap, TailWithinLap',
         tail' = tail, head' = NextPosition(head)
  PROVE  /\ Length \in Nat \ {0}
         /\ Length' = Length - 1
         /\ Ahead(head, 0) = head
         /\ \A k \in 1 .. Length - 1 : Ahead(head', k - 1) = Ahead(head, k)
<1>1. /\ head.index \in Slots /\ tail.index \in Slots /\ head.lap \in Nat /\ tail.lap \in Nat
      /\ head = [lap |-> head.lap, index |-> head.index]
  BY DEF Position
<1>2. \/ tail.lap = head.lap /\ head.index <= tail.index
      \/ tail.lap = head.lap + 1 /\ tail.index <= head.index
  BY <1>1 DEF TailWithinLap, Leq, PlusLap
<1>3. \/ tail.lap = head'.lap /\ head'.index <= tail.index
      \/ tail.lap = head'.lap + 1 /\ tail.index <= head'.index
  <2>1. head'.index \in Slots /\ head'.lap \in Nat
    BY NextPositionFacts DEF Position
  <2> QED BY <1>1, <2>1 DEF TailWithinLap, Leq, PlusLap
<1>4. Length \in Nat \ {0} /\ Length' = Length - 1 /\ Length <= Capacity
  BY <1>1, <1>2, <1>3 DEF Length, NextPosition, PlusOne, Slots
<1>5. Ahead(head, 0) = head
  BY <1>1 DEF Ahead, Slots
<1>6. ASSUME NEW k \in 1 .. Length - 1 PROVE Ahead(head', k - 1) = Ahead(head, k)
  BY <1>1, <1>4 DEF Ahead, NextPosition, PlusOne, Slots
<1> QED BY <1>4, <1>5, <1>6

\* A pop that moves the head takes the oldest item.
LEMMA PopClaimSimulates ==
  ASSUME ItemsInv, ItemsInv', NEW t \in Threads, PopClaim(t)
  PROVE  Abstract!Pop(t)
<1> DEFINE calls == [u \in Threads |-> AbstractCall(u)]
<1> USE DEF Writing
<1>1. /\ head \in Position /\ tail \in Position /\ pos[t] = head /\ head' = NextPosition(head)
      /\ pc[t] = "pop_cas" /\ pc' = [pc EXCEPT ![t] = "pop_read"]
      /\ UNCHANGED <<tail, stamp, value, pos, other, arg, res>>
      /\ pc \in [Threads -> PCs]
  BY DEF PopClaim, Goto, ItemsInv, IInv, TypeOK
<1>2. /\ Length \in Nat \ {0}
      /\ Length' = Length - 1
      /\ Ahead(head, 0) = head
      /\ \A k \in 1 .. Length - 1 : Ahead(head', k - 1) = Ahead(head, k)
  <2>1. TailWithinLap /\ TailWithinLap'
    BY BoundsOfTail, PTL DEF ItemsInv
  <2> QED BY <1>1, <2>1, PopShrinksWindow
<1>3. \A k \in 1 .. Length : Ahead(head, k - 1) \in Position /\ InWindow(Ahead(head, k - 1))
  BY WindowPositions DEF ItemsInv, AheadInWindow
<1>4. stamp[head.index] = PlusOne(head)
  BY <1>1, PublishedForPop DEF ItemsInv
<1>5. AbstractItems[1] = value[head.index]
  BY <1>2, <1>4 DEF AbstractItems, ItemAt
<1>6. \A p \in Position : InWindow(p) => ItemAt(p)' = ItemAt(p)
  BY <1>1, ItemKept
<1>7. AbstractItems' = [k \in 1 .. Length - 1 |-> AbstractItems[k + 1]]
  <2>1. \A k \in 1 .. Length - 1 : Ahead(head, k) \in Position /\ InWindow(Ahead(head, k))
    BY <1>2, <1>3
  <2>2. \A k \in 1 .. Length - 1 : ItemAt(Ahead(head, k - 1))' = ItemAt(Ahead(head, k))
    BY <1>2, <1>6, <2>1
  <2>3. \A k \in 1 .. Length - 1 : AbstractItems[k + 1] = ItemAt(Ahead(head, k))
    BY <1>2 DEF AbstractItems
  <2> QED BY <1>2, <2>2, <2>3 DEF AbstractItems
<1>8. /\ AbstractItems # <<>>
      /\ Head(AbstractItems) = value[head.index]
      /\ AbstractItems' = Tail(AbstractItems)
  <2>1. AbstractItems = [k \in 1 .. Length |-> AbstractItems[k]]
    BY DEF AbstractItems
  <2> QED BY <1>2, <1>5, <1>7, <2>1, TailByElements, FunctionIsSequence
<1>9. calls[t] = [op |-> "pop"]
  BY <1>1 DEF AbstractCall, PushPending, PopPending
<1>10. calls' = [calls EXCEPT ![t] = [op |-> "popped", ret |-> value[head.index]]]
  <2>1. AbstractCall(t)' = [op |-> "popped", ret |-> value[head.index]]
    BY <1>1 DEF AbstractCall, PushPending, PopPending
  <2>2. \A u \in Threads \ {t} : AbstractCall(u)' = AbstractCall(u)
    BY <1>1, OthersCalls
  <2> QED BY <2>1, <2>2
<1> QED BY <1>8, <1>9, <1>10 DEF Abstract!Pop, Abstract!PopCall, Abstract!PopDone

\* The pusher's write is not seen before the slot is published.
LEMMA PushWriteIsInvisible ==
  ASSUME ItemsInv, ItemsInv', NEW t \in Threads, PushWrite(t)
  PROVE  AbstractItems' = AbstractItems /\ \A u \in Threads : AbstractCall(u)' = AbstractCall(u)
<1> USE DEF Writing
<1>1. /\ pc[t] = "push_write" /\ pc' = [pc EXCEPT ![t] = "push_publish"]
      /\ value' = [value EXCEPT ![pos[t].index] = arg[t]]
      /\ UNCHANGED <<head, tail, stamp, pos, other, arg, res>>
      /\ pos[t].index \in Slots /\ pc \in [Threads -> PCs] /\ value \in [Slots -> Values \cup {NULL}]
      /\ \A u \in Threads : pos[u].index \in Slots
  BY DEF PushWrite, Goto, ItemsInv, IInv, TypeOK, Position
<1>2. stamp[pos[t].index] = pos[t]
  BY <1>1 DEF ItemsInv, IInv, ThreadInv, OwnerHoldsSlot
<1>3. ASSUME NEW p \in Position, InWindow(p) PROVE ItemAt(p)' = ItemAt(p)
  <2>1. stamp[p.index] = PlusOne(p) => p.index # pos[t].index
    BY <1>2 DEF PlusOne, Position, Slots
  <2>2. p.index \in Slots
    BY DEF Position
  <2>3. stamp[p.index] = PlusOne(p) => value'[p.index] = value[p.index]
    BY <1>1, <2>1, <2>2
  <2> QED BY <1>1, <1>3, <2>3, ItemKept
<1>4. AbstractItems' = AbstractItems
  BY <1>1, <1>3, ItemsUnchanged
<1>5. AbstractCall(t)' = AbstractCall(t)
  BY <1>1 DEF AbstractCall, PushPending, PopPending
<1>6. ASSUME NEW u \in Threads \ {t} PROVE AbstractCall(u)' = AbstractCall(u)
  <2>1. pc[u] = "pop_read" => pos[u].index # pos[t].index
    BY <1>1 DEF ItemsInv, IInv, OneOwner, Reading
  <2> QED BY <1>1, <2>1, OthersCalls
<1> QED BY <1>4, <1>5, <1>6

\* Published, the item is the one the pusher held.
LEMMA PushPublishIsInvisible ==
  ASSUME ItemsInv, ItemsInv', NEW t \in Threads, PushPublish(t)
  PROVE  AbstractItems' = AbstractItems /\ \A u \in Threads : AbstractCall(u)' = AbstractCall(u)
<1> USE DEF Writing
<1>1. /\ pc[t] = "push_publish" /\ pc' = [pc EXCEPT ![t] = "push_ret"]
      /\ res' = [res EXCEPT ![t] = "true"]
      /\ stamp' = [stamp EXCEPT ![pos[t].index] = PlusOne(pos[t])]
      /\ UNCHANGED <<head, tail, value, pos, other, arg>>
      /\ pos[t] \in Position /\ pos[t].index \in Slots
      /\ pc \in [Threads -> PCs] /\ stamp \in [Slots -> Stamp]
      /\ res \in [Threads -> Values \cup {NULL, "true", "false"}]
  BY DEF PushPublish, Answer, Goto, ItemsInv, IInv, TypeOK, Position
<1>2. TailLap(pos[t].index) = pos[t].lap + 1
  BY <1>1 DEF ItemsInv, IInv, ThreadInv, OwnerHoldsSlot
<1>3. ASSUME NEW p \in Position, InWindow(p) PROVE ItemAt(p)' = ItemAt(p)
  <2>1. p.index \in Slots /\ TailLap(p.index) = p.lap + 1
    BY <1>3, WindowLaps DEF ItemsInv
  <2>2. CASE p.index = pos[t].index
    <3>1. p = pos[t]
      BY <1>1, <1>2, <2>1, <2>2 DEF Position
    <3>2. ItemAt(p) = arg[t]
      BY <1>1, <3>1, ItemOfPusher DEF PushersItems
    <3>3. value[p.index] = arg[t]
      BY <1>1, <3>1 DEF ItemsInv, ValueIsWritten
    <3>4. stamp'[p.index] = PlusOne(p)
      BY <1>1, <3>1
    <3>5. ItemAt(p)' = value'[p.index]
      BY <3>4 DEF ItemAt, PlusOne
    <3> QED BY <1>1, <3>2, <3>3, <3>5
  <2>3. CASE p.index # pos[t].index
    <3>1. \A u \in Threads : Writing(u) /\ pos[u] = p => Writing(u)'
      BY <1>1, <2>3
    <3> QED BY <1>1, <1>3, <2>1, <2>3, <3>1, ItemKept
  <2> QED BY <2>2, <2>3
<1>4. AbstractItems' = AbstractItems
  BY <1>1, <1>3, ItemsUnchanged
<1>5. AbstractCall(t)' = AbstractCall(t)
  BY <1>1 DEF AbstractCall, PushPending, PopPending
<1>6. \A u \in Threads \ {t} : AbstractCall(u)' = AbstractCall(u)
  BY <1>1, OthersCalls
<1> QED BY <1>4, <1>5, <1>6

\* The slot that a pop gives back is not in the window.
LEMMA PopReleaseIsInvisible ==
  ASSUME ItemsInv, ItemsInv', NEW t \in Threads, PopRelease(t)
  PROVE  AbstractItems' = AbstractItems /\ \A u \in Threads : AbstractCall(u)' = AbstractCall(u)
<1> USE DEF Writing
<1>1. /\ pc[t] = "pop_release" /\ pc' = [pc EXCEPT ![t] = "pop_ret"]
      /\ res' = [res EXCEPT ![t] = arg[t]]
      /\ stamp' = [stamp EXCEPT ![pos[t].index] = PlusLap(pos[t])]
      /\ UNCHANGED <<head, tail, value, pos, other, arg>>
      /\ pos[t] \in Position /\ pos[t].index \in Slots /\ pos[t].lap \in Nat
      /\ pc \in [Threads -> PCs] /\ stamp \in [Slots -> Stamp]
      /\ res \in [Threads -> Values \cup {NULL, "true", "false"}]
  BY DEF PopRelease, Answer, Goto, ItemsInv, IInv, TypeOK, Position
<1>2. ASSUME NEW p \in Position, InWindow(p) PROVE ItemAt(p)' = ItemAt(p)
  <2>1. p.index \in Slots /\ HeadLap(p.index) = p.lap /\ TailLap(p.index) = p.lap + 1 /\ p.lap \in Nat
    BY <1>2, WindowLaps DEF ItemsInv, Position
  <2>2. p.index # pos[t].index
    BY <1>1, <2>1, ReleasedIsOutside DEF ItemsInv
  <2>3. \A u \in Threads : Writing(u) => Writing(u)'
    BY <1>1
  <2> QED BY <1>1, <1>2, <2>1, <2>2, <2>3, ItemKept
<1>3. AbstractItems' = AbstractItems
  BY <1>1, <1>2, ItemsUnchanged
<1>4. AbstractCall(t)' = AbstractCall(t)
  BY <1>1 DEF AbstractCall, PushPending, PopPending
<1>5. \A u \in Threads \ {t} : AbstractCall(u)' = AbstractCall(u)
  BY <1>1, OthersCalls
<1> QED BY <1>3, <1>4, <1>5

\* A step of t outside of the slots changes no item and no other call.
LEMMA QuietSimulation ==
  ASSUME ItemsInv, ItemsInv', NEW t \in Threads, UNCHANGED queue, ~Writing(t),
         \A u \in Threads \ {t} :
           pc'[u] = pc[u] /\ pos'[u] = pos[u] /\ arg'[u] = arg[u] /\ res'[u] = res[u]
  PROVE  /\ AbstractItems' = AbstractItems
         /\ \A u \in Threads \ {t} : AbstractCall(u)' = AbstractCall(u)
<1>1. \A u \in Threads : Writing(u) => Writing(u)'
  BY DEF Writing
<1>2. \A p \in Position : InWindow(p) => ItemAt(p)' = ItemAt(p)
  BY <1>1, ItemKept DEF queue
<1> QED BY <1>2, ItemsUnchanged, OthersCalls DEF queue

\* The steps that leave the fields of the queue alone: calls, returns and
\* refusals are those of the abstract queue, the rest is invisible to it.
LEMMA QuietSimulates ==
  ASSUME ItemsInv, ItemsInv', NEW t \in Threads,
         \/ Start(t) \/ Return(t) \/ QueryStep(t)
         \/ PushLoadTail(t) \/ PushLoadStamp(t) \/ PushClaimFails(t)
         \/ PushIsFull(t) \/ PushNotFull(t)
         \/ PopLoadHead(t) \/ PopLoadStamp(t) \/ PopClaimFails(t)
         \/ PopRead(t) \/ PopIsEmpty(t) \/ PopNotEmpty(t)
  PROVE  [Abstract!Next]_(Abstract!qvars)
<1> DEFINE calls == [u \in Threads |-> AbstractCall(u)]
           Frame == /\ UNCHANGED queue /\ ~Writing(t)
                    /\ \A u \in Threads \ {t} :
                         /\ pc'[u] = pc[u] /\ pos'[u] = pos[u]
                         /\ arg'[u] = arg[u] /\ res'[u] = res[u]
           Rest == AbstractItems' = AbstractItems
                   /\ \A u \in Threads \ {t} : AbstractCall(u)' = AbstractCall(u)
<1>1. TypeOK /\ IInv
  BY DEF ItemsInv, IInv
<1>2. Frame => Rest
  BY QuietSimulation
<1> HIDE DEF Rest
<1>3. Rest /\ AbstractCall(t)' = AbstractCall(t) => UNCHANGED Abstract!qvars
  BY DEF Rest, Abstract!qvars
<1>4. ASSUME NEW c, Rest, AbstractCall(t)' = c
      PROVE  AbstractItems' = AbstractItems /\ calls' = [calls EXCEPT ![t] = c]
  BY <1>4 DEF Rest
<1> USE DEF TypeOK, Goto, Answer, Writing
<1>5. CASE \E v \in Values : StartPush(t, v)
  <2>1. PICK v \in Values : StartPush(t, v)
    BY <1>5
  <2>2. Rest
    BY <1>1, <1>2, <2>1 DEF StartPush
  <2>3. calls[t] = [op |-> "none"]
    BY <2>1 DEF StartPush, AbstractCall, PushPending, PopPending
  <2>4. AbstractCall(t)' = [op |-> "push", arg |-> v]
    BY <1>1, <2>1 DEF StartPush, AbstractCall, PushPending, PopPending
  <2>5. Abstract!CallPush(t)
    BY <1>4, <2>2, <2>3, <2>4 DEF Abstract!CallPush, Abstract!NoCall, Abstract!PushCall
  <2> QED BY <2>5 DEF Abstract!Next
<1>6. CASE StartPop(t)
  <2>1. Rest
    BY <1>1, <1>2, <1>6 DEF StartPop
  <2>2. calls[t] = [op |-> "none"]
    BY <1>6 DEF StartPop, AbstractCall, PushPending, PopPending
  <2>3. AbstractCall(t)' = [op |-> "pop"]
    BY <1>1, <1>6 DEF StartPop, AbstractCall, PushPending, PopPending
  <2>4. Abstract!CallPop(t)
    BY <1>4, <2>1, <2>2, <2>3 DEF Abstract!CallPop, Abstract!NoCall, Abstract!PopCall
  <2> QED BY <2>4 DEF Abstract!Next
<1>7. CASE StartQuery(t) \/ QueryStep(t)
  <2> USE DEF QueryStep, StartQuery, EmptyLoadHead, EmptyLoadTail, FullLoadTail,
              FullLoadHead, SizeLoadTail, SizeLoadHead, SizeDone, SizeRetry
  <2>1. Rest
    BY <1>1, <1>2, <1>7
  <2>2. AbstractCall(t) = [op |-> "none"] /\ AbstractCall(t)' = [op |-> "none"]
    <3>1. /\ pc[t] \in {"idle", "empty_head", "empty_tail", "full_tail", "full_head",
                        "size_tail", "size_head", "size_check"}
          /\ pc'[t] \in {"empty_head", "empty_tail", "full_tail", "full_head",
                         "size_tail", "size_head", "size_check", "query_ret"}
      BY <1>1, <1>7
    <3> QED BY <3>1 DEF AbstractCall, PushPending, PopPending
  <2> QED BY <1>3, <2>1, <2>2
<1>8. CASE Return(t)
  <2>1. Rest
    BY <1>1, <1>2, <1>8 DEF Return
  <2>2. AbstractCall(t)' = [op |-> "none"]
    BY <1>1, <1>8 DEF Return, AbstractCall, PushPending, PopPending
  <2>3. CASE pc[t] = "query_ret"
    <3>1. AbstractCall(t) = [op |-> "none"]
      BY <2>3 DEF AbstractCall, PushPending, PopPending
    <3> QED BY <1>3, <2>1, <2>2, <3>1
  <2>4. CASE pc[t] \in {"push_ret", "pop_ret"}
    <3>1. calls[t].op \in {"pushed", "popped"}
      BY <2>4 DEF AbstractCall, PushPending, PopPending
    <3>2. Abstract!Return(t)
      BY <1>4, <2>1, <2>2, <3>1 DEF Abstract!Return, Abstract!NoCall
    <3> QED BY <3>2 DEF Abstract!Next
  <2> QED BY <1>8, <2>3, <2>4 DEF Return
<1>9. CASE \/ PushLoadTail(t) \/ PushLoadStamp(t) \/ PushClaimFails(t) \/ PushNotFull(t)
           \/ PopLoadHead(t) \/ PopLoadStamp(t) \/ PopClaimFails(t) \/ PopNotEmpty(t)
  <2> USE DEF PushLoadTail, PushLoadStamp, PushClaimFails, PushNotFull,
              PopLoadHead, PopLoadStamp, PopClaimFails, PopNotEmpty
  <2>1. Rest
    BY <1>1, <1>2, <1>9
  <2>2. \/ pc[t] \in PushPending /\ pc'[t] \in PushPending /\ arg'[t] = arg[t]
        \/ pc[t] \in PopPending /\ pc'[t] \in PopPending
    BY <1>1, <1>9 DEF PushPending, PopPending
  <2>3. AbstractCall(t)' = AbstractCall(t)
    BY <2>2 DEF AbstractCall, PushPending, PopPending
  <2> QED BY <1>3, <2>1, <2>3
<1>10. CASE PushIsFull(t)
  <2>1. Rest
    BY <1>1, <1>2, <1>10 DEF PushIsFull
  <2>2. calls[t] = [op |-> "push", arg |-> arg[t]]
    BY <1>10 DEF PushIsFull, AbstractCall, PushPending, PopPending
  <2>3. AbstractCall(t)' = [op |-> "pushed", ret |-> "false"]
    BY <1>1, <1>10 DEF PushIsFull, AbstractCall, PushPending, PopPending
  <2>4. Len(AbstractItems) = Capacity
    <3>1. Length = Capacity
      BY <1>1, <1>10, RefusalFacts DEF IsFull, PlusLap, Length, Position, Slots
    <3>2. AbstractItems = [k \in 1 .. Length |-> AbstractItems[k]]
      BY DEF AbstractItems
    <3> QED BY <3>1, <3>2, FunctionIsSequence
  <2>5. Abstract!PushFull(t)
    BY <1>4, <2>1, <2>2, <2>3, <2>4 DEF Abstract!PushFull, Abstract!PushDone
  <2> QED BY <2>5 DEF Abstract!Next
<1>11. CASE PopRead(t)
  <2>1. Rest
    BY <1>1, <1>2, <1>11 DEF PopRead
  <2>2. AbstractCall(t)' = AbstractCall(t)
    BY <1>1, <1>11 DEF PopRead, AbstractCall, PushPending, PopPending
  <2> QED BY <1>3, <2>1, <2>2
<1>12. CASE PopIsEmpty(t)
  <2>1. Rest
    BY <1>1, <1>2, <1>12 DEF PopIsEmpty
  <2>2. calls[t] = [op |-> "pop"]
    BY <1>12 DEF PopIsEmpty, AbstractCall, PushPending, PopPending
  <2>3. AbstractCall(t)' = [op |-> "popped", ret |-> NULL]
    BY <1>1, <1>12 DEF PopIsEmpty, AbstractCall, PushPending, PopPending
  <2>4. AbstractItems = <<>>
    <3>1. Length = 0
      BY <1>1, <1>12, RefusalFacts DEF IsEmpty, Length, Position, Slots
    <3>2. AbstractItems = [k \in 1 .. Length |-> AbstractItems[k]]
      BY DEF AbstractItems
    <3> QED BY <3>1, <3>2, FunctionIsSequence
  <2>5. Abstract!PopEmpty(t)
    BY <1>4, <2>1, <2>2, <2>3, <2>4 DEF Abstract!PopEmpty, Abstract!PopCall, Abstract!PopDone
  <2> QED BY <2>5 DEF Abstract!Next
<1> QED
  BY <1>5, <1>6, <1>7, <1>8, <1>9, <1>10, <1>11, <1>12 DEF Start

\* Every step of the array queue is one of the bounded queue or invisible to it.
LEMMA StepSimulation ==
  ItemsInv /\ ItemsInv' /\ [Next]_vars => [Abstract!Next]_(Abstract!qvars)
<1> SUFFICES ASSUME ItemsInv, ItemsInv', [Next]_vars PROVE [Abstract!Next]_(Abstract!qvars)
  OBVIOUS
<1>1. CASE UNCHANGED vars
  <2>1. AbstractItems' = AbstractItems
    BY <1>1 DEF vars, AbstractItems, Length, Ahead, ItemAt, Writers
  <2>2. \A u \in Threads : AbstractCall(u)' = AbstractCall(u)
    BY <1>1, OthersCalls DEF vars
  <2> QED BY <2>1, <2>2 DEF Abstract!qvars
<1>2. ASSUME NEW t \in Threads, PushClaim(t) PROVE Abstract!Next
  BY <1>2, PushClaimSimulates DEF Abstract!Next
<1>3. ASSUME NEW t \in Threads, PopClaim(t) PROVE Abstract!Next
  BY <1>3, PopClaimSimulates DEF Abstract!Next
<1>4. ASSUME NEW t \in Threads, PushWrite(t) \/ PushPublish(t) \/ PopRelease(t)
      PROVE  UNCHANGED Abstract!qvars
  BY <1>4, PushWriteIsInvisible, PushPublishIsInvisible, PopReleaseIsInvisible DEF Abstract!qvars
<1>5. ASSUME NEW t \in Threads, Start(t) \/ Step(t) PROVE [Abstract!Next]_(Abstract!qvars)
  BY <1>2, <1>3, <1>4, <1>5, QuietSimulates DEF Step, PushStep, PopStep
<1> QED BY <1>1, <1>5 DEF Next

\* The array queue is a linearizable bounded first-in first-out queue, for any
\* number of threads, any capacity and any number of laps: each push and each
\* pop takes effect at one instant of its call.
THEOREM Linearizable == Spec => ImplementsBoundedQueue
<1>1. Init => ItemsInv
  BY InitInv DEF Init, ItemsInv, PusherIsThere, ValueIsWritten, TailLap, HeadLap, Origin, Slots
<1>2. Init => Abstract!Init
  <2> SUFFICES ASSUME Init PROVE Abstract!Init
    OBVIOUS
  <2>1. Length = 0
    BY DEF Init, Length, Origin
  <2>2. AbstractItems = [k \in 1 .. Length |-> AbstractItems[k]]
    BY DEF AbstractItems
  <2>3. AbstractItems = <<>>
    BY <2>1, <2>2, FunctionIsSequence
  <2>4. \A t \in Threads : AbstractCall(t) = [op |-> "none"]
    BY DEF Init, AbstractCall, PushPending, PopPending
  <2> QED BY <2>3, <2>4 DEF Abstract!Init, Abstract!NoCall
<1> QED BY <1>1, <1>2, ItemsStep, StepSimulation, PTL DEF Spec, ImplementsBoundedQueue, Abstract!Spec
=============================================================================
