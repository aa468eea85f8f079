---------------------------- MODULE ChannelProofs ----------------------------
(***************************************************************************)
(* Proofs about Channel, for any handles, nodes, values and capacities:    *)
(* the two counts are the handles there are, the channel is not freed      *)
(* before the last of them is dropped, and a side that has left never      *)
(* comes back; the list is well formed and no node leaks; and the channel  *)
(* implements AbstractChannel.                                             *)
(***************************************************************************)
EXTENDS MCChannel, FiniteSetTheorems, SequenceTheorems, WellFoundedInduction, TLAPS

HeldPCs == PCs \ ({"none"} \cup DropPCs)

HeldIn(s)    == {h \in Handles : Side(h) = s /\ Held(h)}
CloningIn(s) == {h \in Handles : Side(h) = s /\ pc[h] = "clone_alloc"}

\* What a handle adds to its side's count: one for itself, one for its clone.
Weight(p) == IF p = "clone_alloc" THEN 2 ELSE IF p \in HeldPCs THEN 1 ELSE 0

HandleTypes ==
  /\ chan \in {"none", "live", "freed", "corrupt"}
  /\ count \in [Sides -> Int]
  /\ disconnected \in BOOLEAN
  /\ pc \in [Handles -> PCs]

\* Nobody holds a handle but while the channel is there, and nobody is in a call
\* before it is made.
OnlyWhileLive ==
  /\ chan = "none" => \A h \in Handles : pc[h] = "none"
  /\ chan = "none" => ~disconnected
  /\ chan \in {"freed", "corrupt"} => \A h \in Handles : ~Held(h)

\* The last one of a side disconnects, and destroys once the other side is gone.
LastOnes ==
  chan = "live" =>
    /\ \A h \in Handles :
         /\ pc[h] \in DropPCs => count[Side(h)] = 0
         /\ pc[h] \in {"destroy", "destroy_free"} => \A s \in Sides : count[s] = 0
    /\ disconnected => \E s \in Sides : count[s] = 0

\* The inductive invariant.
IInv == HandleTypes /\ CountsHandles /\ OnlyWhileLive /\ LastOnes

-----------------------------------------------------------------------------
(* Sides and their counts.                                                 *)

LEMMA SideFacts ==
  /\ \A h \in Handles : Side(h) \in Sides
  /\ \A s \in Sides : Opposite(s) \in Sides /\ Sides = {s, Opposite(s)}
  BY DEF Side, Sides, Opposite

LEMMA CountedBySets ==
  CountsHandles =
    (chan = "live" => \A s \in Sides : count[s] = Cardinality(HeldIn(s)) + Cardinality(CloningIn(s)))
  BY DEF CountsHandles, HeldIn, CloningIn

LEMMA Cards ==
  ASSUME NEW s
  PROVE  /\ IsFiniteSet(HeldIn(s)) /\ Cardinality(HeldIn(s)) \in Nat
         /\ IsFiniteSet(CloningIn(s)) /\ Cardinality(CloningIn(s)) \in Nat
         /\ Cardinality(HeldIn(s)) = 0 <=> HeldIn(s) = {}
<1>1. HeldIn(s) \subseteq Handles /\ CloningIn(s) \subseteq Handles /\ IsFiniteSet(Handles)
  BY HandlesAssumption DEF HeldIn, CloningIn, Handles
<1>2. IsFiniteSet(HeldIn(s)) /\ IsFiniteSet(CloningIn(s))
  BY <1>1, FS_Subset
<1> QED BY <1>2, FS_CardinalityType, FS_EmptySet

\* A side whose count is zero has no handles, and the other way round.
LEMMA ZeroMeansNone ==
  ASSUME CountsHandles, chan = "live", NEW s \in Sides
  PROVE  count[s] = 0 <=> \A h \in Handles : Side(h) = s => ~Held(h)
<1>1. count[s] = Cardinality(HeldIn(s)) + Cardinality(CloningIn(s))
  BY CountedBySets
<1>2. CloningIn(s) \subseteq HeldIn(s)
  BY DEF CloningIn, HeldIn, Held, DropPCs
<1>3. CASE HeldIn(s) = {}
  <2>1. CloningIn(s) = {}
    BY <1>2, <1>3
  <2> QED BY <1>1, <1>3, <2>1, FS_EmptySet DEF HeldIn
<1>4. CASE HeldIn(s) # {}
  <2>1. count[s] # 0
    BY <1>1, <1>4, Cards
  <2> QED BY <1>4, <2>1 DEF HeldIn
<1> QED BY <1>3, <1>4

LEMMA HeldIsCounted ==
  ASSUME CountsHandles, chan = "live", NEW h \in Handles, Held(h)
  PROVE  count[Side(h)] # 0
  BY ZeroMeansNone, SideFacts

\* How the sets change when one handle moves.
LEMMA Moves ==
  ASSUME HandleTypes, NEW h \in Handles, NEW to \in PCs, pc' = [pc EXCEPT ![h] = to]
  PROVE  /\ \A s \in Sides \ {Side(h)} : HeldIn(s)' = HeldIn(s) /\ CloningIn(s)' = CloningIn(s)
         /\ HeldIn(Side(h))' = IF to \in HeldPCs THEN HeldIn(Side(h)) \cup {h}
                                                 ELSE HeldIn(Side(h)) \ {h}
         /\ CloningIn(Side(h))' = IF to = "clone_alloc" THEN CloningIn(Side(h)) \cup {h}
                                                        ELSE CloningIn(Side(h)) \ {h}
  BY DEF HandleTypes, HeldIn, CloningIn, Held, HeldPCs

\* ... and how many handles they hold then.
LEMMA Counts ==
  ASSUME HandleTypes, NEW h \in Handles, NEW to \in PCs, pc' = [pc EXCEPT ![h] = to]
  PROVE  /\ Cardinality(HeldIn(Side(h))') = Cardinality(HeldIn(Side(h)))
                 + (IF to \in HeldPCs THEN 1 ELSE 0) - (IF Held(h) THEN 1 ELSE 0)
         /\ Cardinality(CloningIn(Side(h))') = Cardinality(CloningIn(Side(h)))
                 + (IF to = "clone_alloc" THEN 1 ELSE 0) - (IF pc[h] = "clone_alloc" THEN 1 ELSE 0)
<1> DEFINE H == HeldIn(Side(h))
           C == CloningIn(Side(h))
<1>1. (h \in H <=> Held(h)) /\ (h \in C <=> pc[h] = "clone_alloc")
  BY DEF HeldIn, CloningIn
<1>2. /\ Cardinality(H \cup {h}) = IF h \in H THEN Cardinality(H) ELSE Cardinality(H) + 1
      /\ Cardinality(H \ {h}) = IF h \in H THEN Cardinality(H) - 1 ELSE Cardinality(H)
      /\ Cardinality(C \cup {h}) = IF h \in C THEN Cardinality(C) ELSE Cardinality(C) + 1
      /\ Cardinality(C \ {h}) = IF h \in C THEN Cardinality(C) - 1 ELSE Cardinality(C)
      /\ Cardinality(H) \in Nat /\ Cardinality(C) \in Nat
  BY Cards, FS_AddElement, FS_RemoveElement
<1>3. /\ HeldIn(Side(h))' = IF to \in HeldPCs THEN H \cup {h} ELSE H \ {h}
      /\ CloningIn(Side(h))' = IF to = "clone_alloc" THEN C \cup {h} ELSE C \ {h}
  BY Moves
<1> HIDE DEF H, C
<1>4. Cardinality(HeldIn(Side(h))') =
        Cardinality(H) + (IF to \in HeldPCs THEN 1 ELSE 0) - (IF Held(h) THEN 1 ELSE 0)
  <2>1. CASE to \in HeldPCs BY <1>1, <1>2, <1>3, <2>1
  <2>2. CASE to \notin HeldPCs BY <1>1, <1>2, <1>3, <2>2
  <2> QED BY <2>1, <2>2
<1>5. Cardinality(CloningIn(Side(h))') =
        Cardinality(C) + (IF to = "clone_alloc" THEN 1 ELSE 0) - (IF pc[h] = "clone_alloc" THEN 1 ELSE 0)
  <2>1. CASE to = "clone_alloc" BY <1>1, <1>2, <1>3, <2>1
  <2>2. CASE to # "clone_alloc" BY <1>1, <1>2, <1>3, <2>2
  <2> QED BY <2>1, <2>2
<1> QED BY <1>4, <1>5 DEF H, C

\* One handle moves while the channel lives on, and its side's count follows.
LEMMA OneMoves ==
  ASSUME IInv, chan = "live", chan' = "live", NEW h \in Handles, NEW to \in PCs,
         pc' = [pc EXCEPT ![h] = to],
         count'[Side(h)] = count[Side(h)] + Weight(to) - Weight(pc[h]),
         \A s \in Sides \ {Side(h)} : count'[s] = count[s]
  PROVE  CountsHandles'
<1>1. \A s \in Sides : count[s] = Cardinality(HeldIn(s)) + Cardinality(CloningIn(s))
  BY CountedBySets DEF IInv
<1>2. Side(h) \in Sides /\ HandleTypes
  BY SideFacts DEF IInv
<1>3. count'[Side(h)] = Cardinality(HeldIn(Side(h))') + Cardinality(CloningIn(Side(h))')
  <2>1. count[Side(h)] \in Int
    BY <1>2 DEF HandleTypes
  <2>2. /\ Cardinality(HeldIn(Side(h))') = Cardinality(HeldIn(Side(h)))
               + (IF to \in HeldPCs THEN 1 ELSE 0) - (IF Held(h) THEN 1 ELSE 0)
        /\ Cardinality(CloningIn(Side(h))') = Cardinality(CloningIn(Side(h)))
               + (IF to = "clone_alloc" THEN 1 ELSE 0) - (IF pc[h] = "clone_alloc" THEN 1 ELSE 0)
    BY <1>2, Counts
  <2>3. Cardinality(HeldIn(Side(h))) \in Nat /\ Cardinality(CloningIn(Side(h))) \in Nat
    BY Cards
  <2>4. count[Side(h)] = Cardinality(HeldIn(Side(h))) + Cardinality(CloningIn(Side(h)))
    BY <1>1, <1>2
  <2>5. /\ Held(h) <=> pc[h] \in HeldPCs
        /\ "clone_alloc" \in HeldPCs
    BY <1>2 DEF Held, HeldPCs, HandleTypes, PCs, DropPCs
  <2>6. Weight(to) - Weight(pc[h]) =
                 (IF to \in HeldPCs THEN 1 ELSE 0) - (IF Held(h) THEN 1 ELSE 0)
               + (IF to = "clone_alloc" THEN 1 ELSE 0) - (IF pc[h] = "clone_alloc" THEN 1 ELSE 0)
    BY <2>5 DEF Weight
  <2>7. Weight(to) \in Int /\ Weight(pc[h]) \in Int
    BY DEF Weight
  <2> QED BY <2>1, <2>2, <2>3, <2>4, <2>6, <2>7
<1>4. \A s \in Sides \ {Side(h)} : count'[s] = Cardinality(HeldIn(s)') + Cardinality(CloningIn(s)')
  BY <1>1, <1>2, Moves DEF HandleTypes
<1>5. \A s \in Sides : count'[s] = Cardinality(HeldIn(s)') + Cardinality(CloningIn(s)')
  BY <1>3, <1>4
<1> QED BY <1>5 DEF CountsHandles, HeldIn, CloningIn

-----------------------------------------------------------------------------
(* The inductive invariant.                                                *)

LEMMA InitInv == Init => IInv
<1> SUFFICES ASSUME Init PROVE IInv
  OBVIOUS
<1>1. chan = "none" /\ count = [s \in Sides |-> 0] /\ disconnected = FALSE /\ pc = [h \in Handles |-> "none"]
  BY DEF Init
<1>2. HandleTypes
  <2>1. "none" \in PCs
    BY DEF PCs
  <2>2. count \in [Sides -> Int] /\ pc \in [Handles -> PCs]
    BY <1>1, <2>1
  <2>3. chan \in {"none", "live", "freed", "corrupt"} /\ disconnected \in BOOLEAN
    BY <1>1
  <2> QED BY <2>2, <2>3 DEF HandleTypes
<1> QED BY <1>1, <1>2 DEF IInv, CountsHandles, OnlyWhileLive, LastOnes

\* What a call does between its first step and its answer leaves the counts alone.
Inside(h) ==
  \/ \E v \in Values : TrySend(h, v)
  \/ TryRecv(h)
  \/ SendCheck(h) \/ Enqueue(h) \/ EnqueueAlloc(h) \/ EnqueueLock(h) \/ EnqueueLink(h)
  \/ SendFailed(h) \/ Dequeue(h) \/ DequeueFree(h) \/ RecvCheck(h) \/ Return(h)

LEMMA InsideMoves ==
  ASSUME NEW h \in Handles, Inside(h)
  PROVE  /\ UNCHANGED <<chan, count, disconnected>>
         /\ pc[h] \in HeldPCs \ {"clone_alloc"}
         /\ \E to \in HeldPCs \ {"clone_alloc"} : pc' = [pc EXCEPT ![h] = to]
<1> USE DEF shared, Goto, HeldPCs, PCs, DropPCs
<1>1. CASE (\E v \in Values : TrySend(h, v)) \/ TryRecv(h) \/ Return(h)
  BY <1>1 DEF TrySend, TryRecv, Return
<1>2. CASE SendCheck(h) \/ Enqueue(h) \/ SendFailed(h) \/ RecvCheck(h)
  BY <1>2 DEF SendCheck, Enqueue, SendFailed, RecvCheck, Answer
<1>3. CASE EnqueueAlloc(h) \/ EnqueueLock(h) \/ EnqueueLink(h)
  BY <1>3 DEF EnqueueAlloc, EnqueueLock, EnqueueLink, Answer
<1>4. CASE Dequeue(h) \/ DequeueFree(h)
  BY <1>4 DEF Dequeue, DequeueFree, Answer
<1> QED BY <1>1, <1>2, <1>3, <1>4 DEF Inside

\* A handle in use goes on to be in use: LastOnes stays, whatever is added to its
\* side's count as long as the count does not become zero.
LEMMA StillHeld ==
  ASSUME IInv, chan = "live", UNCHANGED <<chan, disconnected>>, HandleTypes', CountsHandles',
         \A h \in Handles : pc'[h] \in DropPCs => pc'[h] = pc[h],
         NEW g \in Handles, Held(g),
         \A s \in Sides \ {Side(g)} : count'[s] = count[s]
  PROVE  IInv'
<1>1. \A s \in Sides : count[s] = 0 => count'[s] = 0
  BY HeldIsCounted DEF IInv
<1>2. LastOnes'
  BY <1>1, SideFacts DEF IInv, LastOnes, DropPCs
<1>3. OnlyWhileLive'
  BY DEF OnlyWhileLive
<1> QED BY <1>2, <1>3 DEF IInv

LEMMA InsideStep ==
  ASSUME IInv, chan = "live", NEW h \in Handles, Inside(h) PROVE IInv'
<1>1. PICK to \in HeldPCs \ {"clone_alloc"} : pc' = [pc EXCEPT ![h] = to]
  BY InsideMoves
<1>2. UNCHANGED <<chan, count, disconnected>> /\ pc[h] \in HeldPCs \ {"clone_alloc"} /\ Held(h)
  BY InsideMoves DEF HeldPCs, Held
<1>3. HandleTypes'
  BY <1>1, <1>2 DEF IInv, HandleTypes, HeldPCs
<1>4. to \in PCs /\ count'[Side(h)] = count[Side(h)] + Weight(to) - Weight(pc[h])
  BY <1>2, SideFacts DEF IInv, HandleTypes, HeldPCs, Weight
<1>5. CountsHandles'
  BY <1>1, <1>2, <1>4, OneMoves
<1>6. \A g \in Handles : pc'[g] \in DropPCs => pc'[g] = pc[g]
  BY <1>1 DEF IInv, HandleTypes, HeldPCs
<1> QED BY <1>2, <1>3, <1>5, <1>6, StillHeld

LEMMA CloneStep ==
  ASSUME IInv, chan = "live", NEW h \in Handles, Clone(h) PROVE IInv'
<1>1. /\ pc[h] = "idle" /\ pc' = [pc EXCEPT ![h] = "clone_alloc"]
      /\ count' = [count EXCEPT ![Side(h)] = @ + 1] /\ UNCHANGED <<chan, disconnected>>
  BY DEF Clone, Goto
<1>2. Held(h) /\ "clone_alloc" \in HeldPCs \cap PCs /\ "clone_alloc" \notin DropPCs
  BY <1>1 DEF Held, HeldPCs, PCs, DropPCs
<1>3. HandleTypes'
  BY <1>1, <1>2, SideFacts DEF IInv, HandleTypes
<1>4. CountsHandles'
  <2>1. Weight("clone_alloc") = 2 /\ Weight(pc[h]) = 1
    BY <1>1, <1>2 DEF Weight, HeldPCs, Held, PCs
  <2>2. count'[Side(h)] = count[Side(h)] + Weight("clone_alloc") - Weight(pc[h])
    BY <1>1, <2>1, SideFacts DEF IInv, HandleTypes
  <2>3. \A s \in Sides \ {Side(h)} : count'[s] = count[s]
    BY <1>1 DEF IInv, HandleTypes
  <2> QED BY <1>1, <1>2, <2>2, <2>3, OneMoves
<1>5. \A g \in Handles : pc'[g] \in DropPCs => pc'[g] = pc[g]
  BY <1>1, <1>2 DEF IInv, HandleTypes
<1>6. \A s \in Sides \ {Side(h)} : count'[s] = count[s]
  BY <1>1 DEF IInv, HandleTypes
<1> QED BY <1>1, <1>2, <1>3, <1>4, <1>5, <1>6, StillHeld

LEMMA CloneAllocStep ==
  ASSUME IInv, chan = "live", NEW h \in Handles, CloneAlloc(h) PROVE IInv'
<1>1. /\ pc[h] = "clone_alloc" /\ Held(h) /\ UNCHANGED <<chan, disconnected>>
      /\ {"idle", "clone_alloc", "none"} \subseteq PCs /\ "idle" \in HeldPCs /\ "idle" \notin DropPCs
  BY DEF CloneAlloc, Held, HeldPCs, PCs, DropPCs
<1>2. CASE pc' = [pc EXCEPT ![h] = "idle"] /\ count' = [count EXCEPT ![Side(h)] = @ - 1]
  <2>1. HandleTypes'
    BY <1>1, <1>2, SideFacts DEF IInv, HandleTypes
  <2>2. count'[Side(h)] = count[Side(h)] + Weight("idle") - Weight(pc[h])
    <3>1. Weight("idle") = 1 /\ Weight(pc[h]) = 2
      BY <1>1 DEF Weight
    <3> QED BY <1>2, <3>1, SideFacts DEF IInv, HandleTypes
  <2>3. CountsHandles'
    <3>1. \A s \in Sides \ {Side(h)} : count'[s] = count[s]
      BY <1>2 DEF IInv, HandleTypes
    <3> QED BY <1>1, <1>2, <2>2, <3>1, OneMoves
  <2>4. \A g \in Handles : pc'[g] \in DropPCs => pc'[g] = pc[g]
    BY <1>1, <1>2 DEF IInv, HandleTypes
  <2>5. \A s \in Sides \ {Side(h)} : count'[s] = count[s]
    BY <1>2 DEF IInv, HandleTypes
  <2> QED BY <1>1, <2>1, <2>3, <2>4, <2>5, StillHeld
<1>3. ASSUME NEW g \in Handles, Side(g) = Side(h), pc[g] = "none",
             pc' = [pc EXCEPT ![h] = "idle", ![g] = "idle"], UNCHANGED count
      PROVE  IInv'
  <2>1. HandleTypes'
    BY <1>1, <1>3 DEF IInv, HandleTypes
  <2>2. /\ HeldIn(Side(h))' = HeldIn(Side(h)) \cup {g} /\ g \notin HeldIn(Side(h))
        /\ CloningIn(Side(h))' = CloningIn(Side(h)) \ {h} /\ h \in CloningIn(Side(h))
    BY <1>1, <1>3 DEF IInv, HandleTypes, HeldIn, CloningIn, Held, DropPCs
  <2>3. \A s \in Sides \ {Side(h)} : HeldIn(s)' = HeldIn(s) /\ CloningIn(s)' = CloningIn(s)
    BY <1>1, <1>3 DEF IInv, HandleTypes, HeldIn, CloningIn, Held
  <2>4. /\ Cardinality(HeldIn(Side(h)) \cup {g}) = Cardinality(HeldIn(Side(h))) + 1
        /\ Cardinality(CloningIn(Side(h)) \ {h}) = Cardinality(CloningIn(Side(h))) - 1
    BY <2>2, Cards, FS_AddElement, FS_RemoveElement
  <2>5. \A s \in Sides : Cardinality(HeldIn(s)) \in Nat /\ Cardinality(CloningIn(s)) \in Nat
    BY Cards
  <2>6. \A s \in Sides : count'[s] = Cardinality(HeldIn(s)') + Cardinality(CloningIn(s)')
    <3>1. \A s \in Sides : count[s] = Cardinality(HeldIn(s)) + Cardinality(CloningIn(s))
      BY CountedBySets DEF IInv
    <3>2. Side(h) \in Sides
      BY SideFacts
    <3>3. count'[Side(h)] = Cardinality(HeldIn(Side(h))') + Cardinality(CloningIn(Side(h))')
      BY <1>3, <2>2, <2>4, <2>5, <3>1, <3>2
    <3>4. \A s \in Sides \ {Side(h)} : count'[s] = Cardinality(HeldIn(s)') + Cardinality(CloningIn(s)')
      BY <1>3, <2>3, <3>1
    <3> QED BY <3>3, <3>4
  <2>7. CountsHandles'
    BY <2>6 DEF CountsHandles, HeldIn, CloningIn
  <2>8. \A u \in Handles : pc'[u] \in DropPCs => pc'[u] = pc[u]
    BY <1>1, <1>3 DEF IInv, HandleTypes
  <2> QED BY <1>1, <1>3, <2>1, <2>7, <2>8, StillHeld
<1> QED BY <1>2, <1>3 DEF CloneAlloc

\* A dropped handle is held by nobody from the decrement on.
LEMMA DropStep ==
  ASSUME IInv, chan = "live", NEW h \in Handles, Drop(h) PROVE IInv'
<1> DEFINE to == IF count[Side(h)] = 1 THEN "drop_disconnect" ELSE "none"
<1>1. /\ pc[h] = "idle" /\ pc' = [pc EXCEPT ![h] = to]
      /\ count' = [count EXCEPT ![Side(h)] = @ - 1] /\ UNCHANGED <<chan, disconnected>>
  BY DEF Drop, Goto
<1>2. Held(h) /\ to \in PCs \ HeldPCs /\ to \notin {"clone_alloc", "drop_check", "destroy", "destroy_free"}
  BY <1>1 DEF Held, HeldPCs, PCs, DropPCs
<1>3. HandleTypes'
  BY <1>1, <1>2, SideFacts DEF IInv, HandleTypes
<1>4. CountsHandles'
  <2>1. Weight(to) = 0 /\ Weight(pc[h]) = 1
    BY <1>1, <1>2 DEF Weight, HeldPCs, Held, PCs
  <2>2. count'[Side(h)] = count[Side(h)] + Weight(to) - Weight(pc[h])
    BY <1>1, <2>1, SideFacts DEF IInv, HandleTypes
  <2>3. \A s \in Sides \ {Side(h)} : count'[s] = count[s]
    BY <1>1 DEF IInv, HandleTypes
  <2> HIDE DEF to
  <2> QED BY <1>1, <1>2, <2>2, <2>3, OneMoves
<1>5. \A s \in Sides : count[s] = 0 => count'[s] = 0
  BY <1>1, <1>2, HeldIsCounted DEF IInv, HandleTypes
<1>6. LastOnes'
  <2>1. ASSUME NEW g \in Handles, pc'[g] \in DropPCs PROVE count'[Side(g)] = 0
    <3>1. CASE g = h
      BY <1>1, <2>1, <3>1, SideFacts DEF IInv, HandleTypes, DropPCs
    <3>2. CASE g # h
      BY <1>1, <1>5, <2>1, <3>2, SideFacts DEF IInv, HandleTypes, LastOnes
    <3> QED BY <3>1, <3>2
  <2>2. ASSUME NEW g \in Handles, pc'[g] \in {"destroy", "destroy_free"}
        PROVE  \A s \in Sides : count'[s] = 0
    BY <1>1, <1>2, <1>5, <2>2 DEF IInv, HandleTypes, LastOnes
  <2>3. disconnected' => \E s \in Sides : count'[s] = 0
    BY <1>1, <1>5 DEF IInv, LastOnes
  <2> QED BY <2>1, <2>2, <2>3 DEF LastOnes
<1>7. OnlyWhileLive'
  BY <1>1 DEF OnlyWhileLive
<1> QED BY <1>3, <1>4, <1>6, <1>7 DEF IInv

\* The rest of a drop touches no count.
LEMMA LeaveStep ==
  ASSUME IInv, chan = "live", NEW h \in Handles,
         DropDisconnect(h) \/ DropCheck(h) \/ DestroyNodes(h) \/ DestroyFree(h)
  PROVE  IInv'
<1>1. PICK to \in {"drop_check", "destroy", "destroy_free", "none"} :
        /\ pc[h] \in DropPCs /\ pc' = [pc EXCEPT ![h] = to] /\ UNCHANGED count
        /\ to \in {"destroy", "destroy_free"} => \A s \in Sides : count[s] = 0
        /\ disconnected' # disconnected => count[Side(h)] = 0
        /\ disconnected' \in BOOLEAN
        /\ \/ chan' = "live"
           \/ chan' = "freed" /\ \A s \in Sides : count[s] = 0
  <2> USE DEF Goto, shared, DropPCs
  <2>1. pc[h] \in DropPCs => count[Side(h)] = 0
    BY DEF IInv, LastOnes
  <2>2. CASE DropDisconnect(h)
    BY <2>1, <2>2 DEF DropDisconnect
  <2>3. CASE DropCheck(h)
    <3>1. pc[h] = "drop_check" /\ UNCHANGED <<count, chan, disconnected>>
      BY <2>3 DEF DropCheck
    <3>2. CASE count[Opposite(Side(h))] = 0
      <4>1. \A s \in Sides : count[s] = 0
        BY <2>1, <3>1, <3>2, SideFacts
      <4> QED BY <2>3, <3>1, <3>2, <4>1 DEF DropCheck, IInv, HandleTypes
    <3>3. CASE count[Opposite(Side(h))] # 0
      BY <2>3, <3>1, <3>3 DEF DropCheck, IInv, HandleTypes
    <3> QED BY <3>2, <3>3
  <2>4. CASE DestroyNodes(h)
    BY <2>4 DEF DestroyNodes, IInv, LastOnes, HandleTypes
  <2>5. CASE DestroyFree(h)
    BY <2>5 DEF DestroyFree, IInv, LastOnes, HandleTypes
  <2> QED BY <2>2, <2>3, <2>4, <2>5
<1>2. to \in PCs /\ to \notin HeldPCs /\ to # "clone_alloc" /\ ~Held(h) /\ pc[h] # "clone_alloc"
  BY <1>1 DEF Held, HeldPCs, PCs, DropPCs
<1>3. HandleTypes'
  BY <1>1, <1>2 DEF IInv, HandleTypes
<1>4. CountsHandles'
  <2>1. Weight(to) = 0 /\ Weight(pc[h]) = 0
    BY <1>1, <1>2 DEF Weight, Held, HeldPCs
  <2>2. count'[Side(h)] = count[Side(h)] + Weight(to) - Weight(pc[h])
    BY <1>1, <2>1, SideFacts DEF IInv, HandleTypes
  <2>3. CASE chan' = "live"
    BY <1>1, <1>2, <2>2, <2>3, OneMoves
  <2> QED BY <2>3 DEF CountsHandles
<1>5. LastOnes'
  BY <1>1, SideFacts DEF IInv, LastOnes, HandleTypes, DropPCs
<1>6. OnlyWhileLive'
  <2>1. CASE chan' = "freed"
    <3>1. \A g \in Handles : ~Held(g)
      BY <1>1, <2>1, HeldIsCounted, SideFacts DEF IInv
    <3>2. \A g \in Handles : ~Held(g)'
      BY <1>1, <1>2, <3>1 DEF Held, IInv, HandleTypes, DropPCs
    <3> QED BY <2>1, <3>2 DEF OnlyWhileLive
  <2> QED BY <1>1, <2>1 DEF OnlyWhileLive
<1> QED BY <1>3, <1>4, <1>5, <1>6 DEF IInv

LEMMA CreateStep ==
  ASSUME IInv, Create PROVE IInv'
<1>1. PICK tx \in Senders, rx \in Receivers : pc' = [pc EXCEPT ![tx] = "idle", ![rx] = "idle"]
  BY DEF Create
<1>2. /\ chan = "none" /\ chan' = "live" /\ ~disconnected /\ UNCHANGED disconnected
      /\ count' = [s \in Sides |-> 1] /\ \A h \in Handles : pc[h] = "none"
  BY DEF Create, IInv, OnlyWhileLive
<1>3. {tx, rx} \subseteq Handles /\ Side(tx) = "sender" /\ Side(rx) = "receiver" /\ tx # rx
  BY HandlesAssumption DEF Handles, Side
<1>4. HandleTypes'
  <2>1. "idle" \in PCs
    BY DEF PCs
  <2>2. count' \in [Sides -> Int]
    BY <1>2
  <2>3. pc' \in [Handles -> PCs]
    BY <1>1, <1>3, <2>1 DEF IInv, HandleTypes
  <2> QED BY <1>2, <2>2, <2>3 DEF IInv, HandleTypes
<1>5. \A h \in Handles : pc'[h] = IF h \in {tx, rx} THEN "idle" ELSE "none"
  BY <1>1, <1>2, <1>3 DEF IInv, HandleTypes
<1>6. /\ HeldIn("sender")' = {tx} /\ HeldIn("receiver")' = {rx}
      /\ \A s \in Sides : CloningIn(s)' = {}
  BY <1>3, <1>5 DEF HeldIn, CloningIn, Held, DropPCs
<1>7. CountsHandles'
  <2>1. \A s \in Sides : count'[s] = Cardinality(HeldIn(s)') + Cardinality(CloningIn(s)')
    <3>1. Cardinality({tx}) = 1 /\ Cardinality({rx}) = 1 /\ Cardinality({}) = 0
      BY FS_Singleton, FS_EmptySet
    <3>2. /\ count'["sender"] = Cardinality(HeldIn("sender")') + Cardinality(CloningIn("sender")')
          /\ count'["receiver"] = Cardinality(HeldIn("receiver")') + Cardinality(CloningIn("receiver")')
      BY <1>2, <1>6, <3>1 DEF Sides
    <3> QED BY <3>2 DEF Sides
  <2> QED BY <2>1 DEF CountsHandles, HeldIn, CloningIn
<1>8. LastOnes'
  BY <1>2, <1>5 DEF LastOnes, DropPCs
<1> QED BY <1>2, <1>4, <1>7, <1>8 DEF IInv, OnlyWhileLive

LEMMA CreateFailsStep == ASSUME IInv, CreateFails PROVE IInv'
<1>1. /\ chan = "none" /\ chan' = "freed" /\ UNCHANGED <<count, disconnected, pc>>
  BY DEF CreateFails
<1> QED BY <1>1 DEF IInv, HandleTypes, CountsHandles, OnlyWhileLive, LastOnes, Held

LEMMA UseAfterFreeStep ==
  ASSUME IInv, NEW h \in Handles, UseAfterFree(h) PROVE IInv'
<1>1. chan' = "corrupt" /\ UNCHANGED <<count, disconnected, pc>>
  BY DEF UseAfterFree
<1>2. \A g \in Handles : ~Held(g)
  <2>1. CASE chan = "freed"
    BY <2>1 DEF IInv, OnlyWhileLive
  <2>2. CASE chan = "live" /\ pc[h] = "destroy"
    BY <2>2, HeldIsCounted, SideFacts DEF IInv, LastOnes
  <2> QED BY <2>1, <2>2 DEF UseAfterFree
<1> QED BY <1>1, <1>2 DEF IInv, HandleTypes, CountsHandles, OnlyWhileLive, LastOnes, Held

LEMMA StutterStep == IInv /\ UNCHANGED vars => IInv'
  BY DEF vars, IInv, HandleTypes, CountsHandles, OnlyWhileLive, LastOnes, Held

LEMMA NextInv == IInv /\ [Next]_vars => IInv'
<1> SUFFICES ASSUME IInv, [Next]_vars PROVE IInv'
  OBVIOUS
<1>1. CASE Create BY <1>1, CreateStep
<1>2. ASSUME chan = "live", NEW h \in Handles, Begin(h) \/ Continue(h) PROVE IInv'
  <2>1. CASE Inside(h) BY <1>2, <2>1, InsideStep
  <2>2. CASE Clone(h) BY <1>2, <2>2, CloneStep
  <2>3. CASE CloneAlloc(h) BY <1>2, <2>3, CloneAllocStep
  <2>4. CASE Drop(h) BY <1>2, <2>4, DropStep
  <2>5. CASE DropDisconnect(h) \/ DropCheck(h) \/ DestroyNodes(h) \/ DestroyFree(h)
    BY <1>2, <2>5, LeaveStep
  <2> QED BY <1>2, <2>1, <2>2, <2>3, <2>4, <2>5 DEF Begin, Continue, Inside
<1>3. CASE \E h \in Handles : UseAfterFree(h) BY <1>3, UseAfterFreeStep
<1>4. CASE UNCHANGED vars BY <1>4, StutterStep
<1>5. CASE CreateFails BY <1>5, CreateFailsStep
<1> QED BY <1>1, <1>2, <1>3, <1>4, <1>5 DEF Next, Over

\* The counts count, and a count that reached zero stays there: in every reachable
\* state, whatever the number of handles.
THEOREM Invariant == Spec => []IInv
<1>1. Init => IInv BY InitInv
<1>2. IInv /\ [Next]_vars => IInv' BY NextInv
<1> QED BY <1>1, <1>2, PTL DEF Spec

\* The channel is freed, or its memory misused, when no handle is left only, and
\* the counts by which the drops decide are right: also with a clone under way, in
\* both drops.
THEOREM HandlesKeepTheChannel == Spec => []HeldIsLive
<1>1. IInv => HeldIsLive
  <2> SUFFICES ASSUME IInv, NEW h \in Handles, Held(h) PROVE chan = "live"
    BY DEF HeldIsLive, IInv
  <2> QED BY DEF IInv, HandleTypes, OnlyWhileLive, Held
<1> QED BY <1>1, Invariant, PTL

\* Once disconnected, one of the sides has no handle, and no clone that was under
\* way makes one.
THEOREM DisconnectionsAreFinal == Spec => []DisconnectedIsFinal
<1>1. IInv => DisconnectedIsFinal
  BY ZeroMeansNone DEF IInv, LastOnes, DisconnectedIsFinal
<1> QED BY <1>1, Invariant, PTL

-----------------------------------------------------------------------------
(* The list.  The nodes from head along next are a function on the natural  *)
(* numbers, and there is one only.                                          *)

IsWalk(q, hd, nx) ==
  q = [k \in Nat |-> IF k <= 1 THEN hd ELSE IF q[k - 1] \in Nodes THEN nx[q[k - 1]] ELSE NULL]

LEMMA LeastNumber ==
  ASSUME NEW D, D \subseteq Nat, D # {}
  PROVE  \E m \in D : \A k \in D : m <= k
<1> DEFINE R == OpToRel(<, Nat)
<1>1. IsWellFoundedOn(R, Nat)
  BY NatLessThanWellFounded
<1>2. \A k, m \in Nat : k < m => <<k, m>> \in R
  BY DEF OpToRel
<1> HIDE DEF R
<1>3. PICK m \in D : \A k \in D : ~(<<k, m>> \in R)
  BY <1>1, WFMin
<1>4. \A k \in D : ~(k < m)
  BY <1>2, <1>3
<1> QED BY <1>4

LEMMA OneWalk ==
  ASSUME NEW hd, NEW nx, NEW p, NEW q, IsWalk(p, hd, nx), IsWalk(q, hd, nx)
  PROVE  p = q
<1> DEFINE D == {k \in Nat : p[k] # q[k]}
<1>0. p = [k \in Nat |-> p[k]] /\ q = [k \in Nat |-> q[k]]
  BY DEF IsWalk
<1>1. CASE D = {}
  <2>1. \A k \in Nat : p[k] = q[k]
    BY <1>1
  <2> QED BY <1>0, <2>1
<1>2. CASE D # {}
  <2>1. PICK m \in D : \A k \in D : m <= k
    BY <1>2, LeastNumber
  <2>2. \A k \in Nat : /\ p[k] = IF k <= 1 THEN hd ELSE IF p[k - 1] \in Nodes THEN nx[p[k - 1]] ELSE NULL
                       /\ q[k] = IF k <= 1 THEN hd ELSE IF q[k - 1] \in Nodes THEN nx[q[k - 1]] ELSE NULL
    BY DEF IsWalk
  <2>3. m > 1
    BY <2>1, <2>2
  <2>4. p[m - 1] = q[m - 1]
    BY <2>1, <2>3
  <2>5. p[m] = q[m]
    BY <2>1, <2>2, <2>3, <2>4
  <2> QED BY <2>1, <2>5
<1> QED BY <1>1, <1>2

\* A walk from head along next is the chain.
ChainIsTheWalk == \A q : IsWalk(q, head, next) => chain = q

LEMMA WalkIsChain == ChainIsTheWalk
<1> SUFFICES ASSUME NEW q, IsWalk(q, head, next) PROVE chain = q
  BY DEF ChainIsTheWalk
<1>1. chain = CHOOSE p : IsWalk(p, head, next)
  BY DEF chain, IsWalk
<1>2. IsWalk(chain, head, next)
  BY <1>1
<1> QED BY <1>2, OneWalk

\* What a node that is not on the walk points to does not matter to it.
LEMMA WalkStays ==
  ASSUME NEW q, NEW hd, NEW nx, NEW ny, IsWalk(q, hd, nx),
         \A k \in Nat : q[k] \in Nodes /\ k > 0 => ny[q[k]] = nx[q[k]]
  PROVE  IsWalk(q, hd, ny)
<1>1. q = [k \in Nat |-> q[k]]
  BY DEF IsWalk
<1>2. \A k \in Nat : q[k] = IF k <= 1 THEN hd ELSE IF q[k - 1] \in Nodes THEN nx[q[k - 1]] ELSE NULL
  BY DEF IsWalk
<1>3. \A k \in Nat : q[k] = IF k <= 1 THEN hd ELSE IF q[k - 1] \in Nodes THEN ny[q[k - 1]] ELSE NULL
  BY <1>2
<1> QED BY <1>1, <1>3 DEF IsWalk

-----------------------------------------------------------------------------
(* The invariant of the list and of the nodes.                             *)

HandPCs == {"enqueue_lock", "enqueue_link", "dequeue_free"}
SendPCs == {"send_check", "enqueue", "enqueue_alloc", "enqueue_lock", "enqueue_link", "send_failed"}
RecvPCs == {"dequeue", "dequeue_free", "recv_check"}

\* The walk q is the list: len different nodes that are in nobody's hand, and
\* nothing after the tail.
ListAlong(q) ==
  /\ IsWalk(q, head, next)
  /\ \A k \in Nat : k > len => q[k] = NULL
  /\ \A k \in 1 .. len : q[k] \in heap \ InHand
  /\ \A j, k \in 1 .. len : q[j] = q[k] => j = k
  /\ tail = IF len = 0 THEN NULL ELSE q[len]
  /\ heap = {q[k] : k \in 1 .. len} \cup InHand

\* Nobody has begun to free.
InUse == chan \in {"none", "live"} /\ \A h \in Handles : pc[h] # "destroy_free"

OnList == InUse => \E q : ListAlong(q)

NodesInHand ==
  /\ \A h \in Handles : node[h] # NULL <=> pc[h] \in HandPCs
  /\ \A g, h \in Handles : g # h /\ node[g] # NULL => node[g] # node[h]
  /\ \A h \in Handles : pc[h] \in {"enqueue_lock", "enqueue_link"} =>
                          next[node[h]] = NULL /\ data[node[h]] = msg[h]

MutexHeld == \A h \in Handles : mutex = h <=> pc[h] = "enqueue_link"

CallsOfSides ==
  \A h \in Handles :
    /\ pc[h] \in SendPCs => h \in Senders /\ msg[h] \in Values
    /\ pc[h] \in RecvPCs => h \in Receivers

\* A channel begins without a message.  Whoever destroys it finds it disconnected; the
\* nodes go first, then the channel, and before that somebody is there to free it.
Leaving ==
  /\ \A h \in Handles : pc[h] \in {"drop_check", "destroy", "destroy_free"} => disconnected
  /\ ~InUse /\ chan # "corrupt" => heap = {}
  /\ chan \in {"live", "corrupt"} => \E h \in Handles : pc[h] # "none"
  /\ chan = "none" => len = 0 /\ heap = {}

LInv == TypeOK /\ NodesInHand /\ MutexHeld /\ CallsOfSides /\ Leaving /\ OnList

LEMMA InitList == Init => LInv
<1> SUFFICES ASSUME Init PROVE LInv
  OBVIOUS
<1> USE DEF Init
<1>1. TypeOK
  <2>1. "none" \in PCs /\ Sides # {}
    BY DEF PCs, Sides
  <2>2. /\ next \in [Nodes -> Nodes \cup {NULL}] /\ data \in [Nodes -> Values \cup {NULL}]
        /\ count \in [Sides -> Nat] /\ pc \in [Handles -> PCs]
        /\ node \in [Handles -> Nodes \cup {NULL}] /\ msg \in [Handles -> Values \cup {NULL}]
        /\ ret \in [Handles -> {NULL, "ok", "full", "empty", "disconnected"}]
    BY <2>1
  <2> QED BY <2>2 DEF TypeOK
<1>2. NodesInHand /\ CallsOfSides
  BY DEF NodesInHand, HandPCs, CallsOfSides, SendPCs, RecvPCs
<1>3. MutexHeld
  BY HandlesAssumption DEF MutexHeld, Handles
<1>4. Leaving
  BY DEF Leaving, InUse
<1>5. ListAlong([k \in Nat |-> NULL])
  <2> DEFINE q == [k \in Nat |-> NULL]
  <2>1. IsWalk(q, NULL, next)
    BY NodesAssumption DEF IsWalk
  <2>2. InHand = {} /\ 1 .. len = {}
    BY DEF InHand
  <2> HIDE DEF q
  <2>3. \A k \in Nat : q[k] = NULL
    BY DEF q
  <2>4. ListAlong(q)
    BY <2>1, <2>2, <2>3 DEF ListAlong
  <2> QED BY <2>4 DEF q
<1>6. OnList
  BY <1>5 DEF OnList
<1> QED BY <1>1, <1>2, <1>3, <1>4, <1>6 DEF LInv

-----------------------------------------------------------------------------
(* The steps, by what they do to the nodes.                                *)

LEMMA InUseWhileHeld ==
  ASSUME IInv, chan = "live", NEW h \in Handles, Held(h)
  PROVE  InUse
<1>1. count[Side(h)] # 0 /\ Side(h) \in Sides
  BY HeldIsCounted, SideFacts DEF IInv
<1>2. \A g \in Handles : pc[g] # "destroy_free"
  BY <1>1 DEF IInv, LastOnes
<1> QED BY <1>2 DEF InUse

LEMMA NobodyHeldAtTheEnd ==
  ASSUME IInv, LInv, chan = "live", NEW h \in Handles, pc[h] \in {"destroy", "destroy_free"}
  PROVE  InHand = {}
<1>1. \A g \in Handles : ~Held(g)
  BY HeldIsCounted, SideFacts DEF IInv, LastOnes
<1>2. \A g \in Handles : pc[g] \notin HandPCs
  BY <1>1 DEF Held, HandPCs, DropPCs
<1> QED BY <1>2 DEF LInv, NodesInHand, InHand

\* What a handle gets into its hand, and what it gives away.
LEMMA Takes ==
  ASSUME NEW h \in Handles, NEW n, n # NULL, node[h] = NULL, node \in [Handles -> Nodes \cup {NULL}],
         node' = [node EXCEPT ![h] = n]
  PROVE  InHand' = InHand \cup {n}
  BY DEF InHand

LEMMA Gives ==
  ASSUME NEW h \in Handles, NodesInHand, node \in [Handles -> Nodes \cup {NULL}],
         node[h] # NULL, node' = [node EXCEPT ![h] = NULL]
  PROVE  InHand' = InHand \ {node[h]}
  BY DEF InHand, NodesInHand

\* A step that leaves the list and all nodes alone.
Quiet ==
  /\ UNCHANGED <<head, tail, next, data, heap, len, mutex, node>>
  /\ \A g \in Handles : \/ pc'[g] = pc[g] /\ msg'[g] = msg[g]
                        \/ pc[g] \notin HandPCs /\ pc'[g] \notin HandPCs

LEMMA QuietStep ==
  ASSUME NodesInHand, MutexHeld, Quiet
  PROVE  NodesInHand' /\ MutexHeld' /\ \A q : ListAlong(q) => ListAlong(q)'
<1>1. NodesInHand'
  BY DEF NodesInHand, Quiet, HandPCs
<1>2. MutexHeld'
  BY DEF MutexHeld, Quiet, HandPCs
<1>3. InHand' = InHand
  BY DEF InHand, Quiet
<1>4. \A q : ListAlong(q) => ListAlong(q)'
  BY <1>3 DEF ListAlong, Quiet
<1> QED BY <1>1, <1>2, <1>4

\* A node is allocated for a message ...
LEMMA AllocateStep ==
  ASSUME LInv, NEW h \in Handles, NEW n \in Nodes \ heap, NEW q, ListAlong(q),
         Goto(h, "enqueue_alloc", "enqueue_lock"),
         heap' = heap \cup {n},
         data' = [data EXCEPT ![n] = msg[h]],
         next' = [next EXCEPT ![n] = NULL],
         node' = [node EXCEPT ![h] = n],
         UNCHANGED <<head, tail, len, mutex, msg>>
  PROVE  NodesInHand' /\ MutexHeld' /\ ListAlong(q)'
<1>1. pc \in [Handles -> PCs] /\ node \in [Handles -> Nodes \cup {NULL}] /\ n # NULL
  BY NodesAssumption DEF LInv, TypeOK
<1>2. node[h] = NULL
  BY DEF LInv, NodesInHand, Goto, HandPCs
<1>3. \A g \in Handles : node[g] # NULL => node[g] \in heap
  BY DEF ListAlong, InHand
<1>4. NodesInHand'
  <2>1. \A g \in Handles : node'[g] # NULL <=> pc'[g] \in HandPCs
    BY <1>1, <1>2 DEF LInv, NodesInHand, Goto, HandPCs
  <2>2. \A f, g \in Handles : f # g /\ node'[f] # NULL => node'[f] # node'[g]
    BY <1>1, <1>3 DEF LInv, NodesInHand
  <2>3. ASSUME NEW g \in Handles, pc'[g] \in {"enqueue_lock", "enqueue_link"}
        PROVE  next'[node'[g]] = NULL /\ data'[node'[g]] = msg'[g]
    <3>1. CASE g = h
      BY <1>1, <3>1 DEF LInv, TypeOK
    <3>2. CASE g # h
      <4>1. node'[g] = node[g] /\ pc'[g] = pc[g]
        BY <1>1, <3>2 DEF Goto
      <4>2. node[g] # NULL /\ node[g] # n
        BY <1>3, <2>3, <4>1 DEF LInv, NodesInHand, HandPCs
      <4> QED BY <1>1, <2>3, <4>1, <4>2 DEF LInv, NodesInHand, TypeOK
    <3> QED BY <3>1, <3>2
  <2> QED BY <2>1, <2>2, <2>3 DEF NodesInHand
<1>5. MutexHeld'
  BY <1>1 DEF LInv, MutexHeld, Goto
<1>6. ListAlong(q)'
  <2>1. InHand' = InHand \cup {n}
    BY <1>1, <1>2, Takes
  <2>2. \A k \in Nat : q[k] \in Nodes /\ k > 0 => k \in 1 .. len /\ q[k] # n
    BY NodesAssumption DEF ListAlong, LInv, TypeOK
  <2>3. IsWalk(q, head, next')
    <3>1. \A k \in Nat : q[k] \in Nodes /\ k > 0 => next'[q[k]] = next[q[k]]
      BY <2>2 DEF LInv, TypeOK
    <3>2. IsWalk(q, head, next)
      BY DEF ListAlong
    <3> QED BY <3>1, <3>2, WalkStays
  <2>4. \A k \in 1 .. len : q[k] \in heap' \ InHand'
    BY <2>1 DEF ListAlong
  <2>5. heap' = {q[k] : k \in 1 .. len} \cup InHand'
    BY <2>1 DEF ListAlong
  <2>6. /\ \A k \in Nat : k > len' => q[k] = NULL
        /\ \A j, k \in 1 .. len' : q[j] = q[k] => j = k
        /\ tail' = IF len' = 0 THEN NULL ELSE q[len']
    BY DEF ListAlong
  <2> QED BY <2>3, <2>4, <2>5, <2>6 DEF ListAlong
<1> QED BY <1>4, <1>5, <1>6

\* ... and freed, when the message is refused or once it is received.
LEMMA FreeStep ==
  ASSUME LInv, NEW h \in Handles, NEW q, ListAlong(q),
         pc[h] \in {"enqueue_lock", "dequeue_free"},
         NEW to \in PCs \ HandPCs, pc' = [pc EXCEPT ![h] = to],
         Free(node[h]),
         node' = [node EXCEPT ![h] = NULL],
         \A g \in Handles \ {h} : msg'[g] = msg[g],
         UNCHANGED <<head, tail, len, mutex>>
  PROVE  NodesInHand' /\ MutexHeld' /\ ListAlong(q)'
<1> DEFINE n == node[h]
<1>1. pc \in [Handles -> PCs] /\ node \in [Handles -> Nodes \cup {NULL}]
  BY DEF LInv, TypeOK
<1>2. n # NULL /\ n \in Nodes /\ n \in InHand
  BY <1>1 DEF LInv, NodesInHand, HandPCs, InHand
<1>3. NodesInHand'
  <2>1. \A g \in Handles : node'[g] # NULL <=> pc'[g] \in HandPCs
    BY <1>1 DEF LInv, NodesInHand, HandPCs
  <2>2. \A f, g \in Handles : f # g /\ node'[f] # NULL => node'[f] # node'[g]
    BY <1>1 DEF LInv, NodesInHand
  <2>3. ASSUME NEW g \in Handles, pc'[g] \in {"enqueue_lock", "enqueue_link"}
        PROVE  next'[node'[g]] = NULL /\ data'[node'[g]] = msg'[g]
    <3>1. g # h
      BY <1>1, <2>3 DEF HandPCs
    <3>2. node'[g] = node[g] /\ pc'[g] = pc[g] /\ msg'[g] = msg[g]
      BY <1>1, <3>1
    <3>3. node[g] # NULL /\ node[g] # n
      BY <1>2, <2>3, <3>1, <3>2 DEF LInv, NodesInHand, HandPCs
    <3> QED BY <1>1, <2>3, <3>2, <3>3 DEF LInv, NodesInHand, TypeOK, Free
  <2> QED BY <2>1, <2>2, <2>3 DEF NodesInHand
<1>4. MutexHeld'
  BY <1>1 DEF LInv, MutexHeld, HandPCs
<1>5. ListAlong(q)'
  <2>1. InHand' = InHand \ {n}
    BY <1>1, <1>2, Gives DEF LInv
  <2>2. \A k \in Nat : q[k] \in Nodes /\ k > 0 => k \in 1 .. len /\ q[k] # n
    BY <1>2, NodesAssumption DEF ListAlong, LInv, TypeOK
  <2>3. IsWalk(q, head, next')
    <3>1. \A k \in Nat : q[k] \in Nodes /\ k > 0 => next'[q[k]] = next[q[k]]
      BY <2>2 DEF LInv, TypeOK, Free
    <3>2. IsWalk(q, head, next)
      BY DEF ListAlong
    <3> QED BY <3>1, <3>2, WalkStays
  <2>4. \A k \in 1 .. len : q[k] \in heap' \ InHand'
    BY <1>2, <2>1 DEF ListAlong, Free
  <2>5. heap' = {q[k] : k \in 1 .. len} \cup InHand'
    <3>1. n \notin {q[k] : k \in 1 .. len}
      BY <1>2 DEF ListAlong
    <3>2. heap' = heap \ {n} /\ heap = {q[k] : k \in 1 .. len} \cup InHand
      BY DEF Free, ListAlong
    <3> QED BY <2>1, <3>1, <3>2
  <2>6. /\ \A k \in Nat : k > len' => q[k] = NULL
        /\ \A j, k \in 1 .. len' : q[j] = q[k] => j = k
        /\ tail' = IF len' = 0 THEN NULL ELSE q[len']
    BY DEF ListAlong
  <2> QED BY <2>3, <2>4, <2>5, <2>6 DEF ListAlong
<1> QED BY <1>3, <1>4, <1>5

\* A linked node is the last one.
LEMMA LinkStep ==
  ASSUME LInv, NEW h \in Handles, NEW q, ListAlong(q), EnqueueLink(h)
  PROVE  NodesInHand' /\ MutexHeld' /\ \E p : ListAlong(p)' /\ \A k \in 1 .. len : p[k] = q[k]
<1> DEFINE n == node[h]
<1>0. PICK p : p = [k \in Nat |-> IF k = len + 1 \/ (len = 0 /\ k = 0) THEN n ELSE q[k]]
  OBVIOUS
<1>1. /\ pc \in [Handles -> PCs] /\ node \in [Handles -> Nodes \cup {NULL}] /\ len \in Nat
      /\ next \in [Nodes -> Nodes \cup {NULL}] /\ NULL \notin Handles
  BY HandlesAssumption DEF LInv, TypeOK, Handles
<1>2. /\ pc[h] = "enqueue_link" /\ pc' = [pc EXCEPT ![h] = "ret"]
      /\ node' = [node EXCEPT ![h] = NULL] /\ mutex' = NULL /\ len' = len + 1 /\ tail' = n
      /\ UNCHANGED <<data, heap, msg>>
      /\ IF tail # NULL THEN next' = [next EXCEPT ![tail] = n] /\ head' = head
                        ELSE head' = n /\ next' = next
  BY DEF EnqueueLink, Answer, Goto
<1>3. n # NULL /\ n \in Nodes /\ n \in InHand /\ next[n] = NULL
  BY <1>1, <1>2 DEF LInv, NodesInHand, HandPCs, InHand
<1>4. InHand' = InHand \ {n}
  BY <1>1, <1>2, <1>3, Gives DEF LInv
<1>5. \A g \in Handles : node[g] # NULL => node[g] \in InHand /\ node[g] # tail
  BY <1>1, NodesAssumption DEF InHand, ListAlong
<1>6. NodesInHand'
  <2>1. \A g \in Handles : node'[g] # NULL <=> pc'[g] \in HandPCs
    BY <1>1, <1>2 DEF LInv, NodesInHand, HandPCs
  <2>2. \A f, g \in Handles : f # g /\ node'[f] # NULL => node'[f] # node'[g]
    BY <1>1, <1>2 DEF LInv, NodesInHand
  <2>3. ASSUME NEW g \in Handles, pc'[g] \in {"enqueue_lock", "enqueue_link"}
        PROVE  next'[node'[g]] = NULL /\ data'[node'[g]] = msg'[g]
    <3>1. g # h /\ node'[g] = node[g] /\ pc'[g] = pc[g]
      BY <1>1, <1>2, <2>3
    <3>2. node[g] # NULL /\ next[node[g]] = NULL /\ data[node[g]] = msg[g]
      BY <2>3, <3>1 DEF LInv, NodesInHand, HandPCs
    <3>3. next'[node[g]] = next[node[g]]
      BY <1>1, <1>2, <1>5, <3>2
    <3> QED BY <1>2, <3>1, <3>2, <3>3
  <2> QED BY <2>1, <2>2, <2>3 DEF NodesInHand
<1>7. MutexHeld'
  BY <1>1, <1>2 DEF LInv, MutexHeld
<1>8. /\ \A k \in Nat : k > len => q[k] = NULL
      /\ \A k \in 1 .. len : q[k] \in heap \ InHand /\ q[k] \in Nodes
      /\ \A j, k \in 1 .. len : q[j] = q[k] => j = k
      /\ tail = IF len = 0 THEN NULL ELSE q[len]
      /\ heap = {q[k] : k \in 1 .. len} \cup InHand
  BY DEF ListAlong, LInv, TypeOK
<1>9. \A k \in Nat : q[k] = IF k <= 1 THEN head ELSE IF q[k - 1] \in Nodes THEN next[q[k - 1]] ELSE NULL
  BY DEF ListAlong, IsWalk
<1>10. \A k \in Nat : p[k] = IF k = len + 1 \/ (len = 0 /\ k = 0) THEN n ELSE q[k]
  BY <1>0
<1>11. p = [k \in Nat |-> p[k]]
  BY <1>0
<1> HIDE DEF n
<1>12. ASSUME NEW k \in Nat
       PROVE  p[k] = IF k <= 1 THEN head' ELSE IF p[k - 1] \in Nodes THEN next'[p[k - 1]] ELSE NULL
  <2>1. CASE len = 0
    <3>1. tail = NULL /\ head' = n /\ next' = next
      BY <1>2, <1>8, <2>1 DEF n
    <3>2. CASE k <= 1
      BY <1>10, <2>1, <3>1, <3>2
    <3>3. CASE k = 2
      <4>1. p[k] = NULL /\ p[k - 1] = n
        BY <1>8, <1>10, <2>1, <3>3
      <4> QED BY <1>3, <3>1, <3>3, <4>1
    <3>4. CASE k > 2
      <4>1. p[k] = NULL /\ p[k - 1] = NULL
        BY <1>8, <1>10, <2>1, <3>4
      <4> QED BY <3>4, <4>1, NodesAssumption
    <3> QED BY <3>2, <3>3, <3>4
  <2>2. CASE len > 0
    <3>1. tail = q[len] /\ tail \in Nodes /\ head' = head /\ next' = [next EXCEPT ![tail] = n]
      BY <1>1, <1>2, <1>8, <2>2, NodesAssumption DEF n
    <3>2. CASE k <= 1
      BY <1>1, <1>9, <1>10, <2>2, <3>1, <3>2
    <3>3. CASE k > 1 /\ k <= len
      <4>1. p[k] = q[k] /\ p[k - 1] = q[k - 1] /\ k - 1 \in 1 .. len /\ k - 1 # len
        BY <1>1, <1>10, <2>2, <3>3
      <4>2. q[k - 1] # tail /\ q[k - 1] \in Nodes
        BY <1>1, <1>8, <2>2, <3>1, <4>1
      <4>3. next'[q[k - 1]] = next[q[k - 1]]
        BY <1>1, <3>1, <4>2
      <4> QED BY <1>9, <3>3, <4>1, <4>2, <4>3
    <3>4. CASE k = len + 1
      <4>1. p[k] = n /\ p[k - 1] = tail
        BY <1>1, <1>10, <2>2, <3>1, <3>4
      <4> QED BY <1>1, <2>2, <3>1, <3>4, <4>1
    <3>5. CASE k = len + 2
      <4>1. p[k] = NULL /\ p[k - 1] = n
        BY <1>1, <1>8, <1>10, <2>2, <3>5
      <4>2. n # tail
        BY <1>8, <1>3, <2>2, <3>1, <1>1
      <4> QED BY <1>1, <1>3, <2>2, <3>1, <3>5, <4>1, <4>2
    <3>6. CASE k > len + 2
      <4>1. p[k] = NULL /\ p[k - 1] = NULL
        BY <1>1, <1>8, <1>10, <2>2, <3>6
      <4> QED BY <1>1, <2>2, <3>6, <4>1, NodesAssumption
    <3> QED BY <1>1, <3>2, <3>3, <3>4, <3>5, <3>6
  <2> QED BY <1>1, <2>1, <2>2
<1>13. IsWalk(p, head', next')
  <2>1. p = [k \in Nat |-> IF k <= 1 THEN head' ELSE IF p[k - 1] \in Nodes THEN next'[p[k - 1]] ELSE NULL]
    BY <1>11, <1>12
  <2> QED BY <2>1 DEF IsWalk
<1>14. \A k \in 1 .. len : p[k] = q[k]
  BY <1>1, <1>10
<1>15. p[len + 1] = n
  BY <1>1, <1>10
<1>16. \A k \in 1 .. len' : k \in 1 .. len \/ k = len + 1
  BY <1>1, <1>2
<1>17. \A k \in Nat : k > len' => p[k] = NULL
  BY <1>1, <1>2, <1>8, <1>10
<1>18. \A k \in 1 .. len' : p[k] \in heap' \ InHand'
  BY <1>2, <1>3, <1>4, <1>8, <1>14, <1>15, <1>16
<1>19. \A j, k \in 1 .. len' : p[j] = p[k] => j = k
  BY <1>3, <1>8, <1>14, <1>15, <1>16
<1>20. tail' = IF len' = 0 THEN NULL ELSE p[len']
  BY <1>1, <1>2, <1>15 DEF n
<1>21. heap' = {p[k] : k \in 1 .. len'} \cup InHand'
  <2>1. {p[k] : k \in 1 .. len'} = {q[k] : k \in 1 .. len} \cup {n}
    BY <1>1, <1>2, <1>14, <1>15, <1>16
  <2> QED BY <1>2, <1>3, <1>4, <1>8, <2>1
<1>22. ListAlong(p)'
  BY <1>13, <1>17, <1>18, <1>19, <1>20, <1>21 DEF ListAlong
<1> QED BY <1>6, <1>7, <1>14, <1>22

\* The node taken out was the first.
LEMMA UnlinkStep ==
  ASSUME LInv, NEW h \in Handles, NEW q, ListAlong(q), Dequeue(h), head # NULL
  PROVE  /\ NodesInHand' /\ MutexHeld' /\ len > 0 /\ head = q[1]
         /\ \E p : ListAlong(p)' /\ \A k \in 1 .. len - 1 : p[k] = q[k + 1]
<1> DEFINE p == [k \in Nat |-> IF k = 0 THEN q[2] ELSE q[k + 1]]
<1>1. /\ pc \in [Handles -> PCs] /\ node \in [Handles -> Nodes \cup {NULL}] /\ len \in Nat
      /\ next \in [Nodes -> Nodes \cup {NULL}] /\ head \in Nodes
  BY DEF LInv, TypeOK
<1>2. /\ pc[h] = "dequeue" /\ pc' = [pc EXCEPT ![h] = "dequeue_free"]
      /\ node' = [node EXCEPT ![h] = head] /\ len' = len - 1 /\ head' = next[head]
      /\ tail' = (IF next[head] = NULL THEN NULL ELSE tail)
      /\ UNCHANGED <<next, data, heap, mutex, msg>>
  BY DEF Dequeue, Goto
<1>3. /\ \A k \in Nat : k > len => q[k] = NULL
      /\ \A k \in 1 .. len : q[k] \in heap \ InHand /\ q[k] \in Nodes
      /\ \A j, k \in 1 .. len : q[j] = q[k] => j = k
      /\ tail = IF len = 0 THEN NULL ELSE q[len]
      /\ heap = {q[k] : k \in 1 .. len} \cup InHand
  BY DEF ListAlong, LInv, TypeOK
<1>4. \A k \in Nat : q[k] = IF k <= 1 THEN head ELSE IF q[k - 1] \in Nodes THEN next[q[k - 1]] ELSE NULL
  BY DEF ListAlong, IsWalk
<1>5. q[1] = head /\ q[2] = next[head]
  BY <1>1, <1>4
<1>6. len > 0 /\ head \in heap \ InHand
  BY <1>1, <1>3, <1>5
<1>7. node[h] = NULL
  BY <1>2 DEF LInv, NodesInHand, HandPCs
<1>8. InHand' = InHand \cup {head}
  BY <1>1, <1>2, <1>7, Takes
<1>9. NodesInHand'
  <2>1. \A g \in Handles : node'[g] # NULL <=> pc'[g] \in HandPCs
    BY <1>1, <1>2 DEF LInv, NodesInHand, HandPCs
  <2>2. \A f, g \in Handles : f # g /\ node'[f] # NULL => node'[f] # node'[g]
    <3>1. \A g \in Handles : node[g] # head
      BY <1>1, <1>6 DEF InHand
    <3> QED BY <1>1, <1>2, <3>1 DEF LInv, NodesInHand
  <2>3. ASSUME NEW g \in Handles, pc'[g] \in {"enqueue_lock", "enqueue_link"}
        PROVE  next'[node'[g]] = NULL /\ data'[node'[g]] = msg'[g]
    BY <1>1, <1>2, <2>3 DEF LInv, NodesInHand
  <2> QED BY <2>1, <2>2, <2>3 DEF NodesInHand
<1>10. MutexHeld'
  BY <1>1, <1>2 DEF LInv, MutexHeld
<1>11. \A k \in Nat : p[k] = IF k = 0 THEN q[2] ELSE q[k + 1]
  OBVIOUS
<1>12. p = [k \in Nat |-> p[k]]
  OBVIOUS
<1> HIDE DEF p
<1>13. ASSUME NEW k \in Nat
       PROVE  p[k] = IF k <= 1 THEN head' ELSE IF p[k - 1] \in Nodes THEN next'[p[k - 1]] ELSE NULL
  <2>1. CASE k <= 1
    BY <1>2, <1>5, <1>11, <2>1
  <2>2. CASE k > 1
    <3>1. p[k] = q[k + 1] /\ p[k - 1] = q[k]
      BY <1>11, <2>2
    <3> QED BY <1>2, <1>4, <2>2, <3>1
  <2> QED BY <2>1, <2>2
<1>14. IsWalk(p, head', next')
  <2>1. p = [k \in Nat |-> IF k <= 1 THEN head' ELSE IF p[k - 1] \in Nodes THEN next'[p[k - 1]] ELSE NULL]
    BY <1>12, <1>13
  <2> QED BY <2>1 DEF IsWalk
<1>15. \A k \in 1 .. len - 1 : p[k] = q[k + 1] /\ k + 1 \in 1 .. len
  BY <1>1, <1>11
<1>16. \A k \in Nat : k > len' => p[k] = NULL
  BY <1>1, <1>2, <1>3, <1>6, <1>11
<1>17. \A k \in 1 .. len' : p[k] \in heap' \ InHand'
  <2>1. \A k \in 1 .. len - 1 : p[k] # head
    BY <1>1, <1>3, <1>5, <1>6, <1>15
  <2> QED BY <1>2, <1>3, <1>8, <1>15, <2>1
<1>18. \A j, k \in 1 .. len' : p[j] = p[k] => j = k
  BY <1>2, <1>3, <1>15
<1>19. tail' = IF len' = 0 THEN NULL ELSE p[len']
  <2>1. CASE len = 1
    BY <1>1, <1>2, <1>3, <1>5, <2>1
  <2>2. CASE len > 1
    <3>1. q[2] \in Nodes /\ p[len - 1] = q[len] /\ len - 1 # 0
      BY <1>1, <1>3, <1>15, <2>2
    <3> QED BY <1>2, <1>3, <1>5, <1>6, <3>1, NodesAssumption
  <2> QED BY <1>1, <1>6, <2>1, <2>2
<1>20. heap' = {p[k] : k \in 1 .. len'} \cup InHand'
  <2>1. {q[k] : k \in 1 .. len} \subseteq {p[k] : k \in 1 .. len - 1} \cup {head}
    <3>1. ASSUME NEW k \in 1 .. len PROVE q[k] = head \/ (k - 1 \in 1 .. len - 1 /\ q[k] = p[k - 1])
      <4>1. CASE k = 1 BY <1>5, <4>1
      <4>2. CASE k > 1
        <5>1. k - 1 \in 1 .. len - 1 /\ (k - 1) + 1 = k
          BY <1>1, <4>2
        <5> QED BY <1>15, <5>1
      <4> QED BY <4>1, <4>2
    <3> QED BY <3>1
  <2>2. {p[k] : k \in 1 .. len - 1} \cup {head} \subseteq {q[k] : k \in 1 .. len}
    BY <1>1, <1>5, <1>6, <1>15
  <2> QED BY <1>2, <1>3, <1>8, <2>1, <2>2
<1>21. ListAlong(p)'
  BY <1>14, <1>16, <1>17, <1>18, <1>19, <1>20 DEF ListAlong
<1> QED BY <1>5, <1>6, <1>9, <1>10, <1>15, <1>21

-----------------------------------------------------------------------------
(* The rest of the invariant, action by action.                            *)

QuietBegin(h) == (\E v \in Values : TrySend(h, v)) \/ TryRecv(h) \/ Clone(h) \/ Drop(h)

QuietContinue(h) ==
  \/ SendCheck(h) \/ Enqueue(h) \/ SendFailed(h) \/ RecvCheck(h) \/ Return(h)
  \/ CloneAlloc(h) \/ DropDisconnect(h) \/ DropCheck(h)
  \/ (EnqueueAlloc(h) /\ UNCHANGED heap)
  \/ Dequeue(h) /\ head = NULL

LEMMA BeginsQuietly ==
  ASSUME TypeOK, NEW h \in Handles, QuietBegin(h) PROVE Quiet
<1> USE DEF Quiet, HandPCs, Goto, shared, list, locals, TypeOK
<1>1. CASE \E v \in Values : TrySend(h, v) BY <1>1 DEF TrySend
<1>2. CASE TryRecv(h) BY <1>2 DEF TryRecv
<1>3. CASE Clone(h) BY <1>3 DEF Clone
<1>4. CASE Drop(h) BY <1>4 DEF Drop
<1> QED BY <1>1, <1>2, <1>3, <1>4 DEF QuietBegin

LEMMA ContinuesQuietly ==
  ASSUME TypeOK, NEW h \in Handles, QuietContinue(h) PROVE Quiet
<1> USE DEF Quiet, HandPCs, Goto, Answer, shared, list, locals, TypeOK
<1>1. CASE SendCheck(h) BY <1>1 DEF SendCheck
<1>2. CASE Enqueue(h) BY <1>2 DEF Enqueue
<1>3. CASE SendFailed(h) BY <1>3 DEF SendFailed
<1>4. CASE RecvCheck(h) BY <1>4 DEF RecvCheck
<1>5. CASE Return(h) BY <1>5 DEF Return
<1>6. CASE CloneAlloc(h) BY <1>6 DEF CloneAlloc
<1>7. CASE DropDisconnect(h) BY <1>7 DEF DropDisconnect
<1>8. CASE DropCheck(h) BY <1>8 DEF DropCheck
<1>9. CASE EnqueueAlloc(h) /\ UNCHANGED heap BY <1>9 DEF EnqueueAlloc
<1>10. CASE Dequeue(h) /\ head = NULL BY <1>10 DEF Dequeue
<1> QED BY <1>1, <1>2, <1>3, <1>4, <1>5, <1>6, <1>7, <1>8, <1>9, <1>10 DEF QuietContinue

LEMMA ListStep ==
  ASSUME IInv, LInv, chan = "live", NEW h \in Handles, Begin(h) \/ Continue(h)
  PROVE  NodesInHand' /\ MutexHeld' /\ OnList'
<1>0. TypeOK /\ NodesInHand /\ MutexHeld /\ pc \in [Handles -> PCs]
  BY DEF LInv, TypeOK
<1>1. CASE QuietBegin(h) \/ QuietContinue(h)
  <2>1. Quiet
    BY <1>0, <1>1, BeginsQuietly, ContinuesQuietly
  <2>2. NodesInHand' /\ MutexHeld' /\ \A q : ListAlong(q) => ListAlong(q)'
    BY <1>0, <2>1, QuietStep
  <2>3. InUse' => InUse
    <3>1. Held(h) \/ DropDisconnect(h) \/ DropCheck(h)
      BY <1>1 DEF QuietBegin, QuietContinue, TrySend, TryRecv, Clone, Drop, SendCheck, Enqueue,
             SendFailed, RecvCheck, Return, CloneAlloc, EnqueueAlloc, Dequeue, Answer, Goto, Held, DropPCs
    <3>2. DropDisconnect(h) \/ DropCheck(h) => \A g \in Handles : pc'[g] # "destroy_free" => pc[g] # "destroy_free"
      BY <1>0 DEF DropDisconnect, DropCheck, Goto
    <3> QED BY <3>1, <3>2, InUseWhileHeld DEF InUse
  <2> QED BY <2>2, <2>3 DEF OnList, LInv
<1>2. CASE EnqueueAlloc(h) /\ heap' # heap
  <2>1. Held(h)
    BY <1>2 DEF EnqueueAlloc, Goto, Held, DropPCs
  <2>2. PICK q : ListAlong(q)
    BY <2>1, InUseWhileHeld DEF LInv, OnList
  <2>3. PICK n \in Nodes \ heap :
          /\ Goto(h, "enqueue_alloc", "enqueue_lock")
          /\ heap' = heap \cup {n} /\ data' = [data EXCEPT ![n] = msg[h]]
          /\ next' = [next EXCEPT ![n] = NULL] /\ node' = [node EXCEPT ![h] = n]
    BY <1>2 DEF EnqueueAlloc
  <2>4. UNCHANGED <<head, tail, len, mutex, msg>>
    BY <1>2 DEF EnqueueAlloc
  <2> QED BY <2>2, <2>3, <2>4, AllocateStep DEF OnList
<1>3. CASE EnqueueLock(h)
  <2>1. Held(h)
    BY <1>3 DEF EnqueueLock, Goto, Held, DropPCs
  <2>2. PICK q : ListAlong(q)
    BY <2>1, InUseWhileHeld DEF LInv, OnList
  <2>3. CASE Rejects
    <3>1. /\ pc[h] = "enqueue_lock" /\ pc' = [pc EXCEPT ![h] = "send_failed"] /\ Free(node[h])
          /\ node' = [node EXCEPT ![h] = NULL] /\ UNCHANGED <<head, tail, len, mutex, msg>>
      BY <1>3, <2>3 DEF EnqueueLock, Goto
    <3>2. "send_failed" \in PCs \ HandPCs
      BY DEF PCs, HandPCs
    <3> QED BY <2>2, <3>1, <3>2, FreeStep DEF OnList
  <2>4. CASE ~Rejects
    <3>1. /\ pc[h] = "enqueue_lock" /\ pc' = [pc EXCEPT ![h] = "enqueue_link"] /\ mutex = NULL /\ mutex' = h
          /\ UNCHANGED <<head, tail, len, next, data, heap, node, msg>>
      BY <1>3, <2>4 DEF EnqueueLock, Goto
    <3>2. NodesInHand'
      BY <1>0, <3>1 DEF NodesInHand, HandPCs
    <3>3. MutexHeld'
      BY <1>0, <3>1, HandlesAssumption DEF MutexHeld, Handles
    <3>4. ListAlong(q)'
      BY <2>2, <3>1 DEF ListAlong, InHand
    <3> QED BY <3>2, <3>3, <3>4 DEF OnList
  <2> QED BY <2>3, <2>4
<1>4. CASE EnqueueLink(h)
  <2>1. Held(h)
    BY <1>4 DEF EnqueueLink, Answer, Goto, Held, DropPCs
  <2> QED BY <1>4, <2>1, InUseWhileHeld, LinkStep DEF LInv, OnList
<1>5. CASE Dequeue(h) /\ head # NULL
  <2>1. Held(h)
    BY <1>5 DEF Dequeue, Goto, Held, DropPCs
  <2> QED BY <1>5, <2>1, InUseWhileHeld, UnlinkStep DEF LInv, OnList
<1>6. CASE DequeueFree(h)
  <2>1. Held(h)
    BY <1>6 DEF DequeueFree, Answer, Goto, Held, DropPCs
  <2>2. PICK q : ListAlong(q)
    BY <2>1, InUseWhileHeld DEF LInv, OnList
  <2>3. /\ pc[h] = "dequeue_free" /\ pc' = [pc EXCEPT ![h] = "ret"] /\ Free(node[h])
        /\ node' = [node EXCEPT ![h] = NULL] /\ UNCHANGED <<head, tail, len, mutex>>
        /\ msg' = [msg EXCEPT ![h] = data[node[h]]]
    BY <1>6 DEF DequeueFree, Answer, Goto
  <2>4. "ret" \in PCs \ HandPCs /\ \A g \in Handles \ {h} : msg'[g] = msg[g]
    BY <2>3 DEF PCs, HandPCs, LInv, TypeOK
  <2> QED BY <2>2, <2>3, <2>4, FreeStep DEF OnList
<1>7. CASE DestroyNodes(h) \/ DestroyFree(h)
  <2>1. UNCHANGED <<head, tail, next, data, len, mutex, node, msg>>
    BY <1>7 DEF DestroyNodes, DestroyFree, list, locals
  <2>2. \A g \in Handles : pc'[g] = pc[g] \/ (pc[g] \notin HandPCs /\ pc'[g] \notin HandPCs)
    BY <1>0, <1>7 DEF DestroyNodes, DestroyFree, Goto, HandPCs
  <2>3. ~InUse'
    BY <1>0, <1>7 DEF DestroyNodes, DestroyFree, Goto, InUse
  <2>4. NodesInHand'
    BY <1>0, <2>1, <2>2 DEF NodesInHand, HandPCs
  <2>5. MutexHeld'
    BY <1>0, <2>1, <2>2 DEF MutexHeld, HandPCs
  <2> QED BY <2>3, <2>4, <2>5 DEF OnList
<1> QED BY <1>1, <1>2, <1>3, <1>4, <1>5, <1>6, <1>7 DEF Begin, Continue, QuietBegin, QuietContinue

\* Who destroys frees every node the list still has.
LEMMA DestroyStep ==
  ASSUME IInv, LInv, chan = "live", NEW h \in Handles, DestroyNodes(h)
  PROVE  heap' = {}
<1>1. pc[h] = "destroy" /\ heap' = heap \ Queued
  BY DEF DestroyNodes, Goto
<1>2. CASE InUse
  <2>1. PICK q : ListAlong(q)
    BY <1>2 DEF LInv, OnList
  <2>2. chain = q
    BY <2>1, WalkIsChain DEF ChainIsTheWalk, ListAlong
  <2>3. heap = Queued \cup InHand /\ InHand = {}
    BY <1>1, <2>1, <2>2, NobodyHeldAtTheEnd DEF ListAlong, Queued
  <2> QED BY <1>1, <2>3
<1>3. CASE ~InUse
  BY <1>1, <1>3 DEF LInv, Leaving
<1> QED BY <1>2, <1>3

LEMMA SidesStep ==
  ASSUME LInv, NEW h \in Handles, Begin(h) \/ Continue(h)
  PROVE  CallsOfSides'
<1> USE DEF LInv, TypeOK, CallsOfSides, SendPCs, RecvPCs, Goto, Answer, shared, locals
<1>1. CASE (\E v \in Values : TrySend(h, v)) \/ TryRecv(h) \/ Clone(h) \/ Drop(h)
  BY <1>1 DEF TrySend, TryRecv, Clone, Drop
<1>2. CASE SendCheck(h) \/ Enqueue(h) \/ EnqueueAlloc(h) \/ EnqueueLock(h) \/ EnqueueLink(h) \/ SendFailed(h)
  BY <1>2 DEF SendCheck, Enqueue, EnqueueAlloc, EnqueueLock, EnqueueLink, SendFailed
<1>3. CASE Dequeue(h) \/ DequeueFree(h) \/ RecvCheck(h) \/ Return(h)
  BY <1>3 DEF Dequeue, DequeueFree, RecvCheck, Return
<1>4. CASE CloneAlloc(h) \/ DropDisconnect(h) \/ DropCheck(h) \/ DestroyNodes(h) \/ DestroyFree(h)
  BY <1>4 DEF CloneAlloc, DropDisconnect, DropCheck, DestroyNodes, DestroyFree
<1> QED BY <1>1, <1>2, <1>3, <1>4 DEF Begin, Continue

LEMMA LeavingStep ==
  ASSUME IInv, LInv, chan = "live", NEW h \in Handles, Begin(h) \/ Continue(h)
  PROVE  Leaving'
<1>0. pc \in [Handles -> PCs]
  BY DEF LInv, TypeOK
<1>1. CASE Inside(h) \/ Clone(h) \/ CloneAlloc(h)
  <2>1. /\ UNCHANGED <<chan, disconnected>>
        /\ pc'[h] \notin {"none"} \cup DropPCs
        /\ \A g \in Handles : pc'[g] \in {"drop_check", "destroy", "destroy_free"} => pc'[g] = pc[g]
        /\ Held(h)
    <3>1. CASE Inside(h)
      BY <1>0, <3>1, InsideMoves DEF HeldPCs, DropPCs, Held
    <3>2. CASE Clone(h)
      BY <1>0, <3>2 DEF Clone, Goto, DropPCs, Held
    <3>3. CASE CloneAlloc(h)
      BY <1>0, <3>3 DEF CloneAlloc, DropPCs, Held
    <3> QED BY <1>1, <3>1, <3>2, <3>3
  <2>2. InUse
    BY <2>1, InUseWhileHeld
  <2>3. InUse'
    BY <2>1, <2>2 DEF InUse, DropPCs
  <2> QED BY <2>1, <2>3 DEF LInv, Leaving
<1>2. CASE Drop(h)
  <2>1. /\ pc[h] = "idle" /\ UNCHANGED <<chan, disconnected, heap>>
        /\ pc' = [pc EXCEPT ![h] = IF count[Side(h)] = 1 THEN "drop_disconnect" ELSE "none"]
        /\ count' = [count EXCEPT ![Side(h)] = @ - 1]
    BY <1>2 DEF Drop, Goto, list
  <2>2. Held(h)
    BY <2>1 DEF Held, DropPCs
  <2>3. InUse'
    BY <1>0, <2>1, <2>2, InUseWhileHeld DEF InUse
  <2>4. \E g \in Handles : pc'[g] # "none"
    <3>1. CASE count[Side(h)] = 1
      BY <1>0, <2>1, <3>1
    <3>2. CASE count[Side(h)] # 1
      <4>1. CountsHandles' /\ count'[Side(h)] # 0 /\ chan' = "live"
        <5>1. count[Side(h)] \in Int /\ Side(h) \in Sides
          BY SideFacts DEF IInv, HandleTypes
        <5>2. count'[Side(h)] = count[Side(h)] - 1
          BY <2>1, <5>1 DEF IInv, HandleTypes
        <5> QED BY <1>2, <2>1, <3>2, <5>1, <5>2, DropStep DEF IInv
      <4>2. PICK g \in Handles : Held(g)'
        <5>1. count'[Side(h)] = Cardinality(HeldIn(Side(h))') + Cardinality(CloningIn(Side(h))')
          BY <4>1, SideFacts DEF CountsHandles, HeldIn, CloningIn
        <5>2. CloningIn(Side(h))' \subseteq HeldIn(Side(h))'
          BY DEF CloningIn, HeldIn, Held, DropPCs
        <5>3. CASE HeldIn(Side(h))' = {}
          <6>1. CloningIn(Side(h))' = {}
            BY <5>2, <5>3
          <6> QED BY <4>1, <5>1, <5>3, <6>1, FS_EmptySet
        <5>4. CASE HeldIn(Side(h))' # {}
          BY <5>4 DEF HeldIn
        <5> QED BY <5>3, <5>4
      <4> QED BY <4>2 DEF Held
    <3> QED BY <3>1, <3>2
  <2>5. \A g \in Handles : pc'[g] \in {"drop_check", "destroy", "destroy_free"} => pc'[g] = pc[g]
    BY <1>0, <2>1
  <2> QED BY <2>1, <2>3, <2>4, <2>5 DEF LInv, Leaving
<1>3. CASE DropDisconnect(h)
  <2>1. /\ pc' = [pc EXCEPT ![h] = "drop_check"] /\ pc[h] = "drop_disconnect"
        /\ disconnected' = TRUE /\ UNCHANGED <<chan, heap>>
    BY <1>3 DEF DropDisconnect, Goto, list
  <2>2. InUse' = InUse
    BY <1>0, <2>1 DEF InUse
  <2> QED BY <1>0, <2>1, <2>2 DEF LInv, Leaving
<1>4. CASE DropCheck(h)
  <2>1. /\ pc' = [pc EXCEPT ![h] = IF count[Opposite(Side(h))] = 0 THEN "destroy" ELSE "none"]
        /\ pc[h] = "drop_check" /\ UNCHANGED <<chan, disconnected, heap>>
    BY <1>4 DEF DropCheck, Goto, list, shared
  <2>2. InUse' = InUse
    BY <1>0, <2>1 DEF InUse
  <2>3. \E g \in Handles : pc'[g] # "none"
    <3>1. CASE count[Opposite(Side(h))] = 0
      BY <1>0, <2>1, <3>1
    <3>2. CASE count[Opposite(Side(h))] # 0
      <4>1. Opposite(Side(h)) \in Sides
        BY SideFacts
      <4>2. PICK g \in Handles : Held(g)
        BY <3>2, <4>1, ZeroMeansNone DEF IInv
      <4> QED BY <1>0, <2>1, <4>2 DEF Held, DropPCs
    <3> QED BY <3>1, <3>2
  <2>4. \A g \in Handles : pc'[g] \in {"drop_check", "destroy", "destroy_free"} => g = h \/ pc'[g] = pc[g]
    BY <1>0, <2>1
  <2> QED BY <2>1, <2>2, <2>3, <2>4 DEF LInv, Leaving
<1>5. CASE DestroyNodes(h)
  <2>1. heap' = {}
    BY <1>5, DestroyStep
  <2>2. pc' = [pc EXCEPT ![h] = "destroy_free"] /\ pc[h] = "destroy" /\ UNCHANGED <<chan, disconnected>>
    BY <1>5 DEF DestroyNodes, Goto
  <2> QED BY <1>0, <2>1, <2>2 DEF LInv, Leaving
<1>6. CASE DestroyFree(h)
  <2>1. pc' = [pc EXCEPT ![h] = "none"] /\ pc[h] = "destroy_free" /\ chan' = "freed" /\ UNCHANGED <<heap, disconnected>>
    BY <1>6 DEF DestroyFree, Goto, list
  <2>2. ~InUse
    BY <2>1 DEF InUse
  <2> QED BY <1>0, <2>1, <2>2 DEF LInv, Leaving, InUse
<1> QED BY <1>1, <1>2, <1>3, <1>4, <1>5, <1>6 DEF Begin, Continue, Inside

LEMMA TypeStep ==
  ASSUME IInv, LInv, chan = "live", NEW h \in Handles, Begin(h) \/ Continue(h)
  PROVE  TypeOK'
<1> USE DEF TypeOK, PCs, Goto, Answer, shared, list, locals
<1>0. TypeOK /\ NULL \notin Handles
  BY HandlesAssumption DEF LInv, Handles
<1>1. CASE \E v \in Values : TrySend(h, v)
  BY <1>0, <1>1 DEF TrySend
<1>2. CASE TryRecv(h) \/ Return(h) \/ SendCheck(h)
  BY <1>0, <1>2 DEF TryRecv, Return, SendCheck
<1>3. CASE Enqueue(h) \/ SendFailed(h) \/ RecvCheck(h)
  BY <1>0, <1>3 DEF Enqueue, SendFailed, RecvCheck
<1>4. CASE EnqueueAlloc(h)
  BY <1>0, <1>4 DEF EnqueueAlloc
<1>5. CASE EnqueueLock(h)
  BY <1>0, <1>5 DEF EnqueueLock, Free
<1>6. CASE EnqueueLink(h)
  BY <1>0, <1>6 DEF EnqueueLink
<1>7. CASE Dequeue(h)
  <2>1. head # NULL => len > 0
    <3>1. Held(h)
      BY <1>7 DEF Dequeue, Held, DropPCs
    <3> QED BY <1>7, <3>1, InUseWhileHeld, UnlinkStep DEF LInv, OnList
  <2>2. len' \in Nat
    BY <1>0, <1>7, <2>1 DEF Dequeue
  <2> QED BY <1>0, <1>7, <2>2 DEF Dequeue
<1>8. CASE DequeueFree(h)
  <2>1. node[h] \in Nodes
    BY <1>0, <1>8 DEF DequeueFree, LInv, NodesInHand, HandPCs
  <2> QED BY <1>0, <1>8, <2>1 DEF DequeueFree, Free
<1>9. CASE Clone(h)
  BY <1>0, <1>9, SideFacts DEF Clone
<1>10. CASE CloneAlloc(h) \/ Drop(h)
  <2>1. count[Side(h)] \in Nat \ {0} /\ Side(h) \in Sides
    BY <1>0, <1>10, HeldIsCounted, SideFacts DEF CloneAlloc, Drop, Held, DropPCs, IInv
  <2>2. [count EXCEPT ![Side(h)] = @ - 1] \in [Sides -> Nat]
    BY <1>0, <2>1
  <2>3. count' \in [Sides -> Nat]
    BY <1>0, <1>10, <2>2 DEF CloneAlloc, Drop
  <2>4. pc' \in [Handles -> PCs]
    BY <1>0, <1>10 DEF CloneAlloc, Drop
  <2> QED BY <1>0, <1>10, <2>3, <2>4 DEF CloneAlloc, Drop
<1>11. CASE DropDisconnect(h) \/ DropCheck(h) \/ DestroyNodes(h) \/ DestroyFree(h)
  BY <1>0, <1>11 DEF DropDisconnect, DropCheck, DestroyNodes, DestroyFree
<1> QED BY <1>1, <1>2, <1>3, <1>4, <1>5, <1>6, <1>7, <1>8, <1>9, <1>10, <1>11 DEF Begin, Continue

LEMMA ListCreateStep ==
  ASSUME IInv, LInv, Create PROVE LInv'
<1>1. PICK tx \in Senders, rx \in Receivers : pc' = [pc EXCEPT ![tx] = "idle", ![rx] = "idle"]
  BY DEF Create
<1>2. /\ chan = "none" /\ chan' = "live" /\ UNCHANGED <<head, tail, next, data, heap, len, disconnected, mutex>>
      /\ UNCHANGED <<node, msg, ret>> /\ count' = [s \in Sides |-> 1] /\ capacity' \in Capacities \cup {0}
  BY DEF Create, list, locals
<1>3. {tx, rx} \subseteq Handles /\ TypeOK /\ \A h \in Handles : pc[h] = "none"
  BY <1>2 DEF Handles, LInv, IInv, OnlyWhileLive
<1>4. \A h \in Handles : pc'[h] = IF h \in {tx, rx} THEN "idle" ELSE "none"
  BY <1>1, <1>3 DEF TypeOK
<1>5. TypeOK'
  <2>1. pc' \in [Handles -> PCs]
    <3>1. "idle" \in PCs
      BY DEF PCs
    <3> QED BY <1>1, <1>3, <3>1 DEF TypeOK
  <2>2. count' \in [Sides -> Nat] /\ capacity' \in Nat
    BY <1>2, CapacitiesAssumption
  <2> QED BY <1>2, <1>3, <2>1, <2>2 DEF TypeOK
<1>6. Quiet
  BY <1>2, <1>3, <1>4 DEF Quiet, HandPCs
<1>7. NodesInHand' /\ MutexHeld' /\ \A q : ListAlong(q) => ListAlong(q)'
  BY <1>6, QuietStep DEF LInv
<1>8. InUse
  BY <1>2, <1>3 DEF InUse
<1>9. OnList'
  BY <1>7, <1>8 DEF LInv, OnList
<1>10. CallsOfSides'
  BY <1>4 DEF CallsOfSides, SendPCs, RecvPCs
<1>11. Leaving'
  <2>1. InUse'
    BY <1>2, <1>4 DEF InUse
  <2>2. pc'[tx] # "none" /\ \A h \in Handles : pc'[h] \notin {"drop_check", "destroy", "destroy_free"}
    BY <1>3, <1>4
  <2> QED BY <1>2, <1>3, <2>1, <2>2 DEF Leaving
<1> QED BY <1>5, <1>7, <1>9, <1>10, <1>11 DEF LInv

LEMMA ListCreateFailsStep == ASSUME IInv, LInv, CreateFails PROVE LInv'
<1>1. /\ chan = "none" /\ chan' = "freed" /\ capacity' \in Capacities \cup {0}
      /\ UNCHANGED <<head, tail, next, data, heap, len, count, disconnected, mutex, pc, node, msg, ret>>
  BY DEF CreateFails, list, locals
<1>2. ~InUse' /\ capacity' \in Nat
  BY <1>1, CapacitiesAssumption DEF InUse
<1>3. heap = {} /\ TypeOK
  BY <1>1 DEF LInv, Leaving
<1>4. TypeOK'
  BY <1>1, <1>2, <1>3 DEF TypeOK
<1>5. CallsOfSides' /\ Leaving' /\ OnList'
  BY <1>1, <1>2, <1>3 DEF LInv, CallsOfSides, Leaving, OnList
<1>6. NodesInHand' /\ MutexHeld'
  BY <1>1 DEF LInv, NodesInHand, MutexHeld
<1> QED BY <1>4, <1>5, <1>6 DEF LInv

LEMMA ListNext == IInv /\ LInv /\ [Next]_vars => LInv'
<1> SUFFICES ASSUME IInv, LInv, [Next]_vars PROVE LInv'
  OBVIOUS
<1>1. CASE Create BY <1>1, ListCreateStep
<1>2. ASSUME chan = "live", NEW h \in Handles, Begin(h) \/ Continue(h) PROVE LInv'
  BY <1>2, TypeStep, ListStep, SidesStep, LeavingStep DEF LInv
<1>3. ASSUME NEW h \in Handles, UseAfterFree(h) PROVE LInv'
  <2>1. /\ chan' = "corrupt" /\ pc[h] # "none"
        /\ UNCHANGED <<capacity, head, tail, next, data, heap, len, count, disconnected, mutex, pc, node, msg, ret>>
    BY <1>3 DEF UseAfterFree, list, locals
  <2>2. ~InUse'
    BY <2>1 DEF InUse
  <2>3. TypeOK' /\ CallsOfSides' /\ Leaving' /\ OnList'
    BY <2>1, <2>2 DEF LInv, TypeOK, CallsOfSides, Leaving, OnList
  <2>4. NodesInHand' /\ MutexHeld'
    BY <2>1 DEF LInv, NodesInHand, MutexHeld
  <2> QED BY <2>3, <2>4 DEF LInv
<1>4. CASE UNCHANGED vars
  <2>1. TypeOK' /\ CallsOfSides' /\ NodesInHand' /\ MutexHeld'
    BY <1>4 DEF vars, LInv, TypeOK, CallsOfSides, NodesInHand, MutexHeld
  <2>2. InUse' = InUse /\ \A q : ListAlong(q) => ListAlong(q)'
    BY <1>4 DEF vars, InUse, ListAlong, InHand
  <2>3. Leaving' /\ OnList'
    BY <1>4, <2>2 DEF vars, LInv, Leaving, OnList
  <2> QED BY <2>1, <2>3 DEF LInv
<1>5. CASE CreateFails BY <1>5, ListCreateFailsStep
<1> QED BY <1>1, <1>2, <1>3, <1>4, <1>5 DEF Next, Over

\* From head along next there are always len nodes, the last is the tail, nobody has
\* one of them in hand, and the mutex belongs to the call that is linking: in every
\* reachable state, for any handles, nodes and capacities.
THEOREM ListInvariant == Spec => []LInv
<1>1. Init => LInv BY InitList
<1>2. IInv /\ LInv /\ [Next]_vars => LInv' BY ListNext
<1> QED BY <1>1, <1>2, Invariant, PTL DEF Spec

\* No node is lost and none is linked twice, whatever sends, receives, clones and
\* drops are under way.
THEOREM ListStaysWellFormed == Spec => []ListWellFormed
<1>1. LInv => ListWellFormed
  <2> SUFFICES ASSUME LInv PROVE ListWellFormed
    OBVIOUS
  <2>1. TypeOK /\ \A g, h \in Handles : g # h /\ node[g] # NULL => node[g] # node[h]
    BY DEF LInv, NodesInHand
  <2>2. ASSUME chan = "live", \A h \in Handles : pc[h] # "destroy_free"
        PROVE  /\ Cardinality(Queued) = len
               /\ (head = NULL) = (len = 0) /\ (tail = NULL) = (len = 0)
               /\ len > 0 => chain[len] = tail /\ next[tail] = NULL
               /\ Queued \cap InHand = {}
               /\ heap = Queued \cup InHand
    <3>1. PICK q : ListAlong(q)
      BY <2>2 DEF LInv, OnList, InUse
    <3>2. chain = q
      BY <3>1, WalkIsChain DEF ChainIsTheWalk, ListAlong
    <3>3. Queued = {q[k] : k \in 1 .. len} /\ len \in Nat
      BY <2>1, <3>2 DEF Queued, TypeOK
    <3>4. /\ \A k \in Nat : k > len => q[k] = NULL
          /\ \A k \in 1 .. len : q[k] \in heap \ InHand /\ q[k] \in Nodes
          /\ \A j, k \in 1 .. len : q[j] = q[k] => j = k
          /\ tail = IF len = 0 THEN NULL ELSE q[len]
          /\ heap = {q[k] : k \in 1 .. len} \cup InHand
      BY <2>1, <3>1 DEF ListAlong, TypeOK
    <3>5. \A k \in Nat : q[k] = IF k <= 1 THEN head ELSE IF q[k - 1] \in Nodes THEN next[q[k - 1]] ELSE NULL
      BY <3>1 DEF ListAlong, IsWalk
    <3>6. Cardinality(Queued) = len
      <4> DEFINE f == [k \in 1 .. len |-> q[k]]
      <4>1. f \in Bijection(1 .. len, Queued)
        BY <3>3, <3>4 DEF Bijection, Injection, Surjection, IsInjective
      <4>2. ExistsBijection(1 .. len, Queued)
        BY <4>1 DEF ExistsBijection
      <4>3. IsFiniteSet(1 .. len) /\ Cardinality(1 .. len) = len
        BY <3>3, FS_Interval
      <4> QED BY <4>2, <4>3, FS_Bijection
    <3>7. q[1] = head /\ q[len + 1] = NULL
      BY <3>3, <3>4, <3>5
    <3>8. (head = NULL) = (len = 0) /\ (tail = NULL) = (len = 0)
      <4>1. CASE len = 0 BY <3>4, <3>7, <4>1
      <4>2. CASE len > 0
        <5>1. q[1] \in Nodes /\ q[len] \in Nodes
          BY <3>3, <3>4, <4>2
        <5> QED BY <3>4, <3>7, <4>2, <5>1, NodesAssumption
      <4> QED BY <3>3, <4>1, <4>2
    <3>9. len > 0 => chain[len] = tail /\ next[tail] = NULL
      <4> SUFFICES ASSUME len > 0 PROVE chain[len] = tail /\ next[tail] = NULL
        OBVIOUS
      <4>1. tail = q[len] /\ q[len] \in Nodes
        BY <3>3, <3>4
      <4>2. q[len + 1] = next[q[len]]
        BY <3>3, <3>5, <4>1
      <4> QED BY <3>2, <3>7, <4>1, <4>2
    <3> QED BY <3>3, <3>4, <3>6, <3>8, <3>9
  <2> QED BY <2>1, <2>2 DEF ListWellFormed
<1> QED BY <1>1, ListInvariant, PTL

\* The last handle to go frees the channel and every node, those of messages nobody
\* received included.
THEOREM NothingEverLeaks == Spec => []NothingLeaks
<1>1. LInv => NothingLeaks
  <2> SUFFICES ASSUME LInv, chan # "none", \A h \in Handles : pc[h] = "none"
               PROVE  chan = "freed" /\ heap = {}
    BY DEF NothingLeaks
  <2>1. chan = "freed"
    BY DEF LInv, Leaving, TypeOK
  <2> QED BY <2>1 DEF LInv, Leaving, InUse
<1> QED BY <1>1, ListInvariant, PTL

-----------------------------------------------------------------------------
(* The channel implements AbstractChannel.                                 *)

Calls == [h \in Handles |-> AbstractCall(h)]

Answered(r) == [op |-> "answer", ret |-> r]

\* The call a handle is in, by its place.
CallTable ==
  \A h \in Handles :
    /\ pc[h] \in SendPending => AbstractCall(h) = [op |-> "send", msg |-> msg[h]]
    /\ pc[h] = "enqueue_link" => AbstractCall(h) = Answered("ok")
    /\ pc[h] = "send_failed" => AbstractCall(h) = [op |-> "refused"]
    /\ pc[h] = "dequeue" => AbstractCall(h) = [op |-> "recv"]
    /\ pc[h] = "recv_check" => AbstractCall(h) = [op |-> "nothing"]
    /\ pc[h] = "dequeue_free" => AbstractCall(h) = Ok(data[node[h]])
    /\ pc[h] = "ret" /\ h \in Receivers /\ ret[h] = "ok" => AbstractCall(h) = Ok(msg[h])
    /\ pc[h] = "ret" /\ ~(h \in Receivers /\ ret[h] = "ok") => AbstractCall(h) = Answered(ret[h])
    /\ pc[h] \in {"none", "idle", "clone_alloc"} \cup DropPCs => AbstractCall(h) = [op |-> "none"]

LEMMA CallsAre == CallTable
<1> SUFFICES ASSUME NEW h \in Handles
             PROVE  /\ pc[h] \in SendPending => AbstractCall(h) = [op |-> "send", msg |-> msg[h]]
                    /\ pc[h] = "enqueue_link" => AbstractCall(h) = Answered("ok")
                    /\ pc[h] = "send_failed" => AbstractCall(h) = [op |-> "refused"]
                    /\ pc[h] = "dequeue" => AbstractCall(h) = [op |-> "recv"]
                    /\ pc[h] = "recv_check" => AbstractCall(h) = [op |-> "nothing"]
                    /\ pc[h] = "dequeue_free" => AbstractCall(h) = Ok(data[node[h]])
                    /\ pc[h] = "ret" /\ h \in Receivers /\ ret[h] = "ok" => AbstractCall(h) = Ok(msg[h])
                    /\ pc[h] = "ret" /\ ~(h \in Receivers /\ ret[h] = "ok") => AbstractCall(h) = Answered(ret[h])
                    /\ pc[h] \in {"none", "idle", "clone_alloc"} \cup DropPCs => AbstractCall(h) = [op |-> "none"]
  BY DEF CallTable
<1>1. pc[h] \in SendPending => AbstractCall(h) = [op |-> "send", msg |-> msg[h]]
  BY DEF AbstractCall, SendPending
<1>2. /\ pc[h] = "enqueue_link" => AbstractCall(h) = Answered("ok")
      /\ pc[h] = "send_failed" => AbstractCall(h) = [op |-> "refused"]
      /\ pc[h] = "dequeue" => AbstractCall(h) = [op |-> "recv"]
      /\ pc[h] = "recv_check" => AbstractCall(h) = [op |-> "nothing"]
      /\ pc[h] = "dequeue_free" => AbstractCall(h) = Ok(data[node[h]])
  BY DEF AbstractCall, SendPending, Answered
<1>3. /\ pc[h] = "ret" /\ h \in Receivers /\ ret[h] = "ok" => AbstractCall(h) = Ok(msg[h])
      /\ pc[h] = "ret" /\ ~(h \in Receivers /\ ret[h] = "ok") => AbstractCall(h) = Answered(ret[h])
  BY DEF AbstractCall, SendPending, Answered
<1>4. pc[h] \in {"none", "idle", "clone_alloc"} \cup DropPCs => AbstractCall(h) = [op |-> "none"]
  BY DEF AbstractCall, SendPending, DropPCs
<1> QED BY <1>1, <1>2, <1>3, <1>4

\* A handle's call is not changed by what others do.
LEMMA CallStays ==
  ASSUME NEW g \in Handles,
         pc'[g] = pc[g], msg'[g] = msg[g], ret'[g] = ret[g], node'[g] = node[g],
         pc[g] = "dequeue_free" => data'[node[g]] = data[node[g]]
  PROVE  AbstractCall(g)' = AbstractCall(g)
<1>1. CASE pc[g] = "dequeue_free"
  BY <1>1 DEF AbstractCall, SendPending, Ok
<1>2. CASE pc[g] # "dequeue_free"
  BY <1>2 DEF AbstractCall, SendPending, Ok
<1> QED BY <1>1, <1>2

LEMMA OneCallChanges ==
  ASSUME NEW h \in Handles, \A g \in Handles \ {h} : AbstractCall(g)' = AbstractCall(g)
  PROVE  Calls' = [Calls EXCEPT ![h] = AbstractCall(h)']
  BY DEF Calls

\* The message accepted and not linked yet is the one its sender has.
AcceptedMessage == LInv => Accepted = IF mutex = NULL THEN <<>> ELSE <<msg[mutex]>>

LEMMA AcceptedIs == AcceptedMessage
<1> SUFFICES ASSUME LInv, mutex # NULL PROVE data[node[mutex]] = msg[mutex]
  BY DEF AcceptedMessage, Accepted
<1> QED BY DEF LInv, TypeOK, MutexHeld, NodesInHand

\* The messages on the list.
MessagesOn ==
  \A q : LInv /\ ListAlong(q) /\ InUse /\ chan = "live" =>
    AbstractItems = [k \in 1 .. len |-> data[q[k]]] \o Accepted

LEMMA ItemsAre == MessagesOn
<1> SUFFICES ASSUME NEW q, LInv, ListAlong(q), InUse, chan = "live"
             PROVE  AbstractItems = [k \in 1 .. len |-> data[q[k]]] \o Accepted
  BY DEF MessagesOn
<1>1. chain = q
  BY WalkIsChain DEF ChainIsTheWalk, ListAlong
<1> QED BY <1>1 DEF AbstractItems, InUse

NoMessages == ~InUse \/ chan # "live" => AbstractItems = <<>>

LEMMA NoItems == NoMessages
  BY DEF NoMessages, AbstractItems, InUse

LEMMA ItemsStay ==
  ASSUME LInv, LInv', NEW q, ListAlong(q), ListAlong(q)', InUse, InUse', chan = "live", chan' = "live",
         UNCHANGED <<len, mutex>>, \A k \in 1 .. len : data'[q[k]] = data[q[k]],
         mutex # NULL => msg'[mutex] = msg[mutex]
  PROVE  AbstractItems' = AbstractItems
<1>1. AbstractItems = [k \in 1 .. len |-> data[q[k]]] \o Accepted
  BY ItemsAre DEF MessagesOn
<1>2. MessagesOn' /\ AcceptedMessage'
  BY ItemsAre, AcceptedIs, PTL
<1>3. AbstractItems' = [k \in 1 .. len' |-> data'[q[k]]] \o Accepted'
  BY <1>2 DEF MessagesOn
<1>4. Accepted' = Accepted
  BY <1>2, AcceptedIs DEF AcceptedMessage
<1>5. [k \in 1 .. len' |-> data'[q[k]]] = [k \in 1 .. len |-> data[q[k]]]
  OBVIOUS
<1> QED BY <1>1, <1>3, <1>4, <1>5

\* Sequences of messages.
Slots == Values \cup {NULL}

LEMMA Listed ==
  ASSUME NEW n \in Nat, NEW f \in [1 .. n -> Slots]
  PROVE  f \in Seq(Slots) /\ Len(f) = n /\ f \o <<>> = f
<1>1. f \in Seq(Slots) /\ Len(f) = n
  OBVIOUS
<1> QED BY <1>1, ConcatEmptySeq

LEMMA ListedOneMore ==
  ASSUME NEW n \in Nat, NEW f \in [1 .. n -> Slots], NEW g \in [1 .. n + 1 -> Slots],
         \A k \in 1 .. n : g[k] = f[k]
  PROVE  f \o <<g[n + 1]>> = g \o <<>> /\ f \o <<g[n + 1]>> = Append(f \o <<>>, g[n + 1])
<1> DEFINE v == g[n + 1]
<1>1. /\ f \in Seq(Slots) /\ Len(f) = n /\ f \o <<>> = f
      /\ g \in Seq(Slots) /\ Len(g) = n + 1 /\ g \o <<>> = g
  BY Listed
<1>2. v \in Slots /\ <<v>> \in Seq(Slots) /\ Len(<<v>>) = 1 /\ <<v>>[1] = v
  OBVIOUS
<1> HIDE DEF v
<1>3. /\ f \o <<v>> \in Seq(Slots) /\ Len(f \o <<v>>) = n + 1
      /\ \A k \in 1 .. n + 1 : (f \o <<v>>)[k] = IF k <= n THEN f[k] ELSE <<v>>[k - n]
  BY <1>1, <1>2, ConcatProperties
<1>4. /\ Append(f, v) \in Seq(Slots) /\ Len(Append(f, v)) = n + 1
      /\ \A k \in 1 .. n : Append(f, v)[k] = f[k]
      /\ Append(f, v)[n + 1] = v
  BY <1>1, <1>2, AppendProperties
<1>5. \A k \in 1 .. n + 1 : k \in 1 .. n \/ k = n + 1
  OBVIOUS
<1>6. f \o <<v>> = g
  <2>1. \A k \in 1 .. n + 1 : (f \o <<v>>)[k] = g[k]
    BY <1>2, <1>3, <1>5 DEF v
  <2> QED BY <1>1, <1>3, <2>1, SeqEqual
<1>7. f \o <<v>> = Append(f, v)
  <2>1. \A k \in 1 .. n + 1 : (f \o <<v>>)[k] = Append(f, v)[k]
    BY <1>2, <1>3, <1>4, <1>5
  <2> QED BY <1>3, <1>4, <2>1, SeqEqual
<1> QED BY <1>1, <1>6, <1>7 DEF v

LEMMA ListedOneLess ==
  ASSUME NEW n \in Nat \ {0}, NEW f \in [1 .. n -> Slots], NEW g \in [1 .. n - 1 -> Slots],
         \A k \in 1 .. n - 1 : g[k] = f[k + 1]
  PROVE  f \o <<>> # <<>> /\ Head(f \o <<>>) = f[1] /\ Tail(f \o <<>>) = g \o <<>>
<1>1. /\ f \in Seq(Slots) /\ Len(f) = n /\ f \o <<>> = f
      /\ g \in Seq(Slots) /\ Len(g) = n - 1 /\ g \o <<>> = g
  BY Listed
<1>2. f # <<>>
  BY <1>1
<1>3. Tail(f) \in Seq(Slots) /\ Len(Tail(f)) = n - 1 /\ \A k \in 1 .. n - 1 : Tail(f)[k] = f[k + 1]
  BY <1>1, <1>2, HeadTailProperties
<1>4. Tail(f) = g
  BY <1>1, <1>3, SeqEqual
<1>5. Head(f) = f[1]
  BY <1>1, <1>2
<1> QED BY <1>1, <1>2, <1>4, <1>5

-----------------------------------------------------------------------------
(* Each step is one of AbstractChannel, or changes nothing there.          *)

LEMMA Operates ==
  ASSUME chan = "live", chan' # "none", capacity' = capacity, Abstract!Operation
  PROVE  [Abstract!Next]_(Abstract!avars)
  BY DEF Abstract!Next

LEMMA Stutters ==
  ASSUME (chan' # "none") = (chan # "none"), UNCHANGED <<capacity, disconnected>>,
         AbstractItems' = AbstractItems, Calls' = Calls
  PROVE  [Abstract!Next]_(Abstract!avars)
  BY DEF Abstract!avars, Calls

\* What the steps inside a call have in common.
LEMMA InsideFacts ==
  ASSUME IInv, LInv, LInv', chan = "live", NEW h \in Handles, Inside(h)
  PROVE  /\ InUse /\ InUse' /\ chan' = "live" /\ UNCHANGED <<capacity, disconnected>>
         /\ \A g \in Handles \ {h} : /\ pc'[g] = pc[g] /\ msg'[g] = msg[g]
                                     /\ ret'[g] = ret[g] /\ node'[g] = node[g]
<1> DEFINE Others == \A g \in Handles \ {h} : /\ pc'[g] = pc[g] /\ msg'[g] = msg[g]
                                              /\ ret'[g] = ret[g] /\ node'[g] = node[g]
<1>0. TypeOK
  BY DEF LInv
<1>1. PICK to \in HeldPCs \ {"clone_alloc"} : pc' = [pc EXCEPT ![h] = to]
  BY InsideMoves
<1>2. chan' = "live" /\ disconnected' = disconnected /\ Held(h)
  BY InsideMoves DEF Held, HeldPCs
<1>3. InUse /\ InUse'
  <2>1. InUse
    BY <1>2, InUseWhileHeld
  <2> QED BY <1>0, <1>1, <1>2, <2>1 DEF InUse, TypeOK, HeldPCs, DropPCs
<1>4. capacity' = capacity /\ Others
  <2> USE <1>0 DEF TypeOK, shared, locals, Answer, Goto
  <2>1. CASE (\E v \in Values : TrySend(h, v)) \/ TryRecv(h) \/ Return(h)
    BY <2>1 DEF TrySend, TryRecv, Return
  <2>2. CASE SendCheck(h) \/ Enqueue(h) \/ SendFailed(h) \/ RecvCheck(h)
    BY <2>2 DEF SendCheck, Enqueue, SendFailed, RecvCheck
  <2>3. CASE EnqueueAlloc(h) \/ EnqueueLock(h) \/ EnqueueLink(h)
    BY <2>3 DEF EnqueueAlloc, EnqueueLock, EnqueueLink
  <2>4. CASE Dequeue(h) \/ DequeueFree(h)
    BY <2>4 DEF Dequeue, DequeueFree
  <2> QED BY <2>1, <2>2, <2>3, <2>4 DEF Inside
<1> QED BY <1>2, <1>3, <1>4

\* A quiet step of a call leaves the messages alone.
LEMMA QuietItems ==
  ASSUME IInv, LInv, LInv', chan = "live", NEW h \in Handles, Inside(h), Quiet
  PROVE  AbstractItems' = AbstractItems
<1>1. InUse /\ InUse' /\ chan' = "live"
  BY InsideFacts
<1>2. PICK q : ListAlong(q)
  BY <1>1 DEF LInv, OnList
<1>3. ListAlong(q)'
  BY <1>2, QuietStep DEF LInv
<1>4. mutex # NULL => msg'[mutex] = msg[mutex]
  BY DEF LInv, TypeOK, MutexHeld, Quiet, HandPCs
<1>5. UNCHANGED <<len, mutex, data>>
  BY DEF Quiet
<1> QED BY <1>1, <1>2, <1>3, <1>4, <1>5, ItemsStay

LEMMA QuietCalls ==
  ASSUME IInv, LInv, LInv', chan = "live", NEW h \in Handles, Inside(h), UNCHANGED data
  PROVE  Calls' = [Calls EXCEPT ![h] = AbstractCall(h)']
<1>1. \A g \in Handles \ {h} : AbstractCall(g)' = AbstractCall(g)
  BY InsideFacts, CallStays
<1> QED BY <1>1, OneCallChanges

LEMMA BeginSimulates ==
  ASSUME IInv, LInv, LInv', chan = "live", NEW h \in Handles,
         (\E v \in Values : TrySend(h, v)) \/ TryRecv(h) \/ Return(h)
  PROVE  [Abstract!Next]_(Abstract!avars)
<1>0. TypeOK /\ Inside(h) /\ CallTable /\ CallTable'
  BY CallsAre, PTL DEF LInv, Inside
<1>1. Quiet
  BY <1>0, BeginsQuietly, ContinuesQuietly DEF QuietBegin, QuietContinue
<1>2. AbstractItems' = AbstractItems /\ Calls' = [Calls EXCEPT ![h] = AbstractCall(h)']
  BY <1>0, <1>1, QuietItems, QuietCalls DEF Quiet
<1>3. chan' = "live" /\ UNCHANGED <<capacity, disconnected>>
  BY <1>0, InsideFacts
<1>4. CASE (\E v \in Values : TrySend(h, v)) \/ TryRecv(h)
  <2>1. /\ AbstractCall(h) = [op |-> "none"]
        /\ \/ \E v \in Values : AbstractCall(h)' = [op |-> "send", msg |-> v]
           \/ AbstractCall(h)' = [op |-> "recv"]
    <3>1. CASE \E v \in Values : TrySend(h, v)
      <4>1. PICK v \in Values : TrySend(h, v)
        BY <3>1
      <4>2. pc[h] = "idle" /\ pc'[h] \in SendPending /\ msg'[h] = v
        BY <1>0, <4>1 DEF TrySend, Goto, TypeOK, SendPending
      <4> QED BY <1>0, <4>2 DEF CallTable
    <3>2. CASE TryRecv(h)
      <4>1. pc[h] = "idle" /\ pc'[h] = "dequeue"
        BY <1>0, <3>2 DEF TryRecv, Goto, TypeOK
      <4> QED BY <1>0, <4>1 DEF CallTable
    <3> QED BY <1>4, <3>1, <3>2
  <2>2. Abstract!Call(h)
    BY <1>2, <1>3, <2>1 DEF Abstract!Call, Abstract!Becomes, Abstract!NoCall, Calls
  <2> QED BY <1>3, <2>2, Operates DEF Abstract!Operation
<1>5. CASE Return(h)
  <2>1. pc[h] = "ret" /\ pc'[h] = "idle"
    BY <1>0, <1>5 DEF Return, Goto, TypeOK
  <2>2. AbstractCall(h).op = "answer" /\ AbstractCall(h)' = [op |-> "none"]
    BY <1>0, <2>1 DEF CallTable, Ok, Answered
  <2>3. Abstract!Return(h)
    BY <1>2, <1>3, <2>2 DEF Abstract!Return, Abstract!NoCall, Calls
  <2> QED BY <1>3, <2>3, Operates DEF Abstract!Operation
<1> QED BY <1>4, <1>5

\* The length of the queue as a sender sees it.
LEMMA ItemsLength ==
  ASSUME LInv, NEW q, ListAlong(q), InUse, chan = "live"
  PROVE  /\ mutex = NULL => Len(AbstractItems) = len
         /\ Len(AbstractItems) \in Nat /\ Len(AbstractItems) >= len
<1> DEFINE f == [k \in 1 .. len |-> data[q[k]]]
<1>1. len \in Nat /\ f \in [1 .. len -> Slots]
  BY DEF LInv, TypeOK, ListAlong, Slots
<1>2. f \in Seq(Slots) /\ Len(f) = len /\ f \o <<>> = f
  BY <1>1, Listed
<1>3. AbstractItems = f \o Accepted
  BY ItemsAre DEF MessagesOn
<1>4. Accepted = IF mutex = NULL THEN <<>> ELSE <<msg[mutex]>>
  BY AcceptedIs DEF AcceptedMessage
<1> HIDE DEF f
<1>5. CASE mutex = NULL
  BY <1>1, <1>2, <1>3, <1>4, <1>5
<1>6. CASE mutex # NULL
  <2>1. msg[mutex] \in Slots
    BY <1>6 DEF LInv, TypeOK, Slots
  <2>2. <<msg[mutex]>> \in Seq(Slots) /\ Len(<<msg[mutex]>>) = 1
    BY <2>1
  <2>3. Len(f \o <<msg[mutex]>>) = len + 1
    BY <1>2, <2>2, ConcatProperties
  <2> QED BY <1>1, <1>3, <1>4, <1>6, <2>3
<1> QED BY <1>5, <1>6

LEMMA FullIsFull ==
  ASSUME LInv, NEW q, ListAlong(q), InUse, chan = "live"
  PROVE  /\ IsFull => Abstract!IsFull
         /\ mutex = NULL => (Abstract!IsFull <=> IsFull)
<1>1. capacity \in Nat /\ len \in Nat
  BY DEF LInv, TypeOK
<1>2. /\ mutex = NULL => Len(AbstractItems) = len
      /\ Len(AbstractItems) \in Nat /\ Len(AbstractItems) >= len
  BY ItemsLength
<1> QED BY <1>1, <1>2 DEF IsFull, Abstract!IsFull

\* A send that is refused, wherever that happens.
LEMMA RefuseSimulates ==
  ASSUME IInv, LInv, LInv', chan = "live", NEW h \in Handles, Inside(h),
         pc[h] \in SendPending, AbstractItems' = AbstractItems,
         Calls' = [Calls EXCEPT ![h] = AbstractCall(h)'],
         \/ pc'[h] = "send_failed" /\ (disconnected \/ IsFull \/ MallocFails)
         \/ pc'[h] = "ret" /\ ret'[h] = "disconnected" /\ disconnected
  PROVE  [Abstract!Next]_(Abstract!avars)
<1>1. CallTable /\ CallTable'
  BY CallsAre, PTL
<1>2. InUse /\ chan' = "live" /\ UNCHANGED <<capacity, disconnected>>
  BY InsideFacts
<1>3. PICK q : ListAlong(q)
  BY <1>2 DEF LInv, OnList
<1>4. AbstractCall(h) = [op |-> "send", msg |-> msg[h]] /\ msg[h] \in Values
  BY <1>1 DEF CallTable, LInv, CallsOfSides, SendPCs, SendPending
<1>5. Calls[h] \in [op : {"send"}, msg : Values]
  BY <1>4 DEF Calls
<1>6. CASE pc'[h] = "send_failed" /\ (disconnected \/ IsFull \/ MallocFails)
  <2>1. AbstractCall(h)' = [op |-> "refused"]
    BY <1>1, <1>6 DEF CallTable
  <2>2. disconnected \/ Abstract!IsFull \/ MallocFails
    BY <1>2, <1>3, <1>6, FullIsFull
  <2>3. Abstract!Refuse(h)
    BY <1>2, <1>5, <2>1, <2>2 DEF Abstract!Refuse, Calls
  <2> QED BY <1>2, <2>3, Operates DEF Abstract!Operation
<1>7. CASE pc'[h] = "ret" /\ ret'[h] = "disconnected" /\ disconnected
  <2>1. AbstractCall(h)' = [op |-> "answer", ret |-> "disconnected"]
    BY <1>1, <1>7 DEF CallTable, Answered
  <2>2. Abstract!Refuse(h)
    BY <1>2, <1>5, <1>7, <2>1 DEF Abstract!Refuse, Calls
  <2> QED BY <1>2, <2>2, Operates DEF Abstract!Operation
<1> QED BY <1>6, <1>7

\* A send goes on without effect.
LEMMA SendGoesOn ==
  ASSUME IInv, LInv, LInv', chan = "live", NEW h \in Handles, Inside(h),
         pc[h] \in SendPending, pc'[h] \in SendPending, UNCHANGED msg, AbstractItems' = AbstractItems,
         Calls' = [Calls EXCEPT ![h] = AbstractCall(h)']
  PROVE  [Abstract!Next]_(Abstract!avars)
<1>1. CallTable /\ CallTable'
  BY CallsAre, PTL
<1>2. AbstractCall(h)' = AbstractCall(h)
  BY <1>1 DEF CallTable
<1>3. Calls' = Calls
  BY <1>2 DEF Calls
<1>4. chan' = "live" /\ UNCHANGED <<capacity, disconnected>>
  BY InsideFacts
<1> QED BY <1>3, <1>4, Stutters

LEMMA SendSimulates ==
  ASSUME IInv, LInv, LInv', chan = "live", NEW h \in Handles,
         SendCheck(h) \/ Enqueue(h) \/ (EnqueueAlloc(h) /\ UNCHANGED heap)
  PROVE  [Abstract!Next]_(Abstract!avars)
<1>0. TypeOK /\ Inside(h)
  BY DEF LInv, Inside
<1>1. Quiet
  BY <1>0, ContinuesQuietly DEF QuietContinue
<1>2. AbstractItems' = AbstractItems /\ Calls' = [Calls EXCEPT ![h] = AbstractCall(h)']
  BY <1>0, <1>1, QuietItems, QuietCalls DEF Quiet
<1> USE DEF TypeOK, Goto, Answer, SendPending
<1>3. pc[h] \in SendPending /\ UNCHANGED msg
  BY DEF SendCheck, Enqueue, EnqueueAlloc, locals
<1>4. CASE SendCheck(h)
  <2>1. CASE disconnected
    <3>1. pc'[h] = "ret" /\ ret'[h] = "disconnected"
      BY <1>0, <1>4, <2>1 DEF SendCheck
    <3> QED BY <1>0, <1>2, <1>3, <2>1, <3>1, RefuseSimulates
  <2>2. CASE ~disconnected
    <3>1. pc'[h] \in SendPending
      BY <1>0, <1>4, <2>2 DEF SendCheck
    <3> QED BY <1>0, <1>2, <1>3, <3>1, SendGoesOn
  <2> QED BY <2>1, <2>2
<1>5. CASE Enqueue(h)
  <2>1. CASE disconnected
    <3>1. pc'[h] = "send_failed"
      BY <1>0, <1>5, <2>1 DEF Enqueue
    <3> QED BY <1>0, <1>2, <1>3, <2>1, <3>1, RefuseSimulates
  <2>2. CASE ~disconnected
    <3>1. pc'[h] \in SendPending
      BY <1>0, <1>5, <2>2 DEF Enqueue
    <3> QED BY <1>0, <1>2, <1>3, <3>1, SendGoesOn
  <2> QED BY <2>1, <2>2
<1>6. CASE EnqueueAlloc(h) /\ UNCHANGED heap
  <2>1. pc'[h] = "send_failed" /\ (IsFull \/ MallocFails)
    BY <1>0, <1>6 DEF EnqueueAlloc
  <2> QED BY <1>0, <1>2, <1>3, <2>1, RefuseSimulates
<1> QED BY <1>4, <1>5, <1>6

LEMMA AllocateSimulates ==
  ASSUME IInv, LInv, LInv', chan = "live", NEW h \in Handles, EnqueueAlloc(h), heap' # heap
  PROVE  [Abstract!Next]_(Abstract!avars)
<1>0. TypeOK /\ Inside(h)
  BY DEF LInv, Inside
<1>1. InUse /\ InUse' /\ chan' = "live"
  BY <1>0, InsideFacts
<1>2. PICK q : ListAlong(q)
  BY <1>1 DEF LInv, OnList
<1>3. PICK n \in Nodes \ heap :
        /\ Goto(h, "enqueue_alloc", "enqueue_lock")
        /\ heap' = heap \cup {n} /\ data' = [data EXCEPT ![n] = msg[h]]
        /\ next' = [next EXCEPT ![n] = NULL] /\ node' = [node EXCEPT ![h] = n]
  BY DEF EnqueueAlloc
<1>4. UNCHANGED <<head, tail, len, mutex, msg>>
  BY DEF EnqueueAlloc
<1>5. ListAlong(q)'
  BY <1>2, <1>3, <1>4, AllocateStep
<1>6. \A m \in heap : data'[m] = data[m]
  BY <1>0, <1>3 DEF TypeOK
<1>7. AbstractItems' = AbstractItems
  <2>1. \A k \in 1 .. len : data'[q[k]] = data[q[k]]
    BY <1>2, <1>6 DEF ListAlong
  <2> QED BY <1>1, <1>2, <1>4, <1>5, <2>1, ItemsStay
<1>8. Calls' = [Calls EXCEPT ![h] = AbstractCall(h)']
  <2>1. \A g \in Handles : pc[g] = "dequeue_free" => node[g] \in heap
    BY <1>2 DEF LInv, NodesInHand, HandPCs, ListAlong, InHand
  <2>2. \A g \in Handles \ {h} : AbstractCall(g)' = AbstractCall(g)
    BY <1>0, <1>6, <2>1, InsideFacts, CallStays
  <2> QED BY <2>2, OneCallChanges
<1>9. pc[h] \in SendPending /\ pc'[h] \in SendPending
  BY <1>0, <1>3 DEF Goto, TypeOK, SendPending
<1> QED BY <1>0, <1>4, <1>7, <1>8, <1>9, SendGoesOn

\* Freeing a node changes no message that is still wanted.
LEMMA FreeKeepsMessages ==
  ASSUME IInv, LInv, LInv', chan = "live", NEW h \in Handles, Inside(h),
         pc[h] \in {"enqueue_lock", "dequeue_free"}, Free(node[h]),
         NEW to \in PCs \ HandPCs, pc' = [pc EXCEPT ![h] = to],
         node' = [node EXCEPT ![h] = NULL], UNCHANGED <<head, tail, len, mutex>>
  PROVE  AbstractItems' = AbstractItems /\ Calls' = [Calls EXCEPT ![h] = AbstractCall(h)']
<1>0. TypeOK
  BY DEF LInv
<1>1. /\ InUse /\ InUse' /\ chan' = "live"
      /\ \A g \in Handles \ {h} : /\ pc'[g] = pc[g] /\ msg'[g] = msg[g]
                                  /\ ret'[g] = ret[g] /\ node'[g] = node[g]
  BY InsideFacts
<1>2. PICK q : ListAlong(q)
  BY <1>1 DEF LInv, OnList
<1>3. ListAlong(q)'
  BY <1>1, <1>2, FreeStep
<1>4. node[h] # NULL /\ node[h] \in InHand
  BY DEF LInv, NodesInHand, HandPCs, InHand
<1>5. \A m \in Nodes \ {node[h]} : data'[m] = data[m]
  BY <1>0 DEF TypeOK, Free
<1>6. AbstractItems' = AbstractItems
  <2>1. \A k \in 1 .. len : data'[q[k]] = data[q[k]]
    BY <1>0, <1>2, <1>4, <1>5 DEF ListAlong, TypeOK
  <2>2. mutex # NULL => msg'[mutex] = msg[mutex]
    <3>1. mutex # h
      BY DEF LInv, MutexHeld
    <3> QED BY <1>0, <1>1, <3>1 DEF TypeOK
  <2> QED BY <1>1, <1>2, <1>3, <2>1, <2>2, ItemsStay
<1>7. \A g \in Handles \ {h} : AbstractCall(g)' = AbstractCall(g)
  <2>1. ASSUME NEW g \in Handles \ {h}, pc[g] = "dequeue_free" PROVE data'[node[g]] = data[node[g]]
    <3>1. node[g] # NULL /\ node[g] # node[h] /\ node[g] \in Nodes
      BY <1>0, <2>1 DEF LInv, NodesInHand, HandPCs, TypeOK
    <3> QED BY <1>5, <3>1
  <2> QED BY <1>1, <2>1, CallStays
<1> QED BY <1>6, <1>7, OneCallChanges

LEMMA LockSimulates ==
  ASSUME IInv, LInv, LInv', chan = "live", NEW h \in Handles, EnqueueLock(h)
  PROVE  [Abstract!Next]_(Abstract!avars)
<1>a. CallTable /\ CallTable'
  BY CallsAre, PTL
<1>0. TypeOK /\ Inside(h) /\ CallTable /\ CallTable' /\ "send_failed" \in PCs \ HandPCs
  BY <1>a DEF LInv, Inside, PCs, HandPCs
<1>1. /\ InUse /\ InUse' /\ chan' = "live" /\ UNCHANGED <<capacity, disconnected>>
      /\ \A g \in Handles \ {h} : /\ pc'[g] = pc[g] /\ msg'[g] = msg[g]
                                  /\ ret'[g] = ret[g] /\ node'[g] = node[g]
  BY <1>0, InsideFacts
<1>2. PICK q : ListAlong(q)
  BY <1>1 DEF LInv, OnList
<1>3. pc[h] = "enqueue_lock" /\ pc[h] \in SendPending /\ mutex = NULL /\ UNCHANGED <<head, tail, len, msg>>
  BY DEF EnqueueLock, Goto, SendPending
<1>4. CASE Rejects
  <2>1. /\ pc' = [pc EXCEPT ![h] = "send_failed"] /\ Free(node[h])
        /\ node' = [node EXCEPT ![h] = NULL] /\ mutex' = mutex
    BY <1>4 DEF EnqueueLock, Goto
  <2>2. AbstractItems' = AbstractItems /\ Calls' = [Calls EXCEPT ![h] = AbstractCall(h)']
    BY <1>0, <1>3, <2>1, FreeKeepsMessages
  <2>3. pc'[h] = "send_failed" /\ (disconnected \/ IsFull)
    BY <1>0, <1>4, <2>1 DEF Rejects, TypeOK
  <2> QED BY <1>0, <1>3, <2>2, <2>3, RefuseSimulates
<1>5. CASE ~Rejects
  <2>1. pc' = [pc EXCEPT ![h] = "enqueue_link"] /\ mutex' = h /\ UNCHANGED <<next, data, heap, node>>
    BY <1>5 DEF EnqueueLock, Goto
  <2>2. ListAlong(q)'
    BY <1>2, <1>3, <2>1 DEF ListAlong, InHand
  <2>3. h # NULL /\ msg[h] \in Values
    BY <1>3, HandlesAssumption DEF Handles, LInv, CallsOfSides, SendPCs
  <2>4. AbstractItems' = Append(AbstractItems, msg[h])
    <3> DEFINE f == [k \in 1 .. len |-> data[q[k]]]
               g == [k \in 1 .. len + 1 |-> IF k <= len THEN f[k] ELSE msg[h]]
    <3>1. len \in Nat /\ f \in [1 .. len -> Slots]
      BY <1>0, <1>2 DEF TypeOK, ListAlong, Slots
    <3>2. g \in [1 .. len + 1 -> Slots]
      <4>1. \A k \in 1 .. len + 1 : (IF k <= len THEN f[k] ELSE msg[h]) \in Slots
        BY <2>3, <3>1 DEF Slots
      <4> QED BY <4>1
    <3>3. (\A k \in 1 .. len : g[k] = f[k]) /\ g[len + 1] = msg[h]
      BY <3>1
    <3>4. AbstractItems = f \o <<>>
      <4>1. AbstractItems = f \o Accepted
        BY <1>1, <1>2, ItemsAre DEF MessagesOn
      <4> QED BY <1>3, <4>1 DEF Accepted
    <3>5. AbstractItems' = f \o <<msg[h]>>
      <4>1. MessagesOn' /\ AcceptedMessage'
        BY ItemsAre, AcceptedIs, PTL
      <4>2. AbstractItems' = [k \in 1 .. len' |-> data'[q[k]]] \o Accepted'
        BY <1>1, <2>2, <4>1 DEF MessagesOn
      <4>3. Accepted' = <<msg[h]>>
        BY <1>3, <2>1, <2>3, <4>1 DEF AcceptedMessage
      <4> QED BY <1>3, <2>1, <4>2, <4>3
    <3> HIDE DEF f, g
    <3>6. f \o <<g[len + 1]>> = Append(f \o <<>>, g[len + 1])
      BY <3>1, <3>2, <3>3, ListedOneMore
    <3> QED BY <3>3, <3>4, <3>5, <3>6
  <2>5. Calls' = [Calls EXCEPT ![h] = AbstractCall(h)']
    BY <1>1, <2>1, CallStays, OneCallChanges
  <2>6. pc'[h] = "enqueue_link"
    BY <1>0, <2>1 DEF TypeOK
  <2>7. AbstractCall(h) = [op |-> "send", msg |-> msg[h]] /\ AbstractCall(h)' = [op |-> "answer", ret |-> "ok"]
    BY <1>0, <1>3, <2>6 DEF CallTable, Answered
  <2>8. ~disconnected /\ ~Abstract!IsFull
    BY <1>1, <1>2, <1>3, <1>5, FullIsFull DEF Rejects
  <2>9. Abstract!Accept(h)
    BY <1>1, <2>3, <2>4, <2>5, <2>7, <2>8 DEF Abstract!Accept, Abstract!Becomes, Calls
  <2> QED BY <1>1, <2>9, Operates DEF Abstract!Operation
<1> QED BY <1>4, <1>5

LEMMA LinkSimulates ==
  ASSUME IInv, LInv, LInv', chan = "live", NEW h \in Handles, EnqueueLink(h)
  PROVE  [Abstract!Next]_(Abstract!avars)
<1>0. TypeOK /\ Inside(h) /\ CallTable /\ CallTable'
  BY CallsAre, PTL DEF LInv, Inside
<1>1. /\ InUse /\ InUse' /\ chan' = "live" /\ UNCHANGED <<capacity, disconnected>>
      /\ \A g \in Handles \ {h} : /\ pc'[g] = pc[g] /\ msg'[g] = msg[g]
                                  /\ ret'[g] = ret[g] /\ node'[g] = node[g]
  BY <1>0, InsideFacts
<1>2. PICK q : ListAlong(q)
  BY <1>1 DEF LInv, OnList
<1>3. /\ pc[h] = "enqueue_link" /\ pc' = [pc EXCEPT ![h] = "ret"] /\ ret' = [ret EXCEPT ![h] = "ok"]
      /\ len' = len + 1 /\ tail' = node[h] /\ mutex' = NULL /\ UNCHANGED <<data, msg>>
  BY DEF EnqueueLink, Answer, Goto
<1>4. /\ mutex = h /\ h # NULL /\ data[node[h]] = msg[h] /\ msg[h] \in Values /\ h \in Senders
  BY <1>3, HandlesAssumption DEF LInv, MutexHeld, NodesInHand, CallsOfSides, SendPCs, Handles
<1>5. PICK p : ListAlong(p)' /\ \A k \in 1 .. len : p[k] = q[k]
  BY <1>2, LinkStep
<1>6. AbstractItems' = AbstractItems
  <2> DEFINE f == [k \in 1 .. len |-> data[q[k]]]
             g == [k \in 1 .. len + 1 |-> data[p[k]]]
  <2>1. len \in Nat /\ f \in [1 .. len -> Slots]
    BY <1>0, <1>2 DEF TypeOK, ListAlong, Slots
  <2>2. \A k \in 1 .. len + 1 : p[k] \in Nodes
    BY <1>3, <1>5 DEF LInv, TypeOK, ListAlong
  <2>3. g \in [1 .. len + 1 -> Slots]
    BY <1>0, <2>2 DEF TypeOK, Slots
  <2>4. p[len + 1] = node[h]
    BY <1>3, <1>5, <2>1 DEF ListAlong
  <2>5. (\A k \in 1 .. len : g[k] = f[k]) /\ g[len + 1] = msg[h]
    BY <1>4, <1>5, <2>1, <2>4
  <2>6. AbstractItems = f \o <<msg[h]>>
    <3>1. AbstractItems = f \o Accepted
      BY <1>1, <1>2, ItemsAre DEF MessagesOn
    <3> QED BY <1>4, <3>1 DEF Accepted
  <2>7. AbstractItems' = g \o <<>>
    <3>1. MessagesOn'
      BY ItemsAre, PTL
    <3>2. AbstractItems' = [k \in 1 .. len' |-> data'[p[k]]] \o Accepted'
      BY <1>1, <1>5, <3>1 DEF MessagesOn
    <3>3. Accepted' = <<>>
      BY <1>3 DEF Accepted
    <3> QED BY <1>3, <3>2, <3>3
  <2> HIDE DEF f, g
  <2>8. f \o <<g[len + 1]>> = g \o <<>>
    BY <2>1, <2>3, <2>5, ListedOneMore
  <2> QED BY <2>5, <2>6, <2>7, <2>8
<1>7. Calls' = Calls
  <2>1. Calls' = [Calls EXCEPT ![h] = AbstractCall(h)']
    BY <1>1, <1>3, CallStays, OneCallChanges
  <2>2. pc'[h] = "ret" /\ ret'[h] = "ok" /\ h \notin Receivers
    BY <1>0, <1>3, <1>4, HandlesAssumption DEF TypeOK
  <2>3. AbstractCall(h)' = AbstractCall(h)
    BY <1>0, <1>3, <2>2 DEF CallTable
  <2> QED BY <2>1, <2>3 DEF Calls
<1> QED BY <1>1, <1>6, <1>7, Stutters

LEMMA NothingSimulates ==
  ASSUME IInv, LInv, LInv', chan = "live", NEW h \in Handles, Dequeue(h), head = NULL
  PROVE  [Abstract!Next]_(Abstract!avars)
<1>0. TypeOK /\ Inside(h) /\ CallTable /\ CallTable'
  BY CallsAre, PTL DEF LInv, Inside
<1>1. Quiet
  BY <1>0, ContinuesQuietly DEF QuietContinue
<1>2. AbstractItems' = AbstractItems /\ Calls' = [Calls EXCEPT ![h] = AbstractCall(h)']
  BY <1>0, <1>1, QuietItems, QuietCalls DEF Quiet
<1>3. InUse /\ chan' = "live" /\ UNCHANGED <<capacity, disconnected>>
  BY <1>0, InsideFacts
<1>4. pc[h] = "dequeue" /\ pc'[h] = "recv_check" /\ mutex = NULL
  BY <1>0 DEF Dequeue, Goto, TypeOK
<1>5. AbstractCall(h) = [op |-> "recv"] /\ AbstractCall(h)' = [op |-> "nothing"]
  BY <1>0, <1>4 DEF CallTable
<1>6. AbstractItems = <<>>
  <2>1. PICK q : ListAlong(q)
    BY <1>3 DEF LInv, OnList
  <2>2. len = 0
    <3>1. q[1] = head /\ len \in Nat
      BY <1>0, <2>1 DEF ListAlong, IsWalk, TypeOK
    <3> QED BY <1>0, <2>1, <3>1, NodesAssumption DEF ListAlong, TypeOK
  <2> DEFINE f == [k \in 1 .. len |-> data[q[k]]]
  <2>3. AbstractItems = f \o Accepted /\ Accepted = <<>>
    BY <1>3, <1>4, <2>1, ItemsAre DEF MessagesOn, Accepted
  <2>4. f \in [1 .. 0 -> Slots]
    BY <2>2
  <2> HIDE DEF f
  <2>5. f \in Seq(Slots) /\ Len(f) = 0 /\ f \o <<>> = f
    BY <2>4, Listed
  <2> QED BY <2>3, <2>5, EmptySeq
<1>7. Abstract!Nothing(h)
  BY <1>2, <1>3, <1>5, <1>6 DEF Abstract!Nothing, Abstract!Becomes, Calls
<1> QED BY <1>3, <1>7, Operates DEF Abstract!Operation

LEMMA ReceiveSimulates ==
  ASSUME IInv, LInv, LInv', chan = "live", NEW h \in Handles, Dequeue(h), head # NULL
  PROVE  [Abstract!Next]_(Abstract!avars)
<1>0. TypeOK /\ Inside(h) /\ CallTable /\ CallTable'
  BY CallsAre, PTL DEF LInv, Inside
<1>1. /\ InUse /\ InUse' /\ chan' = "live" /\ UNCHANGED <<capacity, disconnected>>
      /\ \A g \in Handles \ {h} : /\ pc'[g] = pc[g] /\ msg'[g] = msg[g]
                                  /\ ret'[g] = ret[g] /\ node'[g] = node[g]
  BY <1>0, InsideFacts
<1>2. PICK q : ListAlong(q)
  BY <1>1 DEF LInv, OnList
<1>3. /\ pc[h] = "dequeue" /\ pc' = [pc EXCEPT ![h] = "dequeue_free"] /\ node' = [node EXCEPT ![h] = head]
      /\ len' = len - 1 /\ mutex = NULL /\ UNCHANGED <<data, mutex>>
  BY DEF Dequeue, Goto
<1>4. PICK p : ListAlong(p)' /\ \A k \in 1 .. len - 1 : p[k] = q[k + 1]
  BY <1>2, UnlinkStep
<1>5. len > 0 /\ head = q[1]
  BY <1>2, UnlinkStep
<1>6. /\ AbstractItems # <<>> /\ Head(AbstractItems) = data[head]
      /\ AbstractItems' = Tail(AbstractItems)
  <2> DEFINE f == [k \in 1 .. len |-> data[q[k]]]
             g == [k \in 1 .. len - 1 |-> data[p[k]]]
  <2>1. len \in Nat \ {0} /\ f \in [1 .. len -> Slots]
    BY <1>0, <1>2, <1>5 DEF TypeOK, ListAlong, Slots
  <2>2. \A k \in 1 .. len - 1 : p[k] \in Nodes
    BY <1>3, <1>4 DEF LInv, TypeOK, ListAlong
  <2>3. g \in [1 .. len - 1 -> Slots]
    BY <1>0, <2>2 DEF TypeOK, Slots
  <2>4. \A k \in 1 .. len - 1 : g[k] = f[k + 1]
    BY <1>4, <2>1
  <2>5. f[1] = data[head]
    BY <1>5, <2>1
  <2>6. AbstractItems = f \o <<>>
    <3>1. AbstractItems = f \o Accepted
      BY <1>1, <1>2, ItemsAre DEF MessagesOn
    <3> QED BY <1>3, <3>1 DEF Accepted
  <2>7. AbstractItems' = g \o <<>>
    <3>1. MessagesOn'
      BY ItemsAre, PTL
    <3>2. AbstractItems' = [k \in 1 .. len' |-> data'[p[k]]] \o Accepted'
      BY <1>1, <1>4, <3>1 DEF MessagesOn
    <3>3. Accepted' = <<>>
      BY <1>3 DEF Accepted
    <3> QED BY <1>3, <3>2, <3>3
  <2> HIDE DEF f, g
  <2>8. f \o <<>> # <<>> /\ Head(f \o <<>>) = f[1] /\ Tail(f \o <<>>) = g \o <<>>
    BY <2>1, <2>3, <2>4, ListedOneLess
  <2> QED BY <2>5, <2>6, <2>7, <2>8
<1>7. Calls' = [Calls EXCEPT ![h] = AbstractCall(h)']
  BY <1>1, <1>3, CallStays, OneCallChanges
<1>8. pc'[h] = "dequeue_free" /\ node'[h] = head
  BY <1>0, <1>3 DEF TypeOK
<1>9. /\ AbstractCall(h) = [op |-> "recv"]
      /\ AbstractCall(h)' = [op |-> "answer", ret |-> "ok", msg |-> data[head]]
  BY <1>0, <1>3, <1>8 DEF CallTable, Ok
<1>10. Abstract!Receive(h)
  BY <1>1, <1>6, <1>7, <1>9 DEF Abstract!Receive, Abstract!Becomes, Calls
<1> QED BY <1>1, <1>10, Operates DEF Abstract!Operation

LEMMA DequeueFreeSimulates ==
  ASSUME IInv, LInv, LInv', chan = "live", NEW h \in Handles, DequeueFree(h)
  PROVE  [Abstract!Next]_(Abstract!avars)
<1>a. CallTable /\ CallTable'
  BY CallsAre, PTL
<1>0. TypeOK /\ Inside(h) /\ CallTable /\ CallTable' /\ "ret" \in PCs \ HandPCs
  BY <1>a DEF LInv, Inside, PCs, HandPCs
<1>1. chan' = "live" /\ UNCHANGED <<capacity, disconnected>>
  BY <1>0, InsideFacts
<1>2. /\ pc[h] = "dequeue_free" /\ pc' = [pc EXCEPT ![h] = "ret"] /\ ret' = [ret EXCEPT ![h] = "ok"]
      /\ msg' = [msg EXCEPT ![h] = data[node[h]]] /\ Free(node[h])
      /\ node' = [node EXCEPT ![h] = NULL] /\ UNCHANGED <<head, tail, len, mutex>>
  BY DEF DequeueFree, Answer, Goto
<1>3. AbstractItems' = AbstractItems /\ Calls' = [Calls EXCEPT ![h] = AbstractCall(h)']
  BY <1>0, <1>2, FreeKeepsMessages
<1>4. pc'[h] = "ret" /\ ret'[h] = "ok" /\ msg'[h] = data[node[h]] /\ h \in Receivers
  BY <1>0, <1>2 DEF TypeOK, LInv, CallsOfSides, RecvPCs
<1>5. AbstractCall(h)' = AbstractCall(h)
  BY <1>0, <1>2, <1>4 DEF CallTable
<1>6. Calls' = Calls
  BY <1>3, <1>5 DEF Calls
<1> QED BY <1>1, <1>3, <1>6, Stutters

LEMMA ExplainSimulates ==
  ASSUME IInv, LInv, LInv', chan = "live", NEW h \in Handles, SendFailed(h) \/ RecvCheck(h)
  PROVE  [Abstract!Next]_(Abstract!avars)
<1>0. TypeOK /\ Inside(h) /\ CallTable /\ CallTable'
  BY CallsAre, PTL DEF LInv, Inside
<1>1. Quiet
  BY <1>0, ContinuesQuietly DEF QuietContinue
<1>2. AbstractItems' = AbstractItems /\ Calls' = [Calls EXCEPT ![h] = AbstractCall(h)']
  BY <1>0, <1>1, QuietItems, QuietCalls DEF Quiet
<1>3. chan' = "live" /\ UNCHANGED <<capacity, disconnected>>
  BY <1>0, InsideFacts
<1>4. \/ /\ AbstractCall(h) = [op |-> "refused"]
         /\ AbstractCall(h)' = Answered(IF disconnected THEN "disconnected" ELSE "full")
      \/ /\ AbstractCall(h) = [op |-> "nothing"]
         /\ AbstractCall(h)' = Answered(IF disconnected THEN "disconnected" ELSE "empty")
  <2>1. CASE SendFailed(h)
    <3>1. /\ pc[h] = "send_failed" /\ pc'[h] = "ret" /\ ret'[h] = IF disconnected THEN "disconnected" ELSE "full"
      BY <1>0, <2>1 DEF SendFailed, Answer, Goto, TypeOK
    <3> QED BY <1>0, <3>1 DEF CallTable
  <2>2. CASE RecvCheck(h)
    <3>1. /\ pc[h] = "recv_check" /\ pc'[h] = "ret" /\ ret'[h] = IF disconnected THEN "disconnected" ELSE "empty"
      BY <1>0, <2>2 DEF RecvCheck, Answer, Goto, TypeOK
    <3> QED BY <1>0, <3>1 DEF CallTable
  <2> QED BY <2>1, <2>2
<1>5. Abstract!Explain(h)
  <2> DEFINE to == AbstractCall(h)'
  <2>1. Calls[h] = AbstractCall(h) /\ Calls' = [Calls EXCEPT ![h] = to]
    BY <1>2 DEF Calls
  <2>2. AbstractItems' = AbstractItems /\ disconnected' = disconnected
    BY <1>2, <1>3
  <2> HIDE DEF to
  <2>3. CASE disconnected
    <3>1. Calls[h].op \in {"refused", "nothing"} /\ to = [op |-> "answer", ret |-> "disconnected"]
      BY <1>4, <2>1, <2>3 DEF to, Answered
    <3> QED BY <2>1, <2>2, <2>3, <3>1 DEF Abstract!Explain, Calls
  <2>4. CASE ~disconnected
    <3>1. \/ Calls[h] = [op |-> "refused"] /\ to = [op |-> "answer", ret |-> "full"]
          \/ Calls[h] = [op |-> "nothing"] /\ to = [op |-> "answer", ret |-> "empty"]
      BY <1>4, <2>1, <2>4 DEF to, Answered
    <3> QED BY <2>1, <2>2, <2>4, <3>1 DEF Abstract!Explain, Abstract!Becomes, Calls
  <2> QED BY <2>3, <2>4
<1> QED BY <1>3, <1>5, Operates DEF Abstract!Operation

\* What clones and drops do to the queue and the calls: nothing.
LEMMA LeavesItems ==
  ASSUME IInv, LInv, LInv', chan = "live", chan' = "live", InUse' = InUse, Quiet
  PROVE  AbstractItems' = AbstractItems
<1>1. CASE InUse
  <2>1. PICK q : ListAlong(q)
    BY <1>1 DEF LInv, OnList
  <2>2. ListAlong(q)'
    BY <2>1, QuietStep DEF LInv
  <2>3. mutex # NULL => msg'[mutex] = msg[mutex]
    BY DEF LInv, TypeOK, MutexHeld, Quiet, HandPCs
  <2> QED BY <1>1, <2>1, <2>2, <2>3, ItemsStay DEF Quiet
<1>2. CASE ~InUse
  <2>1. NoMessages /\ NoMessages'
    BY NoItems, PTL
  <2> QED BY <1>2, <2>1 DEF NoMessages
<1> QED BY <1>1, <1>2

LEMMA LeavesCalls ==
  ASSUME UNCHANGED <<data, node, msg, ret>>,
         \A g \in Handles : pc'[g] = pc[g] \/ {pc[g], pc'[g]} \subseteq {"none", "idle", "clone_alloc"} \cup DropPCs
  PROVE  Calls' = Calls
<1>1. CallTable /\ CallTable'
  BY CallsAre, PTL
<1>2. ASSUME NEW g \in Handles PROVE AbstractCall(g)' = AbstractCall(g)
  <2>1. CASE pc'[g] = pc[g]
    BY <2>1, CallStays
  <2>2. CASE pc'[g] # pc[g]
    BY <1>1, <2>2 DEF CallTable
  <2> QED BY <2>1, <2>2
<1> QED BY <1>2 DEF Calls

LEMMA HandlesSimulate ==
  ASSUME IInv, LInv, LInv', chan = "live", NEW h \in Handles,
         Clone(h) \/ CloneAlloc(h) \/ Drop(h) \/ DropDisconnect(h) \/ DropCheck(h)
  PROVE  [Abstract!Next]_(Abstract!avars)
<1>0. TypeOK
  BY DEF LInv
<1>1. Quiet
  BY <1>0, BeginsQuietly, ContinuesQuietly DEF QuietBegin, QuietContinue
<1>2. /\ chan' = "live" /\ UNCHANGED <<capacity, data, node, msg, ret>>
      /\ disconnected' = disconnected \/ (DropDisconnect(h) /\ disconnected' = TRUE)
  BY DEF Clone, CloneAlloc, Drop, DropDisconnect, DropCheck, list, locals, shared
<1>3. /\ InUse' = InUse
      /\ \A g \in Handles : pc'[g] = pc[g] \/ {pc[g], pc'[g]} \subseteq {"none", "idle", "clone_alloc"} \cup DropPCs
  <2>1. \A g \in Handles : \/ pc'[g] = pc[g]
                           \/ /\ {pc[g], pc'[g]} \subseteq {"none", "idle", "clone_alloc"} \cup DropPCs
                              /\ "destroy_free" \notin {pc[g], pc'[g]}
    BY <1>0 DEF TypeOK, Clone, CloneAlloc, Drop, DropDisconnect, DropCheck, Goto, DropPCs
  <2> QED BY <1>2, <2>1 DEF InUse
<1>4. AbstractItems' = AbstractItems
  BY <1>1, <1>2, <1>3, LeavesItems
<1>5. Calls' = Calls
  BY <1>2, <1>3, LeavesCalls
<1>6. CASE disconnected' = disconnected
  BY <1>2, <1>4, <1>5, <1>6, Stutters
<1>7. CASE disconnected' = TRUE
  <2>1. Abstract!Close
    BY <1>4, <1>5, <1>7 DEF Abstract!Close, Calls
  <2> QED BY <1>2, <2>1, Operates DEF Abstract!Operation
<1> QED BY <1>2, <1>6, <1>7

LEMMA DestroySimulates ==
  ASSUME IInv, LInv, LInv', chan = "live", NEW h \in Handles, DestroyNodes(h) \/ DestroyFree(h)
  PROVE  [Abstract!Next]_(Abstract!avars)
<1>0. TypeOK /\ CallTable
  BY CallsAre DEF LInv
<1>1. /\ UNCHANGED <<capacity, disconnected, data, node, msg, ret>>
      /\ pc[h] \in {"destroy", "destroy_free"}
      /\ \A g \in Handles : pc'[g] = pc[g] \/ {pc[g], pc'[g]} \subseteq {"none", "idle", "clone_alloc"} \cup DropPCs
  BY <1>0 DEF TypeOK, DestroyNodes, DestroyFree, Goto, list, locals, DropPCs
<1>2. Calls' = Calls
  BY <1>1, LeavesCalls
<1>3. NoMessages /\ NoMessages'
  BY NoItems, PTL
<1>4. AbstractItems' = <<>>
  <2>1. ~InUse'
    BY <1>0 DEF TypeOK, DestroyNodes, DestroyFree, Goto, InUse
  <2> QED BY <1>3, <2>1 DEF NoMessages
<1>5. CASE DestroyNodes(h)
  <2>1. disconnected /\ chan' = "live"
    BY <1>1, <1>5 DEF DestroyNodes, LInv, Leaving
  <2>2. \A g \in Handles : Calls[g] = [op |-> "none"]
    <3>1. \A g \in Handles : ~Held(g)
      BY <1>1, HeldIsCounted, SideFacts DEF IInv, LastOnes
    <3>2. \A g \in Handles : pc[g] \in {"none"} \cup DropPCs
      BY <3>1 DEF Held
    <3> QED BY <1>0, <3>2 DEF CallTable, Calls
  <2>3. Abstract!Discard
    BY <1>1, <1>2, <1>4, <2>1, <2>2 DEF Abstract!Discard, Abstract!NoCall, Calls
  <2> QED BY <1>1, <2>1, <2>3, Operates DEF Abstract!Operation
<1>6. CASE DestroyFree(h)
  <2>1. AbstractItems = <<>>
    BY <1>3, <1>6 DEF NoMessages, InUse, DestroyFree, Goto
  <2>2. (chan' # "none") = (chan # "none")
    BY <1>6 DEF DestroyFree
  <2> QED BY <1>1, <1>2, <1>4, <2>1, <2>2, Stutters
<1> QED BY <1>5, <1>6

LEMMA CreateSimulates ==
  ASSUME IInv, LInv, LInv', Create
  PROVE  [Abstract!Next]_(Abstract!avars)
<1>0. TypeOK
  BY DEF LInv
<1>1. /\ chan = "none" /\ chan' = "live" /\ capacity' \in Capacities \cup {0}
      /\ UNCHANGED <<head, tail, next, data, heap, len, disconnected, mutex, node, msg, ret>>
  BY DEF Create, list, locals
<1>2. PICK tx \in Senders, rx \in Receivers : pc' = [pc EXCEPT ![tx] = "idle", ![rx] = "idle"]
  BY DEF Create
<1>3. \A g \in Handles : pc[g] = "none" /\ pc'[g] \in {"none", "idle"}
  <2>1. \A g \in Handles : pc[g] = "none"
    BY <1>1 DEF IInv, OnlyWhileLive
  <2> QED BY <1>0, <1>2, <2>1 DEF TypeOK
<1>4. Calls' = Calls
  BY <1>1, <1>3, LeavesCalls
<1>5. AbstractItems = <<>>
  BY <1>1 DEF AbstractItems
<1>6. AbstractItems' = <<>>
  <2>1. InUse'
    BY <1>1, <1>3 DEF InUse
  <2>2. PICK q : ListAlong(q)'
    BY <2>1 DEF LInv, OnList
  <2>3. len' = 0 /\ mutex' = NULL
    <3>1. len = 0
      BY <1>1 DEF LInv, Leaving
    <3>2. mutex = NULL
      BY <1>0, <1>3 DEF LInv, MutexHeld, TypeOK
    <3> QED BY <1>1, <3>1, <3>2
  <2>4. MessagesOn'
    BY ItemsAre, PTL
  <2> DEFINE f == [k \in 1 .. len' |-> data'[q[k]]]
  <2>5. AbstractItems' = f \o Accepted' /\ Accepted' = <<>>
    BY <1>1, <2>1, <2>2, <2>3, <2>4 DEF MessagesOn, Accepted
  <2>6. f \in [1 .. 0 -> Slots]
    BY <2>3
  <2> HIDE DEF f
  <2>7. f \in Seq(Slots) /\ Len(f) = 0 /\ f \o <<>> = f
    BY <2>6, Listed
  <2> QED BY <2>5, <2>7, EmptySeq
<1>7. Abstract!Open
  BY <1>1, <1>4, <1>5, <1>6 DEF Abstract!Open, Calls
<1> QED BY <1>7 DEF Abstract!Next

LEMMA CreateFailsSimulates ==
  ASSUME IInv, CreateFails PROVE [Abstract!Next]_(Abstract!avars)
<1>1. /\ chan = "none" /\ chan' = "freed" /\ capacity' \in Capacities \cup {0}
      /\ UNCHANGED <<disconnected, pc, data, node, msg, ret>>
  BY DEF CreateFails, list, locals
<1>2. Calls' = Calls
  BY <1>1, LeavesCalls
<1>3. AbstractItems = <<>> /\ AbstractItems' = <<>>
  BY <1>1 DEF AbstractItems
<1>4. Abstract!Open
  BY <1>1, <1>2, <1>3 DEF Abstract!Open, Calls
<1> QED BY <1>4 DEF Abstract!Next

\* Freed memory is used once the messages are gone.
LEMMA MisuseSimulates ==
  ASSUME IInv, LInv, LInv', NEW h \in Handles, UseAfterFree(h)
  PROVE  [Abstract!Next]_(Abstract!avars)
<1>1. /\ chan \in {"freed", "live"} /\ chan' = "corrupt"
      /\ UNCHANGED <<capacity, disconnected, pc, data, node, msg, ret>>
  BY DEF UseAfterFree, list, locals
<1>2. Calls' = Calls
  BY <1>1, LeavesCalls
<1>3. AbstractItems' = <<>>
  BY <1>1 DEF AbstractItems
<1>4. AbstractItems = <<>>
  <2>1. CASE chan = "freed"
    BY <2>1 DEF AbstractItems
  <2>2. CASE chan = "live"
    <3>1. ~(Queued \subseteq heap)
      BY <2>2 DEF UseAfterFree
    <3>2. ~InUse
      <4> SUFFICES ASSUME InUse PROVE FALSE
        OBVIOUS
      <4>1. PICK q : ListAlong(q)
        BY DEF LInv, OnList
      <4>2. chain = q
        BY <4>1, WalkIsChain DEF ChainIsTheWalk, ListAlong
      <4> QED BY <3>1, <4>1, <4>2 DEF ListAlong, Queued
    <3> QED BY <3>2, NoItems DEF NoMessages
  <2> QED BY <1>1, <2>1, <2>2
<1> QED BY <1>1, <1>2, <1>3, <1>4, Stutters

LEMMA StepSimulates ==
  IInv /\ LInv /\ LInv' /\ [Next]_vars => [Abstract!Next]_(Abstract!avars)
<1> SUFFICES ASSUME IInv, LInv, LInv', [Next]_vars
             PROVE  [Abstract!Next]_(Abstract!avars)
  OBVIOUS
<1>1. CASE Create BY <1>1, CreateSimulates
<1>2. ASSUME chan = "live", NEW h \in Handles, Begin(h) \/ Continue(h)
      PROVE  [Abstract!Next]_(Abstract!avars)
  <2>1. CASE (\E v \in Values : TrySend(h, v)) \/ TryRecv(h) \/ Return(h)
    BY <1>2, <2>1, BeginSimulates
  <2>2. CASE SendCheck(h) \/ Enqueue(h) \/ EnqueueAlloc(h)
    <3>1. CASE EnqueueAlloc(h) /\ heap' # heap BY <1>2, <3>1, AllocateSimulates
    <3>2. CASE SendCheck(h) \/ Enqueue(h) \/ (EnqueueAlloc(h) /\ UNCHANGED heap)
      BY <1>2, <3>2, SendSimulates
    <3>3. UNCHANGED heap \/ heap' # heap
      OBVIOUS
    <3> QED BY ONLY <2>2, <3>1, <3>2, <3>3
  <2>3. CASE EnqueueLock(h) BY <1>2, <2>3, LockSimulates
  <2>4. CASE EnqueueLink(h) BY <1>2, <2>4, LinkSimulates
  <2>5. CASE SendFailed(h) \/ RecvCheck(h) BY <1>2, <2>5, ExplainSimulates
  <2>6. CASE Dequeue(h) BY <1>2, <2>6, NothingSimulates, ReceiveSimulates
  <2>7. CASE DequeueFree(h) BY <1>2, <2>7, DequeueFreeSimulates
  <2>8. CASE Clone(h) \/ CloneAlloc(h) \/ Drop(h) \/ DropDisconnect(h) \/ DropCheck(h)
    BY <1>2, <2>8, HandlesSimulate
  <2>9. CASE DestroyNodes(h) \/ DestroyFree(h) BY <1>2, <2>9, DestroySimulates
  <2> QED BY <1>2, <2>1, <2>2, <2>3, <2>4, <2>5, <2>6, <2>7, <2>8, <2>9 DEF Begin, Continue
<1>3. CASE \E h \in Handles : UseAfterFree(h) BY <1>3, MisuseSimulates
<1>4. CASE UNCHANGED vars
  <2>1. UNCHANGED <<chan, capacity, disconnected>> /\ Calls' = Calls
    BY <1>4 DEF vars, Calls, AbstractCall
  <2>2. AbstractItems' = AbstractItems
    BY <1>4 DEF vars, AbstractItems, Accepted, chain
  <2> QED BY <2>1, <2>2, Stutters
<1>5. CASE CreateFails BY <1>5, CreateFailsSimulates
<1> QED BY <1>1, <1>2, <1>3, <1>4, <1>5 DEF Next, Over

LEMMA InitSimulates == Init => Abstract!Init
<1> SUFFICES ASSUME Init PROVE Abstract!Init
  OBVIOUS
<1>1. chan = "none" /\ capacity = 0 /\ disconnected = FALSE /\ AbstractItems = <<>>
  BY DEF Init, AbstractItems
<1>2. \A h \in Handles : AbstractCall(h) = [op |-> "none"]
  BY CallsAre DEF Init, CallTable
<1> QED BY <1>1, <1>2 DEF Abstract!Init, Abstract!NoCall

\* The channel implements its abstract specification: every accepted message comes out
\* once and in order, none is accepted after the channel was closed or beyond its
\* capacity, and a call that fails has found the reason to, with any number of handles.
THEOREM ChannelIsLinearizable == Spec => ImplementsAbstractChannel
<1>1. Init => Abstract!Init
  BY InitSimulates
<1>2. IInv /\ LInv /\ LInv' /\ [Next]_vars => [Abstract!Next]_(Abstract!avars)
  BY StepSimulates
<1> QED BY <1>1, <1>2, Invariant, ListInvariant, PTL DEF Spec, ImplementsAbstractChannel, Abstract!Spec
=============================================================================
