---------------------------- MODULE WsQueueProofs ----------------------------
(***************************************************************************)
(* Proofs about WsQueue for any number of thieves, any items and any       *)
(* initial capacity; last, that it implements WorkStealingDeque under the  *)
(* mapping of MCWsQueue.                                                   *)
(***************************************************************************)
EXTENDS MCWsQueue, SequenceTheorems, TLAPS

USE ThreadsAssumption, NullAssumption, CapacityAssumption, GarbageAssumption

-----------------------------------------------------------------------------
(* The inductive invariant.                                                *)

Arrays ==
  {a \in [capacity : Nat \ {0}, S : UNION {[0 .. c - 1 -> Items \cup {NULL}] : c \in Nat}] :
     DOMAIN a.S = 0 .. a.capacity - 1}

Memories == [bottom : Int, arrays : Seq(Arrays)]

\* TypeOK, with the sets TLC cannot enumerate.
Types == memory \in Seq(Memories) /\ TypeOK

Views == 1 .. Len(memory)

\* The owner replaces an array, never takes one back.
ArraysGrow == \A j, k \in Views : j <= k => array(memory[j]) <= array(memory[k])

\* The bottoms a thief will see only grow, save the one a pop is about to fence.
BottomsGrow ==
  \A j, k \in Views :
    j <= k /\ ~(k = Len(memory) /\ pc[Owner] = "pop") => memory[j].bottom <= memory[k].bottom

\* A thief that found an item below the bottom and whose exchange would succeed now.
Decided(t) == pc[t] \in {"steal_array", "steal_slot", "steal_cas"} /\ t_[t] = top

BottomsNearTop ==
  \A k \in Views :
    /\ top - 1 <= memory[k].bottom /\ memory[k].bottom <= Bottom
    /\ \A t \in Thieves : Decided(t) => top <= memory[k].bottom

Window == top <= Bottom /\ Bottom - top <= Own.arrays[array(Own)].capacity

\* What the owner knows in the middle of a call.
OwnerInv ==
  /\ pc[Owner] \in {"full", "resized", "put", "publish", "pop", "pop_top", "pop_last"} => arr[Owner] = array(Own)
  /\ pc[Owner] \in {"full", "resized", "put", "publish", "pop", "pop_top", "pop_last", "restore"} =>
       b_[Owner] = Own.bottom
  /\ pc[Owner] \in {"full", "resized", "put", "publish"} => t_[Owner] <= top
  /\ pc[Owner] \in {"full", "resized"} => b_[Owner] - t_[Owner] <= Own.arrays[array(Own)].capacity
  /\ pc[Owner] \in {"put", "publish"} => b_[Owner] - t_[Owner] < Own.arrays[array(Own)].capacity
  /\ pc[Owner] \in {"push", "full", "resized", "put", "publish"} => item[Owner] \in pushed
  /\ pc[Owner] = "publish" => Slot(Own, array(Own), b_[Owner]) = item[Owner]
  /\ pc[Owner] \in {"pop_top", "pop_last", "restore"} => AllVisible
  /\ pc[Owner] = "pop_last" => /\ t_[Owner] = b_[Owner] /\ t_[Owner] <= top
                               /\ item[Owner] = Slot(Own, array(Own), b_[Owner])

\* From view h on, whichever array a thief takes for the current one serves index i.
Serves(h, i) ==
  \A j, k \in h .. Len(memory) :
    j <= k => Slot(memory[k], array(memory[j]), i) = Slot(Own, array(Own), i)

\* What a thief will find below the bottom it sees.
ViewsServe == \A h \in Views : \A i \in top .. memory[h].bottom - 1 : Serves(h, i)

ItemsArePushed == \A i \in top .. Bottom - 1 : Slot(Own, array(Own), i) \in pushed

ThiefInv(t) ==
  /\ pc[t] \in {"steal_bottom", "steal_array", "steal_slot", "steal_cas"} => t_[t] <= top
  /\ pc[t] \in {"idle", "steal", "steal_bottom"} => item[t] = NULL
  /\ pc[t] = "steal_slot" => arr[t] <= array(Visible)
  /\ Decided(t) => top < Bottom
  /\ Decided(t) /\ pc[t] = "steal_array" => Serves(1, top)
  /\ Decided(t) /\ pc[t] = "steal_slot" =>
       \A k \in Views : Slot(memory[k], arr[t], top) = Slot(Own, array(Own), top)
  /\ Decided(t) /\ pc[t] = "steal_cas" => item[t] = Slot(Own, array(Own), top)

IInv ==
  /\ Types
  /\ ArraysGrow /\ BottomsGrow /\ BottomsNearTop /\ Window
  /\ OwnerInv /\ ViewsServe /\ ItemsArePushed
  /\ \A t \in Thieves : ThiefInv(t)

-----------------------------------------------------------------------------
(* Slots.                                                                  *)

\* Two indices less than c apart do not share a slot.
LEMMA SlotsApart ==
  ASSUME NEW c \in Nat \ {0}, NEW i \in Nat, NEW j \in Nat, i # j, i - j < c, j - i < c
  PROVE  i % c # j % c
<1>1. i = c * (i \div c) + (i % c) /\ j = c * (j \div c) + (j % c)
  OBVIOUS
<1>2. SUFFICES ASSUME i % c = j % c PROVE FALSE
  OBVIOUS
<1> DEFINE d == j \div c - i \div c
<1>3. j - i = c * d /\ d \in Int
  <2>1. i \div c \in Int /\ j \div c \in Int
    OBVIOUS
  <2> QED BY <1>1, <1>2, <2>1
<1> HIDE DEF d
<1>4. d # 0
  BY <1>3
<1>5. CASE d <= -1
  <2>1. c * d <= -c
    BY <1>3, <1>5
  <2> QED BY <1>3, <2>1
<1>6. CASE d >= 1
  <2>1. c * d >= c
    BY <1>3, <1>6
  <2> QED BY <1>3, <2>1
<1> QED BY <1>3, <1>4, <1>5, <1>6

LEMMA SlotInArray ==
  ASSUME NEW c \in Nat \ {0}, NEW i \in Int
  PROVE  i % c \in 0 .. c - 1
  OBVIOUS

LEMMA ArrayFacts ==
  ASSUME NEW a \in Arrays
  PROVE  /\ a.capacity \in Nat \ {0}
         /\ a.S \in [0 .. a.capacity - 1 -> Items \cup {NULL}]
         /\ a = [capacity |-> a.capacity, S |-> a.S]
<1>1. PICK c \in Nat : a.S \in [0 .. c - 1 -> Items \cup {NULL}]
  BY DEF Arrays
<1>2. DOMAIN a.S = 0 .. a.capacity - 1
  BY DEF Arrays
<1>3. \A j \in DOMAIN a.S : a.S[j] \in Items \cup {NULL}
  BY <1>1
<1>4. a.S = [j \in DOMAIN a.S |-> a.S[j]]
  BY <1>1
<1> QED BY <1>2, <1>3, <1>4 DEF Arrays

LEMMA IsAnArray ==
  ASSUME NEW c \in Nat \ {0}, NEW S \in [0 .. c - 1 -> Items \cup {NULL}]
  PROVE  [capacity |-> c, S |-> S] \in Arrays
  BY DEF Arrays

LEMMA SlotTyped ==
  ASSUME NEW m \in Memories, NEW a \in 1 .. array(m), NEW i \in Int
  PROVE  /\ m.arrays[a] \in Arrays
         /\ Slot(m, a, i) \in Items \cup {NULL}
<1>1. m.arrays[a] \in Arrays
  BY DEF Memories, array
<1>2. i % m.arrays[a].capacity \in 0 .. m.arrays[a].capacity - 1
  BY <1>1, ArrayFacts, SlotInArray
<1> QED BY <1>1, <1>2, ArrayFacts DEF Slot

\* EXCEPT on the records and the sequence, one level at a time.
LEMMA StoreIntoArray ==
  ASSUME NEW a, a = [capacity |-> a.capacity, S |-> a.S], NEW k, NEW x
  PROVE  [a EXCEPT !.S[k] = x] = [capacity |-> a.capacity, S |-> [a.S EXCEPT ![k] = x]]
  OBVIOUS

LEMMA StoreIntoArrays ==
  ASSUME NEW T, NEW R \in Seq(T), NEW a \in DOMAIN R, NEW k, NEW x
  PROVE  [R EXCEPT ![a].S[k] = x] = [R EXCEPT ![a] = [R[a] EXCEPT !.S[k] = x]]
  OBVIOUS

LEMMA StoreIntoMemory ==
  ASSUME NEW m, m = [bottom |-> m.bottom, arrays |-> m.arrays], NEW a \in DOMAIN m.arrays,
         NEW k, NEW x
  PROVE  [m EXCEPT !.arrays[a].S[k] = x] =
           [bottom |-> m.bottom, arrays |-> [m.arrays EXCEPT ![a].S[k] = x]]
  OBVIOUS

LEMMA AddArray ==
  ASSUME NEW m, m = [bottom |-> m.bottom, arrays |-> m.arrays], NEW new
  PROVE  [m EXCEPT !.arrays = Append(@, new)] =
           [bottom |-> m.bottom, arrays |-> Append(m.arrays, new)]
  OBVIOUS

\* What a store to a slot leaves.
LEMMA SlotOfStore ==
  ASSUME NEW m \in Memories, NEW a \in 1 .. array(m), NEW i \in Int, NEW x \in Items \cup {NULL},
         NEW n, n = StoreSlot(m, a, i, x)
  PROVE  /\ n \in Memories /\ n.bottom = m.bottom /\ array(n) = array(m)
         /\ \A d \in 1 .. array(m) : n.arrays[d].capacity = m.arrays[d].capacity
         /\ \A d \in 1 .. array(m), j \in Int : d # a => Slot(n, d, j) = Slot(m, d, j)
         /\ Slot(n, a, i) = x
         /\ \A j \in Int :
              j % m.arrays[a].capacity # i % m.arrays[a].capacity => Slot(n, a, j) = Slot(m, a, j)
<1> DEFINE c == m.arrays[a].capacity
           new == [m.arrays[a] EXCEPT !.S[i % c] = x]
<1>1. /\ m = [bottom |-> m.bottom, arrays |-> m.arrays]
      /\ m.bottom \in Int /\ m.arrays \in Seq(Arrays) /\ a \in DOMAIN m.arrays
      /\ m.arrays[a] \in Arrays
  BY DEF Memories, array
<1>2. /\ c \in Nat \ {0} /\ m.arrays[a].S \in [0 .. c - 1 -> Items \cup {NULL}]
      /\ m.arrays[a] = [capacity |-> c, S |-> m.arrays[a].S]
  BY <1>1, ArrayFacts
<1>3. \A j \in Int : j % c \in 0 .. c - 1
  BY <1>2, SlotInArray
<1>4. /\ n = [bottom |-> m.bottom, arrays |-> [m.arrays EXCEPT ![a] = new]]
      /\ new = [capacity |-> c, S |-> [m.arrays[a].S EXCEPT ![i % c] = x]]
  <2>0. m = [bottom |-> m.bottom, arrays |-> m.arrays] /\ a \in DOMAIN m.arrays
    BY <1>1
  <2>1. n = [bottom |-> m.bottom, arrays |-> [m.arrays EXCEPT ![a].S[i % c] = x]]
    <3> DEFINE k == i % c
    <3>1. n = [m EXCEPT !.arrays[a].S[k] = x]
      BY DEF StoreSlot
    <3> HIDE DEF k
    <3>2. n = [bottom |-> m.bottom, arrays |-> [m.arrays EXCEPT ![a].S[k] = x]]
      BY ONLY <3>1, <2>0, StoreIntoMemory
    <3> QED BY <3>2 DEF k
  <2>2. [m.arrays EXCEPT ![a].S[i % c] = x] = [m.arrays EXCEPT ![a] = new]
    BY <1>1, StoreIntoArrays
  <2>3. new = [capacity |-> c, S |-> [m.arrays[a].S EXCEPT ![i % c] = x]]
    <3> DEFINE old == m.arrays[a]
               k == i % c
    <3>1. old = [capacity |-> old.capacity, S |-> old.S] /\ c = old.capacity
      BY <1>2
    <3> HIDE DEF old, k, c
    <3>2. [old EXCEPT !.S[k] = x] = [capacity |-> c, S |-> [old.S EXCEPT ![k] = x]]
      BY ONLY <3>1, StoreIntoArray
    <3> QED BY <3>2 DEF old, k
  <2> QED BY <2>1, <2>2, <2>3
<1>5. new \in Arrays
  <2>1. [m.arrays[a].S EXCEPT ![i % c] = x] \in [0 .. c - 1 -> Items \cup {NULL}]
    BY <1>2, <1>3
  <2> HIDE DEF new
  <2> QED BY <1>2, <1>4, <2>1, IsAnArray
<1>6. n \in Memories /\ n.bottom = m.bottom /\ n.arrays = [m.arrays EXCEPT ![a] = new]
  BY <1>1, <1>4, <1>5 DEF Memories
<1>7. array(n) = array(m) /\ n.arrays[a] = new /\ \A d \in 1 .. array(m) : d # a => n.arrays[d] = m.arrays[d]
  BY <1>1, <1>6 DEF array
<1>8. new.capacity = c /\ new.S = [m.arrays[a].S EXCEPT ![i % c] = x]
  BY <1>4
<1> HIDE DEF new
<1>9. \A d \in 1 .. array(m) : n.arrays[d].capacity = m.arrays[d].capacity
  BY <1>7, <1>8
<1>10. \A d \in 1 .. array(m), j \in Int : d # a => Slot(n, d, j) = Slot(m, d, j)
  BY <1>7 DEF Slot
<1>11. \A j \in Int : Slot(n, a, j) = new.S[j % c]
  BY <1>7, <1>8 DEF Slot
<1>12. Slot(n, a, i) = x /\ \A j \in Int : j % c # i % c => Slot(n, a, j) = Slot(m, a, j)
  BY <1>2, <1>3, <1>8, <1>11 DEF Slot
<1> QED BY <1>6, <1>7, <1>9, <1>10, <1>12

\* What growing leaves: the items t .. b - 1 are in the new array as well.
Grown(m, b, t) == [m EXCEPT !.arrays = Append(@, Resize(@[array(m)], b, t))]

LEMMA SlotOfGrown ==
  ASSUME NEW m \in Memories, array(m) >= 1, NEW b \in Int, NEW t \in Nat,
         b - t <= m.arrays[array(m)].capacity, NEW n, n = Grown(m, b, t)
  PROVE  /\ n \in Memories /\ n.bottom = m.bottom /\ array(n) = array(m) + 1
         /\ n.arrays[array(n)].capacity = 2 * m.arrays[array(m)].capacity
         /\ \A d \in 1 .. array(m), j \in Int : Slot(n, d, j) = Slot(m, d, j)
         /\ \A j \in t .. b - 1 : Slot(n, array(n), j) = Slot(m, array(m), j)
<1> DEFINE a == array(m)
           c == m.arrays[a].capacity
           old == m.arrays[a]
           new == Resize(old, b, t)
<1>1. /\ m = [bottom |-> m.bottom, arrays |-> m.arrays]
      /\ m.bottom \in Int /\ m.arrays \in Seq(Arrays) /\ a \in Nat /\ a \in DOMAIN m.arrays
      /\ old \in Arrays
  BY DEF Memories, array
<1>2. c \in Nat \ {0} /\ 2 * c \in Nat \ {0} /\ old.S \in [0 .. c - 1 -> Items \cup {NULL}]
  <2>1. PICK o \in Arrays : o = old
    BY <1>1
  <2>2. o.capacity \in Nat \ {0} /\ o.S \in [0 .. o.capacity - 1 -> Items \cup {NULL}]
    BY ArrayFacts
  <2> QED BY <2>1, <2>2
<1>3. \A j \in Int : j % c \in 0 .. c - 1 /\ j % (2 * c) \in 0 .. 2 * c - 1
  BY <1>2, SlotInArray
<1> DEFINE Here(j) == {i \in t .. b - 1 : i % (2 * c) = j}
           The(j) == CHOOSE i \in Here(j) : TRUE
           copy == [j \in 0 .. 2 * c - 1 |-> IF Here(j) = {} THEN NULL ELSE old.S[The(j) % c]]
<1>4. new = [capacity |-> 2 * c, S |-> copy]
  BY DEF Resize
<1>5. copy \in [0 .. 2 * c - 1 -> Items \cup {NULL}]
  <2>1. \A j \in 0 .. 2 * c - 1 : Here(j) # {} => The(j) \in Int
    OBVIOUS
  <2>2. \A j \in 0 .. 2 * c - 1 : Here(j) # {} => The(j) % c \in 0 .. c - 1
    BY <1>3, <2>1
  <2> HIDE DEF Here, The
  <2> QED BY <1>2, <2>2
<1>6. \A j \in t .. b - 1 : copy[j % (2 * c)] = old.S[j % c]
  <2>1. SUFFICES ASSUME NEW j \in t .. b - 1 PROVE copy[j % (2 * c)] = old.S[j % c]
    OBVIOUS
  <2> DEFINE i == The(j % (2 * c))
  <2>2. j % (2 * c) \in 0 .. 2 * c - 1 /\ j \in Here(j % (2 * c))
    BY <1>3
  <2>3. i \in t .. b - 1 /\ i % (2 * c) = j % (2 * c)
    <3>1. i \in Here(j % (2 * c))
      BY <2>2
    <3> QED BY <3>1
  <2>4. i = j
    <3> HIDE DEF i
    <3>1. c \in Nat \ {0} /\ 2 * c \in Nat \ {0} /\ b - t <= c
      BY <1>2
    <3> HIDE DEF c
    <3>2. i \in Nat /\ j \in Nat /\ i - j < 2 * c /\ j - i < 2 * c
      BY <2>3, <3>1
    <3> QED BY <2>3, <3>1, <3>2, SlotsApart
  <2> HIDE DEF Here, The
  <2> QED BY <2>2, <2>4
<1>7. new \in Arrays
  BY <1>2, <1>4, <1>5, IsAnArray
<1> HIDE DEF new, copy
<1>8. new.capacity = 2 * c /\ new.S = copy
  BY <1>4
<1>9. n = [bottom |-> m.bottom, arrays |-> Append(m.arrays, new)]
  BY <1>1, AddArray DEF Grown, new
<1>10. n \in Memories /\ n.bottom = m.bottom /\ n.arrays = Append(m.arrays, new)
  BY <1>1, <1>7, <1>9 DEF Memories
<1>11. /\ array(n) = a + 1 /\ n.arrays[a + 1] = new
       /\ \A d \in 1 .. a : n.arrays[d] = m.arrays[d]
  BY <1>1, <1>7, <1>10 DEF array
<1>12. \A d \in 1 .. a, j \in Int : Slot(n, d, j) = Slot(m, d, j)
  BY <1>11 DEF Slot
<1>13. \A j \in t .. b - 1 : Slot(n, a + 1, j) = Slot(m, a, j)
  BY <1>6, <1>8, <1>11 DEF Slot
<1> QED BY <1>8, <1>10, <1>11, <1>12, <1>13

-----------------------------------------------------------------------------
(* The memories.                                                           *)

LEMMA MemoryFacts ==
  ASSUME Types
  PROVE  /\ Len(memory) \in Nat \ {0}
         /\ \A k \in Views : /\ memory[k] \in Memories /\ memory[k].bottom \in Int
                             /\ array(memory[k]) \in Nat \ {0}
         /\ Visible = memory[1] /\ Own = memory[Len(memory)]
         /\ 1 \in Views /\ Len(memory) \in Views
         /\ Own \in Memories /\ array(Own) \in 1 .. array(Own)
         /\ Own.bottom \in Int /\ Own.arrays[array(Own)].capacity \in Nat \ {0}
<1>1. memory \in Seq(Memories) /\ memory # <<>>
  BY DEF Types, TypeOK
<1>2. Len(memory) \in Nat \ {0} /\ DOMAIN memory = Views
  BY <1>1 DEF Views
<1>3. ASSUME NEW k \in Views
      PROVE  /\ memory[k] \in Memories /\ memory[k].bottom \in Int
             /\ array(memory[k]) \in Nat \ {0}
  <2>1. memory[k] \in Memories
    BY <1>1, <1>2 DEF Views
  <2>2. memory[k].arrays \in Seq(Arrays) /\ memory[k].arrays # <<>> /\ memory[k].bottom \in Int
    BY <1>2, <2>1 DEF Types, TypeOK, Memories
  <2>3. Len(memory[k].arrays) \in Nat \ {0}
    BY <2>2, EmptySeq, LenProperties
  <2> QED BY <2>1, <2>2, <2>3 DEF array
<1>4. 1 \in Views /\ Len(memory) \in Views
  BY <1>2 DEF Views
<1>5. Own \in Memories /\ array(Own) \in Nat \ {0} /\ Own.bottom \in Int
  BY <1>3, <1>4 DEF Own
<1>6. Own.arrays[array(Own)].capacity \in Nat \ {0}
  BY <1>5, SlotTyped, ArrayFacts
<1> QED BY <1>2, <1>3, <1>4, <1>5, <1>6 DEF Visible, Own

LEMMA BottomIsInt == ASSUME Types PROVE Bottom \in Int
<1>1. b_[Owner] \in Int /\ Own.bottom \in Int
  BY MemoryFacts DEF Types, TypeOK, Threads
<1> QED BY <1>1 DEF Bottom

MemoryTyped ==
  /\ memory \in Seq(Memories) /\ memory # <<>>
  /\ \A k \in DOMAIN memory :
       /\ memory[k].bottom \in Int
       /\ memory[k].arrays # <<>>
       /\ \A a \in DOMAIN memory[k].arrays : IsArray(memory[k].arrays[a])

\* A store of the owner.
LEMMA Stored ==
  ASSUME Types, NEW m \in Memories, array(m) >= 1, Store(m)
  PROVE  /\ MemoryTyped'
         /\ Len(memory') = Len(memory) + 1
         /\ \A k \in Views : memory'[k] = memory[k]
         /\ Own' = m /\ memory'[Len(memory) + 1] = m /\ Visible' = Visible
<1>1. memory \in Seq(Memories) /\ Len(memory) \in Nat \ {0} /\ memory' = Append(memory, m)
  BY MemoryFacts DEF Types, Store
<1>2. /\ memory' \in Seq(Memories) /\ Len(memory') = Len(memory) + 1
      /\ \A k \in Views : memory'[k] = memory[k]
      /\ memory'[Len(memory) + 1] = m
  BY <1>1 DEF Views
<1>3. /\ m.bottom \in Int
      /\ m.arrays # <<>>
      /\ \A a \in DOMAIN m.arrays : IsArray(m.arrays[a])
  <2>1. m.arrays \in Seq(Arrays) /\ m.bottom \in Int /\ Len(m.arrays) # 0
    BY DEF Memories, array
  <2>2. \A a \in DOMAIN m.arrays : IsArray(m.arrays[a])
    BY <2>1, ArrayFacts DEF IsArray
  <2> QED BY <2>1, <2>2
<1>4. ASSUME NEW k \in DOMAIN memory'
      PROVE  /\ memory'[k].bottom \in Int
             /\ memory'[k].arrays # <<>>
             /\ \A a \in DOMAIN memory'[k].arrays : IsArray(memory'[k].arrays[a])
  <2>1. k \in Views \/ k = Len(memory) + 1
    BY <1>1, <1>2 DEF Views
  <2>2. CASE k \in Views
    <3>1. k \in DOMAIN memory /\ memory'[k] = memory[k]
      BY <1>1, <1>2, <2>2 DEF Views
    <3> QED BY <3>1 DEF Types, TypeOK
  <2> QED BY <1>2, <1>3, <2>1, <2>2
<1>5. memory' # <<>> /\ Own' = m /\ Visible' = Visible
  BY <1>1, <1>2 DEF Own, Visible, Views
<1> QED BY <1>2, <1>4, <1>5 DEF MemoryTyped

\* The oldest store becomes visible.
LEMMA Flushed ==
  ASSUME Types, Flush
  PROVE  /\ MemoryTyped' /\ Len(memory) >= 2 /\ Len(memory') = Len(memory) - 1
         /\ \A k \in Views' : memory'[k] = memory[k + 1] /\ k + 1 \in Views
         /\ Own' = Own /\ Visible' = memory[2]
<1>1. /\ memory \in Seq(Memories) /\ Len(memory) \in Nat \ {0} /\ Len(memory) # 1
      /\ memory' = Tail(memory)
  BY MemoryFacts DEF Types, Flush, AllVisible
<1>2. /\ memory' \in Seq(Memories) /\ Len(memory') = Len(memory) - 1
      /\ \A k \in 1 .. Len(memory) - 1 : memory'[k] = memory[k + 1]
  BY <1>1
<1>3. Views' = 1 .. Len(memory) - 1 /\ DOMAIN memory' = 1 .. Len(memory) - 1
  BY <1>1, <1>2 DEF Views
<1>4. \A k \in Views' : memory'[k] = memory[k + 1] /\ k + 1 \in Views
  BY <1>1, <1>2, <1>3 DEF Views
<1>5. memory' # <<>> /\ Own' = Own /\ Visible' = memory[2] /\ Len(memory) >= 2
  <2>1. Len(memory) >= 2
    <3>1. \A n \in Nat \ {0} : n # 1 => n >= 2
      OBVIOUS
    <3> QED BY ONLY <1>1, <3>1
  <2>2. Len(memory') # 0 /\ Len(memory') \in 1 .. Len(memory) - 1 /\ 1 \in 1 .. Len(memory) - 1
    BY <1>2, <2>1
  <2>3. memory'[Len(memory')] = memory[Len(memory)] /\ memory'[1] = memory[2]
    BY <1>1, <1>2, <2>2
  <2> QED BY <2>1, <2>2, <2>3 DEF Own, Visible
<1>6. \A k \in DOMAIN memory' :
        /\ memory'[k].bottom \in Int
        /\ memory'[k].arrays # <<>>
        /\ \A a \in DOMAIN memory'[k].arrays : IsArray(memory'[k].arrays[a])
  <2>1. Views \subseteq DOMAIN memory /\ Views' = DOMAIN memory'
    BY <1>1, <1>3 DEF Views
  <2>2. \A k \in DOMAIN memory' : memory'[k] = memory[k + 1] /\ k + 1 \in DOMAIN memory
    BY <1>4, <2>1
  <2> QED BY <2>2 DEF Types, TypeOK
<1> QED BY <1>1, <1>2, <1>4, <1>5, <1>6 DEF MemoryTyped

-----------------------------------------------------------------------------
(* What a step that leaves the queue alone preserves.                      *)

\* The step neither adds nor takes an item.
SameItems ==
  /\ top' = top /\ Bottom' = Bottom
  /\ \A i \in top .. Bottom - 1 : Slot(Own', array(Own'), i) = Slot(Own, array(Own), i)

\* The conjuncts that speak of the queue and of where the calls are.
QueueInv ==
  /\ ArraysGrow /\ BottomsGrow /\ BottomsNearTop /\ Window /\ ViewsServe /\ ItemsArePushed

LEMMA QueueFrame ==
  ASSUME IInv, UNCHANGED shared, pushed \subseteq pushed', Bottom' = Bottom,
         \A t \in Thieves :
           Decided(t)' => Decided(t) \/ \A k \in Views : top <= memory[k].bottom,
         pc'[Owner] = "pop" \/ pc[Owner] # "pop" \/ AllVisible
  PROVE  QueueInv'
<1>1. memory' = memory /\ top' = top /\ Own' = Own /\ Views' = Views
  BY DEF shared, Own, Views
<1>2. ArraysGrow'
  BY <1>1 DEF IInv, ArraysGrow
<1>3. BottomsGrow'
  <2>1. CASE pc'[Owner] = "pop" \/ pc[Owner] # "pop"
    BY <1>1, <2>1 DEF IInv, BottomsGrow
  <2>2. CASE AllVisible
    <3>1. \A j, k \in Views : j = 1 /\ k = 1 /\ memory[k].bottom \in Int
      BY <2>2, MemoryFacts DEF IInv, AllVisible, Views
    <3>2. \A j, k \in Views : memory[j].bottom <= memory[k].bottom
      BY <3>1
    <3> QED BY <1>1, <3>2 DEF BottomsGrow
  <2> QED BY <2>1, <2>2
<1>4. BottomsNearTop'
  BY <1>1 DEF IInv, BottomsNearTop
<1>5. Window' /\ ViewsServe' /\ ItemsArePushed'
  BY <1>1 DEF IInv, Window, ViewsServe, Serves, ItemsArePushed
<1> QED BY <1>2, <1>3, <1>4, <1>5 DEF QueueInv

LEMMA ThiefFrame ==
  ASSUME IInv, NEW t \in Thieves, UNCHANGED shared, Bottom' = Bottom,
         pc'[t] = pc[t], t_'[t] = t_[t], arr'[t] = arr[t], item'[t] = item[t]
  PROVE  ThiefInv(t)' /\ (Decided(t)' => Decided(t))
<1>1. memory' = memory /\ top' = top /\ Own' = Own /\ Views' = Views /\ Visible' = Visible
  BY DEF shared, Own, Views, Visible
<1>2. ThiefInv(t)
  BY DEF IInv
<1> QED BY <1>1, <1>2 DEF ThiefInv, Decided, Serves

LEMMA OwnerFrame ==
  ASSUME IInv, memory' = memory, top' \in Nat, top <= top', pushed' = pushed,
         pc'[Owner] = pc[Owner], t_'[Owner] = t_[Owner], b_'[Owner] = b_[Owner],
         arr'[Owner] = arr[Owner], item'[Owner] = item[Owner]
  PROVE  OwnerInv' /\ Bottom' = Bottom
<1>1. Own' = Own /\ AllVisible' = AllVisible
  BY DEF Own, AllVisible
<1>2. Bottom' = Bottom
  BY <1>1 DEF Bottom, Undecided
<1>3. OwnerInv
  BY DEF IInv
<1>4. top \in Nat /\ t_[Owner] \in Nat
  BY DEF IInv, Types, TypeOK, Threads
<1>5. t_[Owner] <= top => t_[Owner] <= top'
  BY <1>4
<1> QED BY <1>1, <1>2, <1>3, <1>5 DEF OwnerInv

\* What a thief knows that sees the bottom above the top.
LEMMA SeenBelowBottom ==
  ASSUME IInv, top < Visible.bottom
  PROVE  /\ \A k \in Views : top <= memory[k].bottom
         /\ top < Bottom /\ Serves(1, top)
<1>1. /\ top \in Nat /\ Bottom \in Int /\ 1 \in Views /\ Visible = memory[1]
      /\ \A k \in Views : memory[k].bottom \in Int
  BY MemoryFacts, BottomIsInt DEF IInv, Types, TypeOK
<1>2. \A k \in Views : 1 <= k
  BY DEF Views
<1>3. top < Bottom
  BY <1>1 DEF IInv, BottomsNearTop
<1>4. ASSUME NEW k \in Views PROVE top <= memory[k].bottom
  <2>1. CASE k = Len(memory) /\ pc[Owner] = "pop"
    <3>1. memory[k].bottom = Own.bottom /\ b_[Owner] = Own.bottom /\ Bottom = b_[Owner] + 1
      BY <2>1 DEF IInv, OwnerInv, Bottom, Undecided, Own
    <3> QED BY <1>1, <1>3, <3>1
  <2>2. CASE ~(k = Len(memory) /\ pc[Owner] = "pop")
    <3>1. memory[1].bottom <= memory[k].bottom
      BY <1>1, <1>2, <2>2 DEF IInv, BottomsGrow
    <3> QED BY <1>1, <3>1
  <2> QED BY <2>1, <2>2
<1>5. Serves(1, top)
  BY <1>1 DEF IInv, ViewsServe
<1> QED BY <1>3, <1>4, <1>5

\* A thief's steps, the exchange aside.
LEMMA ThiefLoads ==
  ASSUME IInv, NEW t \in Thieves,
         Steal(t) \/ StealLoadTop(t) \/ StealLoadBottom(t) \/ StealLoadArray(t) \/ StealLoadSlot(t)
  PROVE  IInv' /\ SameItems
<1>1. /\ UNCHANGED shared /\ memory' = memory /\ top' = top /\ pushed' = pushed
      /\ \A u \in Threads \ {t} : /\ pc'[u] = pc[u] /\ t_'[u] = t_[u] /\ b_'[u] = b_[u]
                                  /\ arr'[u] = arr[u] /\ item'[u] = item[u]
      /\ Owner \in Threads \ {t} /\ \A u \in Thieves \ {t} : u \in Threads \ {t}
      /\ t \in Threads
  <2>1. TypeOK
    BY DEF IInv, Types
  <2>2. /\ Owner \in Threads \ {t} /\ t \in Threads
        /\ \A u \in Thieves \ {t} : u \in Threads \ {t}
    BY DEF Threads
  <2>3. UNCHANGED shared /\ memory' = memory /\ top' = top /\ pushed' = pushed
    BY DEF shared, Steal, StealLoadTop, StealLoadBottom, StealLoadArray, StealLoadSlot
  <2>4. \A u \in Threads \ {t} : /\ pc'[u] = pc[u] /\ t_'[u] = t_[u] /\ b_'[u] = b_[u]
                              /\ arr'[u] = arr[u] /\ item'[u] = item[u]
    <3>1. CASE Steal(t)
      BY <2>1, <3>1 DEF Steal, Goto, locals, TypeOK
    <3>2. CASE StealLoadTop(t)
      BY <2>1, <3>2 DEF StealLoadTop, Goto, TypeOK
    <3>3. CASE StealLoadBottom(t)
      BY <2>1, <3>3 DEF StealLoadBottom, Goto, locals, TypeOK
    <3>4. CASE StealLoadArray(t)
      BY <2>1, <3>4 DEF StealLoadArray, Goto, TypeOK
    <3>5. CASE StealLoadSlot(t)
      BY <2>1, <3>5 DEF StealLoadSlot, Goto, TypeOK
    <3> QED BY <3>1, <3>2, <3>3, <3>4, <3>5
  <2> QED BY <2>2, <2>3, <2>4
<1>2. /\ top \in Nat /\ ThiefInv(t) /\ Types /\ TypeOK /\ 1 \in Views /\ Visible = memory[1]
      /\ memory[1].bottom \in Int /\ t_[t] \in Nat
      /\ \A k \in Views : /\ memory[k] \in Memories /\ array(memory[k]) \in Nat \ {0}
                          /\ array(Visible) <= array(memory[k]) /\ array(Visible) <= array(Own)
      /\ memory \in Seq(Memories)
  <2>1. /\ Types /\ TypeOK /\ ThiefInv(t) /\ memory \in Seq(Memories) /\ top \in Nat
        /\ ArraysGrow /\ t_[t] \in Nat
    BY <1>1 DEF IInv, Types, TypeOK
  <2>2. \A k \in Views : 1 <= k
    BY DEF Views
  <2> QED BY <2>1, <2>2, MemoryFacts DEF ArraysGrow
<1>3. OwnerInv' /\ Bottom' = Bottom
  BY <1>1, <1>2, OwnerFrame
<1>4. \A u \in Thieves \ {t} : ThiefInv(u)' /\ (Decided(u)' => Decided(u))
  BY <1>1, <1>3, ThiefFrame
<1>5. Own' = Own /\ Visible' = Visible /\ Views' = Views
  BY <1>1 DEF Own, Visible, Views
<1>6. /\ Types' /\ ThiefInv(t)'
      /\ Decided(t)' => Decided(t) \/ \A k \in Views : top <= memory[k].bottom
  <2>1. CASE Steal(t)
    <3>1. pc' = [pc EXCEPT ![t] = "steal"] /\ pc[t] = "idle" /\ UNCHANGED locals
      BY <2>1 DEF Steal, Goto
    <3>2. Types'
      BY <1>1, <1>2, <1>5, <3>1 DEF Types, TypeOK, locals
    <3>3. pc'[t] = "steal"
      BY <1>1, <1>2, <3>1 DEF TypeOK
    <3> QED BY <1>2, <3>1, <3>2, <3>3 DEF ThiefInv, Decided, locals
  <2>2. CASE StealLoadTop(t)
    <3>1. /\ pc' = [pc EXCEPT ![t] = "steal_bottom"] /\ pc[t] = "steal"
          /\ t_' = [t_ EXCEPT ![t] = top] /\ UNCHANGED <<b_, arr, item>>
      BY <2>2 DEF StealLoadTop, Goto
    <3>2. Types'
      <4>1. t_' \in [Threads -> Nat]
        BY <1>1, <1>2, <3>1 DEF TypeOK
      <4> QED BY <1>1, <1>2, <1>5, <3>1, <4>1 DEF Types, TypeOK
    <3>3. pc'[t] = "steal_bottom" /\ t_'[t] = top
      BY <1>1, <1>2, <3>1 DEF TypeOK
    <3> QED BY <1>1, <1>2, <3>1, <3>2, <3>3 DEF ThiefInv, Decided
  <2>3. CASE StealLoadBottom(t)
    <3>1. /\ pc' = [pc EXCEPT ![t] = IF t_[t] < Visible.bottom THEN "steal_array" ELSE "stolen"]
          /\ pc[t] = "steal_bottom" /\ UNCHANGED locals
          /\ pc'[t] = IF t_[t] < Visible.bottom THEN "steal_array" ELSE "stolen"
      BY <1>1, <1>2, <2>3 DEF StealLoadBottom, Goto, TypeOK
    <3>2. Types'
      BY <1>1, <1>2, <1>5, <3>1 DEF Types, TypeOK, locals
    <3>3. CASE t_[t] < Visible.bottom /\ t_[t] = top
      <4>1. (\A k \in Views : top <= memory[k].bottom) /\ top < Bottom /\ Serves(1, top)
        BY <3>3, SeenBelowBottom
      <4>2. Serves(1, top)'
        BY <1>1, <1>5, <4>1 DEF Serves
      <4> QED BY <1>1, <1>2, <1>3, <3>1, <3>2, <3>3, <4>1, <4>2 DEF ThiefInv, Decided, locals
    <3>4. CASE ~(t_[t] < Visible.bottom /\ t_[t] = top)
      <4>1. ~Decided(t)'
        BY <1>1, <3>1, <3>4 DEF Decided, locals
      <4>2. ThiefInv(t)'
        BY <1>1, <1>2, <3>1, <4>1 DEF ThiefInv, locals
      <4> QED BY <3>2, <4>1, <4>2
    <3> QED BY <3>3, <3>4
  <2>4. CASE StealLoadArray(t)
    <3>1. /\ pc' = [pc EXCEPT ![t] = "steal_slot"] /\ pc[t] = "steal_array"
          /\ arr' = [arr EXCEPT ![t] = array(Visible)] /\ UNCHANGED <<b_, t_, item>>
      BY <2>4 DEF StealLoadArray, Goto
    <3>2. pc'[t] = "steal_slot" /\ arr'[t] = array(Visible) /\ array(Visible) \in 1 .. array(Own)
      BY <1>1, <1>2, <3>1 DEF TypeOK
    <3>3. Types'
      BY <1>1, <1>2, <1>5, <3>1, <3>2 DEF Types, TypeOK
    <3>4. Decided(t)' => Decided(t)
      BY <1>1, <3>1 DEF Decided
    <3>5. ASSUME Decided(t)', NEW k \in Views
          PROVE  Slot(memory[k], arr'[t], top) = Slot(Own, array(Own), top)
      <4>1. Serves(1, top)
        BY <1>2, <3>1, <3>4, <3>5 DEF ThiefInv
      <4>2. 1 \in 1 .. Len(memory) /\ k \in 1 .. Len(memory) /\ 1 <= k
        BY <1>2 DEF Views
      <4> QED BY <1>2, <3>2, <4>1, <4>2 DEF Serves
    <3>6. ThiefInv(t)'
      <4>1. \A k \in Views' : Decided(t)' =>
              Slot(memory'[k], arr'[t], top') = Slot(Own', array(Own'), top')
        BY <1>1, <1>5, <3>5
      <4>2. arr'[t] <= array(Visible')
        BY <1>2, <1>5, <3>2
      <4> QED BY <1>1, <1>2, <1>3, <3>1, <3>2, <3>4, <4>1, <4>2 DEF ThiefInv
    <3> QED BY <3>3, <3>4, <3>6
  <2>5. CASE StealLoadSlot(t)
    <3>1. /\ pc' = [pc EXCEPT ![t] = "steal_cas"] /\ pc[t] = "steal_slot"
          /\ item' = [item EXCEPT ![t] = Slot(Visible, arr[t], t_[t])] /\ UNCHANGED <<b_, t_, arr>>
      BY <2>5 DEF StealLoadSlot, Goto
    <3>2. /\ pc'[t] = "steal_cas" /\ item'[t] = Slot(Visible, arr[t], t_[t])
          /\ Slot(Visible, arr[t], t_[t]) \in Items \cup {NULL}
      <4>1. arr[t] \in 1 .. array(Visible)
        BY <1>1, <1>2, <3>1 DEF ThiefInv, TypeOK
      <4>2. Slot(Visible, arr[t], t_[t]) \in Items \cup {NULL}
        BY <1>2, <4>1, SlotTyped
      <4> QED BY <1>1, <1>2, <3>1, <4>2 DEF TypeOK
    <3>3. Types'
      BY <1>1, <1>2, <1>5, <3>1, <3>2 DEF Types, TypeOK
    <3>4. Decided(t)' => Decided(t)
      BY <1>1, <3>1 DEF Decided
    <3>5. Decided(t)' => item'[t] = Slot(Own', array(Own'), top')
      <4>1. Decided(t) => Slot(memory[1], arr[t], top) = Slot(Own, array(Own), top) /\ t_[t] = top
        BY <1>2, <3>1 DEF ThiefInv, Decided
      <4> QED BY <1>1, <1>2, <1>5, <3>2, <3>4, <4>1
    <3>6. ThiefInv(t)'
      BY <1>1, <1>2, <1>3, <3>1, <3>2, <3>4, <3>5 DEF ThiefInv
    <3> QED BY <3>3, <3>4, <3>6
  <2> QED BY <2>1, <2>2, <2>3, <2>4, <2>5
<1>7. QueueInv'
  BY <1>1, <1>3, <1>4, <1>6, QueueFrame
<1>8. SameItems
  BY <1>1, <1>3, <1>5 DEF SameItems
<1> QED BY <1>3, <1>4, <1>6, <1>7, <1>8 DEF IInv, QueueInv

-----------------------------------------------------------------------------
(* The exchanges of the top.                                               *)

LEMMA TopAdvances ==
  ASSUME IInv, memory' = memory, pushed' = pushed, Bottom' = Bottom, top' = top + 1,
         top < Bottom, \A k \in Views : top <= memory[k].bottom,
         \A t \in Thieves : ~Decided(t)',
         pc'[Owner] = "pop" \/ pc[Owner] # "pop"
  PROVE  QueueInv'
<1>1. /\ Own' = Own /\ Views' = Views /\ top \in Nat /\ Bottom \in Int
      /\ \A k \in Views : memory[k].bottom \in Int
      /\ Own.arrays[array(Own)].capacity \in Nat
  BY MemoryFacts, BottomIsInt DEF IInv, Types, TypeOK, Own, Views
<1>2. ArraysGrow' /\ BottomsGrow'
  BY <1>1 DEF IInv, ArraysGrow, BottomsGrow
<1>3. BottomsNearTop'
  BY <1>1 DEF IInv, BottomsNearTop
<1>4. Window'
  BY <1>1 DEF IInv, Window
<1>5. ViewsServe'
  <2>1. ASSUME NEW h \in Views, NEW i \in top + 1 .. memory[h].bottom - 1 PROVE Serves(h, i)'
    <3>1. Serves(h, i)
      BY <1>1, <2>1 DEF IInv, ViewsServe
    <3> QED BY <1>1, <3>1 DEF Serves
  <2> QED BY <1>1, <2>1 DEF ViewsServe
<1>6. ItemsArePushed'
  BY <1>1 DEF IInv, ItemsArePushed
<1> QED BY <1>2, <1>3, <1>4, <1>5, <1>6 DEF QueueInv

\* A thief that has not seen the new top will fail its exchange.
LEMMA ThiefLags ==
  ASSUME IInv, NEW u \in Thieves, top' = top + 1, memory' = memory,
         pc'[u] = pc[u], t_'[u] = t_[u], arr'[u] = arr[u], item'[u] = item[u]
  PROVE  ThiefInv(u)' /\ ~Decided(u)'
<1>1. ThiefInv(u) /\ top \in Nat /\ t_[u] \in Nat /\ Visible' = Visible
  BY DEF IInv, Types, TypeOK, Threads, Visible
<1>2. ~Decided(u)'
  BY <1>1 DEF ThiefInv, Decided
<1> QED BY <1>1, <1>2 DEF ThiefInv

LEMMA StealCasInv == ASSUME IInv, NEW t \in Thieves, StealCas(t) PROVE IInv'
<1>1. /\ memory' = memory /\ pushed' = pushed
      /\ pc[t] = "steal_cas" /\ pc' = [pc EXCEPT ![t] = "stolen"] /\ UNCHANGED <<t_, b_, arr>>
      /\ \/ top = t_[t] /\ top' = t_[t] + 1 /\ item' = item
         \/ top # t_[t] /\ top' = top /\ item' = [item EXCEPT ![t] = NULL]
  BY DEF StealCas, Goto
<1>2. /\ TypeOK /\ Types /\ top \in Nat /\ t \in Threads /\ Owner \in Threads \ {t}
      /\ \A u \in Thieves \ {t} : u \in Threads \ {t}
      /\ ThiefInv(t)
  BY DEF IInv, Types, TypeOK, Threads
<1>3. /\ \A u \in Threads \ {t} : /\ pc'[u] = pc[u] /\ t_'[u] = t_[u] /\ b_'[u] = b_[u]
                                  /\ arr'[u] = arr[u] /\ item'[u] = item[u]
      /\ pc'[t] = "stolen"
  BY <1>1, <1>2 DEF TypeOK
<1>4. OwnerInv' /\ Bottom' = Bottom
  BY <1>1, <1>2, <1>3, OwnerFrame
<1>5. Types'
  <2>1. top' \in Nat /\ item' \in [Threads -> Items \cup {NULL}]
    <3>1. t_[t] + 1 \in Nat /\ item \in [Threads -> Items \cup {NULL}]
      BY <1>2 DEF TypeOK
    <3> QED BY <1>1, <1>2, <3>1
  <2>2. Own' = Own
    BY <1>1 DEF Own
  <2>3. pc' = [pc EXCEPT ![t] = "stolen"] /\ memory' = memory /\ UNCHANGED <<t_, b_, arr, pushed>>
    BY <1>1
  <2> QED BY <1>2, <2>1, <2>2, <2>3 DEF Types, TypeOK
<1>6. ThiefInv(t)' /\ ~Decided(t)'
  BY <1>3 DEF ThiefInv, Decided
<1>7. CASE top = t_[t]
  <2>1. Decided(t) /\ top < Bottom
    BY <1>1, <1>2, <1>7 DEF ThiefInv, Decided
  <2>2. \A k \in Views : top <= memory[k].bottom
    BY <2>1 DEF IInv, BottomsNearTop
  <2>3. \A u \in Thieves : ThiefInv(u)' /\ ~Decided(u)'
    BY <1>1, <1>2, <1>3, <1>6, <1>7, ThiefLags
  <2>4. QueueInv'
    BY <1>1, <1>2, <1>3, <1>4, <1>7, <2>1, <2>2, <2>3, TopAdvances
  <2> QED BY <1>4, <1>5, <2>3, <2>4 DEF IInv, QueueInv
<1>8. CASE top # t_[t]
  <2>1. UNCHANGED shared
    BY <1>1, <1>8 DEF shared
  <2>2. \A u \in Thieves : ThiefInv(u)' /\ (Decided(u)' => Decided(u))
    BY <1>2, <1>3, <1>4, <1>6, <2>1, ThiefFrame
  <2>3. QueueInv'
    BY <1>1, <1>2, <1>3, <1>4, <2>1, <2>2, QueueFrame
  <2> QED BY <1>4, <1>5, <2>2, <2>3 DEF IInv, QueueInv
<1> QED BY <1>7, <1>8

LEMMA PopLastInv == ASSUME IInv, PopLast PROVE IInv'
<1>1. /\ memory' = memory /\ pushed' = pushed /\ AllVisible
      /\ pc[Owner] = "pop_last" /\ pc' = [pc EXCEPT ![Owner] = "restore"] /\ UNCHANGED <<t_, b_, arr>>
      /\ \/ top = t_[Owner] /\ top' = t_[Owner] + 1 /\ item' = item
         \/ top # t_[Owner] /\ top' = top /\ item' = [item EXCEPT ![Owner] = NULL]
  BY DEF PopLast, Goto
<1>2. /\ TypeOK /\ Types /\ top \in Nat /\ Owner \in Threads
      /\ \A u \in Thieves : u \in Threads \ {Owner}
      /\ OwnerInv /\ b_[Owner] \in Int
  BY DEF IInv, Types, TypeOK, Threads
<1>3. /\ \A u \in Threads \ {Owner} : /\ pc'[u] = pc[u] /\ t_'[u] = t_[u] /\ b_'[u] = b_[u]
                                      /\ arr'[u] = arr[u] /\ item'[u] = item[u]
      /\ pc'[Owner] = "restore"
  BY <1>1, <1>2 DEF TypeOK
<1>4. Own' = Own /\ AllVisible' = AllVisible /\ Views' = Views
  BY <1>1 DEF Own, AllVisible, Views
<1>5. Bottom' = Bottom /\ Bottom = b_[Owner] + 1 /\ b_[Owner] = Own.bottom /\ t_[Owner] = b_[Owner]
  BY <1>1, <1>2, <1>3, <1>4 DEF Bottom, Undecided, OwnerInv
<1>6. OwnerInv'
  BY <1>1, <1>3, <1>4, <1>5 DEF OwnerInv
<1>7. Types'
  <2>1. top' \in Nat
    <3>1. t_[Owner] \in Nat
      BY <1>2 DEF TypeOK
    <3> QED BY <1>1, <1>2, <3>1
  <2>2. item' \in [Threads -> Items \cup {NULL}]
    BY <1>1, <1>2 DEF TypeOK
  <2> QED BY <1>1, <1>2, <1>4, <2>1, <2>2 DEF Types, TypeOK
<1>8. CASE top = t_[Owner]
  <2>1. \A k \in Views : top <= memory[k].bottom
    <3>1. Len(memory) = 1 /\ Own = memory[1] /\ Views = {1}
      BY <1>1 DEF AllVisible, Own, Views
    <3> QED BY <1>2, <1>5, <1>8, <3>1
  <2>2. \A u \in Thieves : ThiefInv(u)' /\ ~Decided(u)'
    BY <1>1, <1>2, <1>3, <1>8, ThiefLags
  <2>3. QueueInv'
    BY <1>1, <1>2, <1>3, <1>5, <1>8, <2>1, <2>2, TopAdvances
  <2> QED BY <1>6, <1>7, <2>2, <2>3 DEF IInv, QueueInv
<1>9. CASE top # t_[Owner]
  <2>1. UNCHANGED shared
    BY <1>1, <1>9 DEF shared
  <2>2. \A u \in Thieves : ThiefInv(u)' /\ (Decided(u)' => Decided(u))
    BY <1>2, <1>3, <1>5, <2>1, ThiefFrame
  <2>3. QueueInv'
    BY <1>1, <1>5, <2>1, <2>2, QueueFrame
  <2> QED BY <1>6, <1>7, <2>2, <2>3 DEF IInv, QueueInv
<1> QED BY <1>8, <1>9

-----------------------------------------------------------------------------
(* The owner's loads.                                                      *)

LEMMA OwnerLoads ==
  ASSUME IInv,
         \/ PushLoad \/ PushRefused \/ PushResize \/ PushGarbageFails \/ PopFence
         \/ \E x \in Items : Push(x)
  PROVE  IInv' /\ SameItems
<1>1. /\ UNCHANGED shared /\ memory' = memory /\ top' = top /\ pushed \subseteq pushed'
      /\ Own' = Own /\ AllVisible' = AllVisible /\ Views' = Views
  BY DEF shared, PushLoad, PushRefused, PushResize, PushGarbageFails, PopFence, Push, Own, AllVisible, Views
<1>2. /\ TypeOK /\ Types /\ top \in Nat /\ Owner \in Threads
      /\ \A u \in Thieves : u \in Threads \ {Owner}
      /\ OwnerInv /\ b_[Owner] \in Int /\ t_[Owner] \in Nat /\ Window
      /\ Own.bottom \in Int /\ Own.arrays[array(Own)].capacity \in Nat \ {0}
      /\ array(Own) \in 1 .. array(Own)
  BY MemoryFacts DEF IInv, Types, TypeOK, Threads
<1>3. /\ \A u \in Threads \ {Owner} : /\ pc'[u] = pc[u] /\ t_'[u] = t_[u] /\ b_'[u] = b_[u]
                                      /\ arr'[u] = arr[u] /\ item'[u] = item[u]
      /\ Types' /\ OwnerInv' /\ Bottom' = Bottom
      /\ pc'[Owner] = "pop" \/ pc[Owner] # "pop" \/ AllVisible
  <2>1. CASE \E x \in Items : Push(x)
    <3>1. PICK x \in Items : Push(x)
      BY <2>1
    <3>2. /\ pc[Owner] = "idle" /\ pc' = [pc EXCEPT ![Owner] = "push"] /\ pushed' = pushed \cup {x}
          /\ item' = [item EXCEPT ![Owner] = x] /\ UNCHANGED <<t_, b_, arr>>
      BY <3>1 DEF Push, Goto
    <3>3. pc'[Owner] = "push" /\ item'[Owner] \in pushed'
      BY <1>2, <3>2 DEF TypeOK
    <3>4. Types'
      BY <1>1, <1>2, <3>2 DEF Types, TypeOK
    <3>5. OwnerInv' /\ Bottom' = Bottom
      BY <1>1, <3>2, <3>3 DEF OwnerInv, Bottom, Undecided
    <3> QED BY <1>2, <3>2, <3>4, <3>5 DEF TypeOK
  <2>2. CASE PushLoad
    <3> DEFINE full == IsFull(Own.arrays[array(Own)], Own.bottom, top)
    <3>1. /\ pc[Owner] = "push" /\ pc' = [pc EXCEPT ![Owner] = IF full THEN "full" ELSE "put"]
          /\ b_' = [b_ EXCEPT ![Owner] = Own.bottom] /\ t_' = [t_ EXCEPT ![Owner] = top]
          /\ arr' = [arr EXCEPT ![Owner] = array(Own)] /\ UNCHANGED <<pushed, item>>
      BY <2>2 DEF PushLoad, Goto
    <3>2. /\ pc'[Owner] = IF full THEN "full" ELSE "put"
          /\ b_'[Owner] = Own.bottom /\ t_'[Owner] = top /\ arr'[Owner] = array(Own)
      BY <1>2, <3>1 DEF TypeOK
    <3>3. Types'
      <4>1. t_' \in [Threads -> Nat] /\ b_' \in [Threads -> Int]
        BY <1>2, <3>1 DEF TypeOK
      <4>2. arr' \in [Threads -> 1 .. array(Own)]
        BY <1>2, <3>1 DEF TypeOK
      <4> QED BY <1>1, <1>2, <3>1, <4>1, <4>2 DEF Types, TypeOK
    <3>4. Bottom = Own.bottom /\ Bottom' = Own.bottom
      BY <1>1, <3>1, <3>2 DEF Bottom, Undecided
    <3>5. OwnerInv'
      <4>1. Own.bottom - top <= Own.arrays[array(Own)].capacity
        BY <1>2, <3>4 DEF Window
      <4>2. ~full => Own.bottom - top < Own.arrays[array(Own)].capacity
        BY <1>2 DEF IsFull
      <4> HIDE DEF full
      <4> QED BY <1>1, <1>2, <3>1, <3>2, <4>1, <4>2 DEF OwnerInv
    <3> QED BY <1>2, <3>1, <3>3, <3>4, <3>5 DEF TypeOK
  <2>3. CASE PushRefused \/ PushGarbageFails
    <3>1. /\ pc[Owner] \in {"full", "resized"} /\ pc' = [pc EXCEPT ![Owner] = "refused"]
          /\ UNCHANGED <<pushed, locals>>
      BY <2>3 DEF PushRefused, PushGarbageFails, Goto
    <3>2. pc'[Owner] = "refused"
      BY <1>2, <3>1 DEF TypeOK
    <3>3. Types'
      BY <1>1, <1>2, <3>1 DEF Types, TypeOK, locals
    <3>4. OwnerInv' /\ Bottom' = Bottom
      BY <1>1, <3>1, <3>2 DEF OwnerInv, Bottom, Undecided
    <3> QED BY <1>2, <3>1, <3>3, <3>4 DEF TypeOK, locals
  <2>4. CASE PushResize
    <3>1. /\ pc[Owner] = "full" /\ pc' = [pc EXCEPT ![Owner] = "resized"]
          /\ UNCHANGED <<pushed, locals>>
      BY <2>4 DEF PushResize, Goto
    <3>2. pc'[Owner] = "resized"
      BY <1>2, <3>1 DEF TypeOK
    <3>3. Types'
      BY <1>1, <1>2, <3>1 DEF Types, TypeOK, locals
    <3>4. OwnerInv' /\ Bottom' = Bottom
      BY <1>1, <1>2, <3>1, <3>2 DEF OwnerInv, Bottom, Undecided, locals
    <3> QED BY <1>2, <3>1, <3>3, <3>4 DEF TypeOK, locals
  <2>5. CASE PopFence
    <3>1. /\ pc[Owner] = "pop" /\ pc' = [pc EXCEPT ![Owner] = "pop_top"] /\ UNCHANGED <<pushed, locals>>
          /\ AllVisible
      BY <2>5 DEF PopFence, Goto
    <3>2. pc'[Owner] = "pop_top"
      BY <1>2, <3>1 DEF TypeOK
    <3>3. Types'
      BY <1>1, <1>2, <3>1 DEF Types, TypeOK, locals
    <3>4. OwnerInv' /\ Bottom' = Bottom
      BY <1>1, <1>2, <3>1, <3>2 DEF OwnerInv, Bottom, Undecided, locals
    <3> QED BY <1>2, <3>1, <3>3, <3>4 DEF TypeOK, locals
  <2> QED BY <2>1, <2>2, <2>3, <2>4, <2>5
<1>4. \A u \in Thieves : ThiefInv(u)' /\ (Decided(u)' => Decided(u))
  BY <1>1, <1>2, <1>3, ThiefFrame
<1>5. QueueInv'
  BY <1>1, <1>3, <1>4, QueueFrame
<1>6. SameItems
  BY <1>1, <1>3 DEF SameItems
<1> QED BY <1>3, <1>4, <1>5, <1>6 DEF IInv, QueueInv

\* More than one item is left: the pop has taken the last one.
LEMMA PopLoadTopInv == ASSUME IInv, PopLoadTop PROVE IInv'
<1> DEFINE b == b_[Owner]
           to == IF top < b THEN "popped" ELSE IF top = b THEN "pop_last" ELSE "restore"
           x == IF top <= b THEN Slot(Own, arr[Owner], b) ELSE NULL
<1>1. /\ pc[Owner] = "pop_top" /\ pc' = [pc EXCEPT ![Owner] = to]
      /\ t_' = [t_ EXCEPT ![Owner] = top] /\ item' = [item EXCEPT ![Owner] = x]
      /\ UNCHANGED <<pushed, b_, arr>> /\ UNCHANGED shared
      /\ memory' = memory /\ top' = top
      /\ Own' = Own /\ AllVisible' = AllVisible /\ Views' = Views
  BY DEF PopLoadTop, Goto, shared, Own, AllVisible, Views
<1>2. /\ TypeOK /\ Types /\ top \in Nat /\ Owner \in Threads
      /\ \A u \in Thieves : u \in Threads \ {Owner}
      /\ OwnerInv /\ b \in Int /\ Window
      /\ Own \in Memories /\ Own.bottom \in Int /\ array(Own) \in 1 .. array(Own)
      /\ Own.arrays[array(Own)].capacity \in Nat \ {0}
  BY MemoryFacts DEF IInv, Types, TypeOK, Threads
<1>3. AllVisible /\ b = Own.bottom /\ arr[Owner] = array(Own) /\ Bottom = b + 1
  BY <1>1, <1>2 DEF OwnerInv, Bottom, Undecided
<1>4. /\ Len(memory) = 1 /\ Own = memory[1] /\ Views = {1}
  BY <1>3 DEF AllVisible, Own, Views
<1>5. x \in Items \cup {NULL}
  BY <1>2, <1>3, SlotTyped
<1> HIDE DEF x, to
<1>6. /\ \A u \in Threads \ {Owner} : /\ pc'[u] = pc[u] /\ t_'[u] = t_[u] /\ b_'[u] = b_[u]
                                      /\ arr'[u] = arr[u] /\ item'[u] = item[u]
      /\ pc'[Owner] = to /\ t_'[Owner] = top /\ item'[Owner] = x /\ b_'[Owner] = b
      /\ arr'[Owner] = array(Own)
  BY <1>1, <1>2, <1>3 DEF TypeOK
<1>7. Types'
  <2>1. t_' \in [Threads -> Nat] /\ item' \in [Threads -> Items \cup {NULL}]
    BY <1>1, <1>2, <1>5 DEF TypeOK
  <2>2. pc' \in [Threads -> {"popped", "pop_last", "restore"} \cup {pc[u] : u \in Threads}]
    BY <1>1, <1>2 DEF TypeOK, to
  <2>3. \A u \in Threads : pc'[u] \in {"popped", "pop_last", "restore"} \/ pc'[u] = pc[u]
    BY <1>2, <1>6 DEF to
  <2> QED BY <1>1, <1>2, <2>1, <2>2, <2>3 DEF Types, TypeOK
<1>8. CASE top < b
  <2>1. to = "popped" /\ Bottom' = b
    <3>1. to = "popped"
      BY <1>8 DEF to
    <3> QED BY <1>1, <1>3, <1>6, <3>1 DEF Bottom, Undecided
  <2>2. OwnerInv'
    BY <1>6, <2>1 DEF OwnerInv
  <2>3. /\ top < Bottom /\ top < Bottom'
    BY <1>2, <1>3, <1>8, <2>1
  <2>4. \A u \in Thieves : ThiefInv(u)' /\ (Decided(u)' => Decided(u))
    <3>1. SUFFICES ASSUME NEW u \in Thieves PROVE ThiefInv(u)' /\ (Decided(u)' => Decided(u))
      OBVIOUS
    <3>2. ThiefInv(u) /\ Visible' = Visible
      BY <1>1 DEF IInv, Visible
    <3> QED BY <1>1, <1>2, <1>6, <2>3, <3>2 DEF ThiefInv, Decided, Serves
  <2>5. ArraysGrow' /\ ViewsServe'
    BY <1>1 DEF IInv, ArraysGrow, ViewsServe, Serves
  <2>6. BottomsGrow'
    BY <1>1, <1>2, <1>4 DEF BottomsGrow
  <2>7. BottomsNearTop'
    BY <1>1, <1>2, <1>3, <1>4, <1>8, <2>1, <2>4 DEF BottomsNearTop
  <2>8. Window'
    BY <1>1, <1>2, <1>3, <1>8, <2>1 DEF Window
  <2>9. ItemsArePushed'
    BY <1>1, <1>2, <1>3, <2>1 DEF IInv, ItemsArePushed
  <2> QED BY <1>7, <2>2, <2>4, <2>5, <2>6, <2>7, <2>8, <2>9 DEF IInv
<1>9. CASE ~(top < b)
  <2>1. to \in {"pop_last", "restore"} /\ (to = "pop_last" => top = b /\ x = Slot(Own, array(Own), b))
    BY <1>2, <1>3, <1>9 DEF to, x
  <2>2. Bottom' = Bottom
    BY <1>3, <1>6, <2>1 DEF Bottom, Undecided
  <2>3. OwnerInv'
    BY <1>1, <1>2, <1>3, <1>6, <2>1 DEF OwnerInv
  <2>4. \A u \in Thieves : ThiefInv(u)' /\ (Decided(u)' => Decided(u))
    BY <1>1, <1>2, <1>6, <2>2, ThiefFrame
  <2>5. QueueInv'
    BY <1>1, <1>3, <2>2, <2>4, QueueFrame
  <2> QED BY <1>7, <2>3, <2>4, <2>5 DEF IInv, QueueInv
<1> QED BY <1>8, <1>9

-----------------------------------------------------------------------------
(* The end of a call, and a store becoming visible.                        *)

LEMMA ReturnInv == ASSUME IInv, NEW t \in Threads, Return(t) PROVE IInv' /\ SameItems
<1>1. /\ pc[t] \in {"ok", "refused", "popped", "stolen"} /\ pc' = [pc EXCEPT ![t] = "idle"]
      /\ t_' = [t_ EXCEPT ![t] = 0] /\ b_' = [b_ EXCEPT ![t] = 0] /\ arr' = [arr EXCEPT ![t] = 1]
      /\ item' = [item EXCEPT ![t] = NULL]
      /\ UNCHANGED shared /\ memory' = memory /\ top' = top /\ pushed' = pushed
      /\ Own' = Own /\ AllVisible' = AllVisible
  BY DEF Return, Goto, shared, Own, AllVisible
<1>2. /\ TypeOK /\ Types /\ top \in Nat /\ Owner \in Threads
      /\ \A u \in Thieves : u \in Threads /\ u # Owner
      /\ OwnerInv /\ array(Own) \in Nat \ {0}
  BY MemoryFacts DEF IInv, Types, TypeOK, Threads
<1>3. /\ \A u \in Threads \ {t} : /\ pc'[u] = pc[u] /\ t_'[u] = t_[u] /\ b_'[u] = b_[u]
                                  /\ arr'[u] = arr[u] /\ item'[u] = item[u]
      /\ pc'[t] = "idle" /\ item'[t] = NULL
  BY <1>1, <1>2 DEF TypeOK
<1>4. Types'
  <2>1. /\ t_' \in [Threads -> Nat] /\ b_' \in [Threads -> Int] /\ item' \in [Threads -> Items \cup {NULL}]
    BY <1>1, <1>2 DEF TypeOK
  <2>2. arr' \in [Threads -> 1 .. array(Own)]
    BY <1>1, <1>2 DEF TypeOK
  <2> QED BY <1>1, <1>2, <2>1, <2>2 DEF Types, TypeOK
<1>5. OwnerInv' /\ Bottom' = Bottom /\ (pc'[Owner] = "pop" \/ pc[Owner] # "pop" \/ AllVisible)
  <2>1. CASE t = Owner
    BY <1>1, <1>3, <2>1 DEF OwnerInv, Bottom, Undecided
  <2>2. CASE t # Owner
    BY <1>1, <1>2, <1>3, <2>2, OwnerFrame
  <2> QED BY <2>1, <2>2
<1>6. \A u \in Thieves : ThiefInv(u)' /\ (Decided(u)' => Decided(u))
  <2>1. SUFFICES ASSUME NEW u \in Thieves PROVE ThiefInv(u)' /\ (Decided(u)' => Decided(u))
    OBVIOUS
  <2>2. CASE u = t
    BY <1>3, <2>2 DEF ThiefInv, Decided
  <2>3. CASE u # t
    BY <1>1, <1>2, <1>3, <1>5, <2>3, ThiefFrame
  <2> QED BY <2>2, <2>3
<1>7. QueueInv'
  BY <1>1, <1>5, <1>6, QueueFrame
<1>8. SameItems
  BY <1>1, <1>5 DEF SameItems
<1> QED BY <1>4, <1>5, <1>6, <1>7, <1>8 DEF IInv, QueueInv

LEMMA FlushInv == ASSUME IInv, Flush PROVE IInv' /\ SameItems
<1>1. /\ UNCHANGED <<pc, t_, b_, arr, item, pushed>> /\ top' = top
  BY DEF Flush, locals
<1>2. /\ MemoryTyped' /\ Len(memory) >= 2 /\ Len(memory') = Len(memory) - 1
      /\ \A k \in Views' : memory'[k] = memory[k + 1] /\ k + 1 \in Views
      /\ Own' = Own /\ Visible' = memory[2]
  BY Flushed DEF IInv
<1>3. Len(memory) \in Nat /\ Views' = 1 .. Len(memory) - 1 /\ Views = 1 .. Len(memory)
  BY <1>2, MemoryFacts DEF IInv, Views
<1>4. Types'
  BY <1>1, <1>2 DEF IInv, Types, TypeOK, MemoryTyped
<1>5. Bottom' = Bottom /\ ~AllVisible
  BY <1>1, <1>2 DEF Bottom, Undecided, AllVisible
<1>6. OwnerInv'
  BY <1>1, <1>2, <1>5 DEF IInv, OwnerInv
<1>7. ArraysGrow'
  BY <1>2, <1>3 DEF IInv, ArraysGrow
<1>8. BottomsGrow'
  <2>1. SUFFICES ASSUME NEW j \in Views', NEW k \in Views', j <= k,
                        ~(k = Len(memory') /\ pc'[Owner] = "pop")
                 PROVE  memory'[j].bottom <= memory'[k].bottom
    BY DEF BottomsGrow
  <2>2. /\ j + 1 \in Views /\ k + 1 \in Views /\ j + 1 <= k + 1
        /\ ~(k + 1 = Len(memory) /\ pc[Owner] = "pop")
    BY <1>1, <1>2, <1>3, <2>1
  <2>3. memory[j + 1].bottom <= memory[k + 1].bottom
    BY <2>2 DEF IInv, BottomsGrow
  <2> QED BY <1>2, <2>3
<1>9. \A u \in Thieves : Decided(u)' = Decided(u)
  BY <1>1 DEF Decided
<1>10. BottomsNearTop'
  BY <1>1, <1>2, <1>5, <1>9 DEF IInv, BottomsNearTop
<1>11. Window' /\ ItemsArePushed'
  BY <1>1, <1>2, <1>5 DEF IInv, Window, ItemsArePushed
<1>12. ASSUME NEW h \in Views', NEW i, Serves(h + 1, i) PROVE Serves(h, i)'
  <2>1. SUFFICES ASSUME NEW j \in h .. Len(memory'), NEW k \in h .. Len(memory'), j <= k
                 PROVE  Slot(memory'[k], array(memory'[j]), i) = Slot(Own', array(Own'), i)
    BY DEF Serves
  <2>2. /\ j \in Views' /\ k \in Views' /\ j + 1 \in h + 1 .. Len(memory)
        /\ k + 1 \in h + 1 .. Len(memory) /\ j + 1 <= k + 1
    <3>1. h \in 1 .. Len(memory) - 1 /\ Len(memory') = Len(memory) - 1
      BY <1>2, <1>3
    <3> QED BY <1>3, <2>1, <3>1
  <2> QED BY <1>2, <1>12, <2>2 DEF Serves
<1>13. ViewsServe'
  BY <1>1, <1>2, <1>12 DEF IInv, ViewsServe
<1>14. ASSUME NEW u \in Thieves PROVE ThiefInv(u)'
  <2>1. ThiefInv(u)
    BY DEF IInv
  <2>2. Serves(1, top) => Serves(1, top)'
    <3>1. Serves(1, top) => Serves(2, top)
      BY <1>3 DEF Serves
    <3>2. 1 \in Views' /\ 1 + 1 = 2
      BY <1>2, <1>3
    <3> QED BY <1>1, <1>12, <3>1, <3>2
  <2>3. array(Visible) <= array(Visible')
    <3>1. 1 \in Views /\ 2 \in Views /\ 1 <= 2
      BY <1>2, <1>3
    <3> QED BY <1>2, <3>1 DEF IInv, ArraysGrow, Visible
  <2>4. pc[u] = "steal_slot" => arr'[u] <= array(Visible')
    <3>1. array(Visible) \in Nat /\ array(Visible') \in Nat /\ arr[u] \in Nat
      BY <1>2, <1>3, MemoryFacts DEF IInv, Types, TypeOK, Threads
    <3> QED BY <1>1, <2>1, <2>3, <3>1 DEF ThiefInv
  <2> QED BY <1>1, <1>2, <1>5, <1>9, <2>1, <2>2, <2>4 DEF ThiefInv
<1>15. SameItems
  BY <1>1, <1>2, <1>5 DEF SameItems
<1> QED BY <1>4, <1>6, <1>7, <1>8, <1>10, <1>11, <1>13, <1>14, <1>15 DEF IInv

-----------------------------------------------------------------------------
(* The owner's stores.                                                     *)

\* What the items between top and bottom are in m, they were for the owner before,
\* and the arrays that were there before still serve them.
Keeps(m) ==
  /\ array(Own) <= array(m)
  /\ \A i \in top .. Bottom - 1 :
       /\ \A d \in 1 .. array(Own) : Slot(m, d, i) = Slot(Own, d, i)
       /\ Slot(m, array(m), i) = Slot(Own, array(Own), i)

LEMMA StoreKeeps ==
  ASSUME IInv, NEW m \in Memories, Store(m), Keeps(m), top' = top,
         \A t \in Thieves : /\ pc'[t] = pc[t] /\ t_'[t] = t_[t]
                            /\ arr'[t] = arr[t] /\ item'[t] = item[t],
         pc[Owner] # "pop", pc'[Owner] = "pop" \/ Own.bottom <= m.bottom,
         Bottom' \in Int, Bottom <= Bottom', m.bottom <= Bottom', top - 1 <= m.bottom,
         \A t \in Thieves : Decided(t) => top <= m.bottom
  PROVE  /\ ArraysGrow' /\ BottomsGrow' /\ BottomsNearTop' /\ ViewsServe'
         /\ \A t \in Thieves : ThiefInv(t)'
<1> DEFINE N == Len(memory)
<1>1. /\ N \in Nat \ {0} /\ Visible = memory[1] /\ Own = memory[N] /\ 1 \in Views /\ N \in Views
      /\ \A k \in Views : memory[k].bottom \in Int /\ array(memory[k]) \in Nat \ {0}
      /\ array(Own) \in Nat \ {0} /\ top \in Nat /\ Bottom \in Int /\ Own.bottom \in Int
      /\ m.bottom \in Int /\ array(m) \in Nat \ {0}
  <2>1. /\ array(Own) \in Nat \ {0} /\ m.bottom \in Int /\ array(m) \in Nat
    BY MemoryFacts DEF IInv, Memories, array
  <2>2. array(m) \in Nat \ {0}
    BY <2>1 DEF Keeps
  <2> QED BY <2>1, <2>2, MemoryFacts, BottomIsInt DEF IInv, Types, TypeOK
<1>2. /\ Len(memory') = N + 1 /\ memory'[N + 1] = m /\ Own' = m /\ Visible' = Visible
      /\ \A k \in Views : memory'[k] = memory[k]
  BY <1>1, Stored DEF IInv
<1>3. Views' = 1 .. N + 1 /\ Views = 1 .. N /\ \A k \in Views' : k \in Views \/ k = N + 1
  BY <1>1, <1>2 DEF Views
<1> HIDE DEF N
<1>4. ASSUME NEW k \in Views PROVE k <= N /\ array(memory[k]) <= array(Own) /\ 1 <= k
  BY <1>1, <1>3 DEF IInv, ArraysGrow
<1>5. ArraysGrow'
  <2>1. SUFFICES ASSUME NEW j \in Views', NEW k \in Views', j <= k
                 PROVE  array(memory'[j]) <= array(memory'[k])
    BY DEF ArraysGrow
  <2>2. CASE k \in Views
    <3>1. j \in Views
      BY <1>1, <1>3, <1>4, <2>1, <2>2
    <3> QED BY <1>2, <2>1, <2>2, <3>1 DEF IInv, ArraysGrow
  <2>3. CASE k = N + 1
    <3>1. j \in Views => array(memory[j]) <= array(m)
      BY <1>1, <1>4 DEF Keeps
    <3> QED BY <1>1, <1>2, <1>3, <2>3, <3>1
  <2> QED BY <1>3, <2>2, <2>3
<1>6. BottomsGrow'
  <2>1. SUFFICES ASSUME NEW j \in Views', NEW k \in Views', j <= k,
                        ~(k = N + 1 /\ pc'[Owner] = "pop")
                 PROVE  memory'[j].bottom <= memory'[k].bottom
    BY <1>2 DEF BottomsGrow
  <2>2. CASE k \in Views
    <3>1. j \in Views
      BY <1>1, <1>3, <1>4, <2>1, <2>2
    <3> QED BY <1>2, <2>1, <2>2, <3>1 DEF IInv, BottomsGrow
  <2>3. CASE k = N + 1
    <3>1. j \in Views => memory[j].bottom <= Own.bottom
      BY <1>1, <1>4 DEF IInv, BottomsGrow
    <3> QED BY <1>1, <1>2, <1>3, <2>1, <2>3, <3>1
  <2> QED BY <1>3, <2>2, <2>3
<1>7. \A t \in Thieves : Decided(t)' = Decided(t)
  BY DEF Decided
<1>8. BottomsNearTop'
  <2>1. ASSUME NEW k \in Views'
        PROVE  /\ top' - 1 <= memory'[k].bottom /\ memory'[k].bottom <= Bottom'
               /\ \A t \in Thieves : Decided(t)' => top' <= memory'[k].bottom
    <3>1. CASE k \in Views
      <4>1. /\ top - 1 <= memory[k].bottom /\ memory[k].bottom <= Bottom
            /\ \A t \in Thieves : Decided(t) => top <= memory[k].bottom
        BY <3>1 DEF IInv, BottomsNearTop
      <4>2. memory'[k] = memory[k] /\ memory[k].bottom \in Int
        BY <1>1, <1>2, <3>1
      <4>3. memory[k].bottom <= Bottom'
        BY <1>1, <4>1, <4>2
      <4> QED BY <1>7, <4>1, <4>2, <4>3
    <3>2. CASE k = N + 1
      <4>1. memory'[k] = m
        BY <1>2, <3>2
      <4> QED BY <1>7, <4>1
    <3> QED BY <1>3, <3>1, <3>2
  <2> QED BY <2>1 DEF BottomsNearTop
<1>9. ASSUME NEW h \in Views, NEW i \in top .. Bottom - 1, Serves(h, i) PROVE Serves(h, i)'
  <2>1. SUFFICES ASSUME NEW j \in h .. N + 1, NEW k \in h .. N + 1, j <= k
                 PROVE  Slot(memory'[k], array(memory'[j]), i) = Slot(m, array(m), i)
    BY <1>2 DEF Serves
  <2>2. Slot(m, array(m), i) = Slot(Own, array(Own), i)
    BY DEF Keeps
  <2>3. h <= N /\ h \in Nat
    BY <1>3, <1>4
  <2>4. CASE k \in Views
    <3>1. j \in Views /\ j \in h .. N /\ k \in h .. N
      BY <1>1, <1>3, <1>4, <2>1, <2>3, <2>4
    <3>2. Slot(memory[k], array(memory[j]), i) = Slot(Own, array(Own), i)
      BY <1>9, <2>1, <3>1 DEF Serves, N
    <3> QED BY <1>2, <2>2, <2>4, <3>1, <3>2
  <2>5. CASE k = N + 1 /\ j \in Views
    <3>1. j \in h .. N /\ N \in h .. N /\ j <= N
      BY <1>1, <1>4, <2>1, <2>3, <2>5
    <3>2. Slot(Own, array(memory[j]), i) = Slot(Own, array(Own), i)
      BY <1>1, <1>9, <3>1 DEF Serves, N
    <3>3. array(memory[j]) \in 1 .. array(Own)
      BY <1>1, <1>4, <2>5
    <3>4. Slot(m, array(memory[j]), i) = Slot(Own, array(memory[j]), i)
      BY <3>3 DEF Keeps
    <3> QED BY <1>2, <2>2, <2>5, <3>2, <3>4
  <2>6. CASE k = N + 1 /\ j = N + 1
    BY <1>2, <2>6
  <2>7. j \in Views' /\ k \in Views'
    BY <1>1, <1>3, <2>1, <2>3
  <2>8. k = N + 1 \/ k \in Views
    BY <1>3, <2>7
  <2>9. j = N + 1 \/ j \in Views
    BY <1>3, <2>7
  <2> QED BY <2>4, <2>5, <2>6, <2>8, <2>9
<1>10. ViewsServe'
  <2>1. SUFFICES ASSUME NEW h \in Views', NEW i \in top .. memory'[h].bottom - 1
                 PROVE  Serves(h, i)'
    BY DEF ViewsServe
  <2>2. CASE h \in Views
    <3>1. i \in top .. memory[h].bottom - 1 /\ i \in top .. Bottom - 1
      <4>1. memory[h].bottom <= Bottom /\ memory[h].bottom \in Int /\ memory'[h] = memory[h]
        BY <1>1, <1>2, <2>2 DEF IInv, BottomsNearTop
      <4> QED BY <1>1, <2>1, <4>1
    <3>2. Serves(h, i)
      BY <2>2, <3>1 DEF IInv, ViewsServe
    <3> QED BY <1>9, <2>2, <3>1, <3>2
  <2>3. CASE h = N + 1
    <3>1. \A j \in h .. N + 1 : j = N + 1
      BY <1>1, <2>3
    <3> QED BY <1>2, <3>1 DEF Serves
  <2> QED BY <1>3, <2>2, <2>3
<1>11. ASSUME NEW t \in Thieves PROVE ThiefInv(t)'
  <2>1. ThiefInv(t)
    BY DEF IInv
  <2>2. Decided(t) => top \in top .. Bottom - 1 /\ top < Bottom'
    BY <1>1, <2>1 DEF ThiefInv
  <2>3. Decided(t) => Slot(m, array(m), top) = Slot(Own, array(Own), top)
    BY <2>2 DEF Keeps
  <2>4. Decided(t) /\ Serves(1, top) => Serves(1, top)'
    BY <1>1, <1>9, <2>2
  <2>5. ASSUME Decided(t), pc[t] = "steal_slot", NEW k \in Views'
        PROVE  Slot(memory'[k], arr[t], top) = Slot(m, array(m), top)
    <3>1. \A l \in Views : Slot(memory[l], arr[t], top) = Slot(Own, array(Own), top)
      BY <2>1, <2>5 DEF ThiefInv
    <3>2. arr[t] \in 1 .. array(Own)
      BY DEF IInv, Types, TypeOK, Threads
    <3>3. Slot(m, arr[t], top) = Slot(Own, arr[t], top)
      BY <2>2, <2>5, <3>2 DEF Keeps
    <3>4. CASE k \in Views
      BY <1>2, <2>3, <2>5, <3>1, <3>4
    <3>5. CASE k = N + 1
      BY <1>1, <1>2, <2>3, <2>5, <3>1, <3>3, <3>5
    <3> QED BY <1>3, <3>4, <3>5
  <2> QED BY <1>2, <1>7, <2>1, <2>2, <2>3, <2>4, <2>5 DEF ThiefInv
<1> QED BY <1>5, <1>6, <1>8, <1>10, <1>11

StoreTyped(m) ==
  /\ MemoryTyped' /\ top' \in Nat /\ pushed' \subseteq Items
  /\ \A t \in Threads : arr[t] \in 1 .. array(Own')
  /\ Own' = m /\ AllVisible' = FALSE

LEMMA StoreTypes ==
  ASSUME IInv, NEW m \in Memories, array(Own) <= array(m), Store(m), top' = top, pushed' = pushed
  PROVE  StoreTyped(m)
<1>1. array(Own) \in Nat \ {0} /\ array(m) \in Nat \ {0} /\ Types /\ Len(memory) \in Nat \ {0}
  <2>1. array(Own) \in Nat \ {0} /\ array(m) \in Nat /\ Types /\ Len(memory) \in Nat \ {0}
    BY MemoryFacts DEF IInv, Memories, array
  <2> QED BY <2>1
<1>2. MemoryTyped' /\ Own' = m /\ Len(memory') = Len(memory) + 1
  BY <1>1, Stored
<1>3. \A t \in Threads : arr[t] \in 1 .. array(Own')
  BY <1>1, <1>2 DEF Types, TypeOK
<1>4. AllVisible' = FALSE
  BY <1>1, <1>2 DEF AllVisible
<1> QED BY <1>1, <1>2, <1>3, <1>4 DEF Types, TypeOK, StoreTyped

\* A store to the bottom keeps the arrays.
LEMMA BottomStoreKeeps ==
  ASSUME IInv, NEW b \in Int
  PROVE  LET m == StoreBottom(Own, b) IN
         /\ m \in Memories /\ m.bottom = b /\ m.arrays = Own.arrays /\ array(m) = array(Own)
         /\ Keeps(m) /\ \A d, i : Slot(m, d, i) = Slot(Own, d, i)
<1> DEFINE m == StoreBottom(Own, b)
<1>1. Own \in Memories /\ array(Own) \in Nat
  BY MemoryFacts DEF IInv
<1>2. m \in Memories /\ m.bottom = b /\ m.arrays = Own.arrays
  BY <1>1 DEF StoreBottom, Memories
<1> HIDE DEF m
<1>3. array(m) = array(Own) /\ \A d, i : Slot(m, d, i) = Slot(Own, d, i)
  BY <1>2 DEF array, Slot
<1> QED BY <1>1, <1>2, <1>3 DEF Keeps, m

LEMMA PushPublishInv == ASSUME IInv, PushPublish PROVE IInv'
<1> DEFINE b == b_[Owner]
           m == StoreBottom(Own, b + 1)
<1>1. /\ pc[Owner] = "publish" /\ pc' = [pc EXCEPT ![Owner] = "ok"] /\ Store(m)
      /\ UNCHANGED <<t_, b_, arr, item>> /\ top' = top /\ pushed' = pushed
  BY DEF PushPublish, Goto, locals
<1>2. /\ TypeOK /\ Owner \in Threads /\ \A t \in Thieves : t \in Threads \ {Owner}
      /\ OwnerInv /\ Window /\ top \in Nat /\ t_[Owner] \in Nat /\ b \in Int
      /\ Own.bottom \in Int /\ array(Own) \in 1 .. array(Own) /\ array(Own) \in Nat
      /\ Own.arrays[array(Own)].capacity \in Nat \ {0}
  BY MemoryFacts DEF IInv, Types, TypeOK, Threads
<1>3. /\ m \in Memories /\ m.bottom = b + 1 /\ m.arrays = Own.arrays /\ array(m) = array(Own)
      /\ Keeps(m) /\ \A d, i : Slot(m, d, i) = Slot(Own, d, i)
  BY <1>2, BottomStoreKeeps DEF IInv
<1> HIDE DEF m
<1>4. /\ MemoryTyped' /\ top' \in Nat /\ pushed' \subseteq Items
      /\ \A t \in Threads : arr[t] \in 1 .. array(Own')
      /\ Own' = m /\ AllVisible' = FALSE
  <2>1. m \in Memories /\ array(Own) <= array(m) /\ Store(m) /\ top' = top /\ pushed' = pushed
    BY <1>1, <1>2, <1>3
  <2>2. StoreTyped(m)
    BY <2>1, StoreTypes
  <2> QED BY ONLY <2>2 DEF StoreTyped
<1>5. /\ pc'[Owner] = "ok" /\ \A t \in Thieves : pc'[t] = pc[t]
      /\ Types'
  BY <1>1, <1>2, <1>4 DEF Types, TypeOK, MemoryTyped
<1>6. /\ Bottom = b /\ b = Own.bottom /\ Bottom' = b + 1
      /\ t_[Owner] <= top /\ b - t_[Owner] < Own.arrays[array(Own)].capacity
      /\ Slot(Own, array(Own), b) = item[Owner] /\ item[Owner] \in pushed
  BY <1>1, <1>2, <1>3, <1>4, <1>5 DEF OwnerInv, Bottom, Undecided
<1>7. Window'
  BY <1>1, <1>2, <1>3, <1>4, <1>6 DEF Window
<1>8. OwnerInv'
  BY <1>5 DEF OwnerInv
<1>9. ItemsArePushed'
  <2>1. SUFFICES ASSUME NEW i \in top .. b PROVE Slot(m, array(m), i) \in pushed
    BY <1>1, <1>2, <1>4, <1>6 DEF ItemsArePushed
  <2>2. i = b \/ i \in top .. Bottom - 1
    BY <1>2, <1>6
  <2> QED BY <1>3, <1>6, <2>2 DEF IInv, ItemsArePushed
<1>10. /\ ArraysGrow' /\ BottomsGrow' /\ BottomsNearTop' /\ ViewsServe'
       /\ \A t \in Thieves : ThiefInv(t)'
  <2>1. /\ Bottom' \in Int /\ Bottom <= Bottom' /\ m.bottom <= Bottom' /\ top - 1 <= m.bottom
        /\ top <= m.bottom /\ Own.bottom <= m.bottom
    BY <1>2, <1>3, <1>6 DEF Window
  <2> QED BY <1>1, <1>3, <1>5, <2>1, StoreKeeps
<1> QED BY <1>5, <1>7, <1>8, <1>9, <1>10 DEF IInv

LEMMA PopInv == ASSUME IInv, Pop PROVE IInv' /\ SameItems
<1> DEFINE b == Own.bottom - 1
           m == StoreBottom(Own, b)
<1>1. /\ pc[Owner] = "idle" /\ pc' = [pc EXCEPT ![Owner] = "pop"] /\ Store(m)
      /\ b_' = [b_ EXCEPT ![Owner] = b] /\ arr' = [arr EXCEPT ![Owner] = array(Own)]
      /\ UNCHANGED <<t_, item>> /\ top' = top /\ pushed' = pushed
  BY DEF Pop, Goto
<1>2. /\ TypeOK /\ Owner \in Threads /\ \A t \in Thieves : t \in Threads \ {Owner}
      /\ Window /\ top \in Nat /\ b \in Int
      /\ Own.bottom \in Int /\ array(Own) \in 1 .. array(Own) /\ array(Own) \in Nat
      /\ Own.arrays[array(Own)].capacity \in Nat \ {0}
  <2>1. /\ Own.bottom \in Int /\ array(Own) \in 1 .. array(Own)
        /\ Own.arrays[array(Own)].capacity \in Nat \ {0}
    BY MemoryFacts DEF IInv
  <2>2. /\ TypeOK /\ Owner \in Threads /\ \A t \in Thieves : t \in Threads \ {Owner}
        /\ Window /\ top \in Nat
    BY ThreadsAssumption DEF IInv, Types, TypeOK, Threads
  <2>3. b \in Int /\ array(Own) \in Nat
    BY <2>1
  <2> QED BY <2>1, <2>2, <2>3
<1>3. /\ m \in Memories /\ m.bottom = b /\ m.arrays = Own.arrays /\ array(m) = array(Own)
      /\ Keeps(m) /\ \A d, i : Slot(m, d, i) = Slot(Own, d, i)
  BY <1>2, BottomStoreKeeps DEF IInv
<1> HIDE DEF m
<1>4. /\ MemoryTyped' /\ top' \in Nat /\ pushed' \subseteq Items
      /\ \A t \in Threads : arr[t] \in 1 .. array(Own')
      /\ Own' = m /\ AllVisible' = FALSE
  <2>1. m \in Memories /\ array(Own) <= array(m) /\ Store(m) /\ top' = top /\ pushed' = pushed
    BY <1>1, <1>2, <1>3
  <2>2. StoreTyped(m)
    BY <2>1, StoreTypes
  <2> QED BY ONLY <2>2 DEF StoreTyped
<1>5. /\ pc'[Owner] = "pop" /\ b_'[Owner] = b /\ arr'[Owner] = array(Own)
      /\ \A t \in Thieves : pc'[t] = pc[t] /\ arr'[t] = arr[t]
  BY <1>1, <1>2 DEF TypeOK
<1>6. Types'
  <2>1. b_' \in [Threads -> Int] /\ arr' \in [Threads -> 1 .. array(Own')]
    BY <1>1, <1>2, <1>3, <1>4 DEF TypeOK
  <2> QED BY <1>1, <1>2, <1>4, <2>1 DEF Types, TypeOK, MemoryTyped
<1>7. Bottom = Own.bottom /\ Bottom' = Own.bottom
  BY <1>1, <1>2, <1>5 DEF Bottom, Undecided
<1>8. Window' /\ ItemsArePushed'
  BY <1>1, <1>3, <1>4, <1>7 DEF IInv, Window, ItemsArePushed
<1>9. OwnerInv'
  BY <1>3, <1>4, <1>5 DEF OwnerInv
<1>10. /\ ArraysGrow' /\ BottomsGrow' /\ BottomsNearTop' /\ ViewsServe'
       /\ \A t \in Thieves : ThiefInv(t)'
  <2>1. /\ Bottom' \in Int /\ Bottom <= Bottom' /\ m.bottom <= Bottom' /\ top - 1 <= m.bottom
    BY <1>2, <1>3, <1>7 DEF Window
  <2>2. \A t \in Thieves : Decided(t) => top <= m.bottom
    BY <1>2, <1>3, <1>7 DEF IInv, ThiefInv
  <2> QED BY <1>1, <1>3, <1>5, <2>1, <2>2, StoreKeeps
<1>11. SameItems
  BY <1>1, <1>3, <1>4, <1>7 DEF SameItems
<1> QED BY <1>6, <1>8, <1>9, <1>10, <1>11 DEF IInv

LEMMA PopRestoreInv == ASSUME IInv, PopRestore PROVE IInv' /\ SameItems
<1> DEFINE b == b_[Owner]
           m == StoreBottom(Own, b + 1)
<1>1. /\ pc[Owner] = "restore" /\ pc' = [pc EXCEPT ![Owner] = "popped"] /\ Store(m)
      /\ UNCHANGED <<t_, b_, arr, item>> /\ top' = top /\ pushed' = pushed
  BY DEF PopRestore, Goto, locals
<1>2. /\ TypeOK /\ Owner \in Threads /\ \A t \in Thieves : t \in Threads \ {Owner}
      /\ OwnerInv /\ Window /\ top \in Nat /\ b \in Int
      /\ Own.bottom \in Int /\ array(Own) \in 1 .. array(Own) /\ array(Own) \in Nat
      /\ Own.arrays[array(Own)].capacity \in Nat \ {0}
  BY MemoryFacts DEF IInv, Types, TypeOK, Threads
<1>3. /\ m \in Memories /\ m.bottom = b + 1 /\ m.arrays = Own.arrays /\ array(m) = array(Own)
      /\ Keeps(m) /\ \A d, i : Slot(m, d, i) = Slot(Own, d, i)
  BY <1>2, BottomStoreKeeps DEF IInv
<1> HIDE DEF m
<1>4. /\ MemoryTyped' /\ top' \in Nat /\ pushed' \subseteq Items
      /\ \A t \in Threads : arr[t] \in 1 .. array(Own')
      /\ Own' = m /\ AllVisible' = FALSE
  <2>1. m \in Memories /\ array(Own) <= array(m) /\ Store(m) /\ top' = top /\ pushed' = pushed
    BY <1>1, <1>2, <1>3
  <2>2. StoreTyped(m)
    BY <2>1, StoreTypes
  <2> QED BY ONLY <2>2 DEF StoreTyped
<1>5. /\ pc'[Owner] = "popped" /\ \A t \in Thieves : pc'[t] = pc[t]
      /\ Types'
  BY <1>1, <1>2, <1>4 DEF Types, TypeOK, MemoryTyped
<1>6. Bottom = b + 1 /\ b = Own.bottom /\ Bottom' = b + 1
  BY <1>1, <1>2, <1>3, <1>4, <1>5 DEF OwnerInv, Bottom, Undecided
<1>7. Window' /\ ItemsArePushed'
  BY <1>1, <1>3, <1>4, <1>6 DEF IInv, Window, ItemsArePushed
<1>8. OwnerInv'
  BY <1>5 DEF OwnerInv
<1>9. /\ ArraysGrow' /\ BottomsGrow' /\ BottomsNearTop' /\ ViewsServe'
      /\ \A t \in Thieves : ThiefInv(t)'
  <2>1. /\ Bottom' \in Int /\ Bottom <= Bottom' /\ m.bottom <= Bottom' /\ top - 1 <= m.bottom
        /\ top <= m.bottom /\ Own.bottom <= m.bottom
    BY <1>2, <1>3, <1>6 DEF Window
  <2> QED BY <1>1, <1>3, <1>5, <2>1, StoreKeeps
<1>10. SameItems
  BY <1>1, <1>3, <1>4, <1>6 DEF SameItems
<1> QED BY <1>5, <1>7, <1>8, <1>9, <1>10 DEF IInv

\* The index that a push writes is less than the capacity away from every item.
LEMMA PushPutInv == ASSUME IInv, PushPut PROVE IInv' /\ SameItems
<1> DEFINE b == b_[Owner]
           A == array(Own)
           c == Own.arrays[A].capacity
           m == StoreSlot(Own, A, b, item[Owner])
<1>1. /\ TypeOK /\ Owner \in Threads /\ \A t \in Thieves : t \in Threads \ {Owner}
      /\ OwnerInv /\ Window /\ top \in Nat /\ t_[Owner] \in Nat /\ b \in Int
      /\ Own \in Memories /\ Own.bottom \in Int /\ A \in 1 .. A /\ A \in Nat /\ c \in Nat \ {0}
      /\ item[Owner] \in Items \cup {NULL}
  BY MemoryFacts DEF IInv, Types, TypeOK, Threads
<1>2. /\ pc[Owner] = "put" /\ pc' = [pc EXCEPT ![Owner] = "publish"] /\ Store(m)
      /\ UNCHANGED <<t_, b_, arr, item>> /\ top' = top /\ pushed' = pushed
  BY <1>1 DEF PushPut, Goto, locals, OwnerInv
<1>3. /\ m \in Memories /\ m.bottom = Own.bottom /\ array(m) = A /\ m.arrays[A].capacity = c
      /\ \A d \in 1 .. A, j \in Int : d # A => Slot(m, d, j) = Slot(Own, d, j)
      /\ Slot(m, A, b) = item[Owner]
      /\ \A j \in Int : j % c # b % c => Slot(m, A, j) = Slot(Own, A, j)
  <2>1. A \in 1 .. array(Own) /\ m = StoreSlot(Own, A, b, item[Owner])
    BY <1>1
  <2> HIDE DEF m, A, b
  <2> QED BY <1>1, <2>1, SlotOfStore DEF c, A
<1> HIDE DEF m
<1>4. /\ MemoryTyped' /\ top' \in Nat /\ pushed' \subseteq Items
      /\ \A t \in Threads : arr[t] \in 1 .. array(Own')
      /\ Own' = m /\ AllVisible' = FALSE
  <2>1. m \in Memories /\ array(Own) <= array(m) /\ Store(m) /\ top' = top /\ pushed' = pushed
    BY <1>1, <1>2, <1>3
  <2>2. StoreTyped(m)
    BY <2>1, StoreTypes
  <2> QED BY ONLY <2>2 DEF StoreTyped
<1>5. /\ pc'[Owner] = "publish" /\ \A t \in Thieves : pc'[t] = pc[t]
      /\ Types'
  BY <1>1, <1>2, <1>4 DEF Types, TypeOK, MemoryTyped
<1>6. /\ Bottom = b /\ b = Own.bottom /\ Bottom' = b
      /\ t_[Owner] <= top /\ b - t_[Owner] < c /\ arr[Owner] = A /\ item[Owner] \in pushed
  BY <1>1, <1>2, <1>3, <1>4, <1>5 DEF OwnerInv, Bottom, Undecided
<1>7. \A i \in top .. b - 1 : i % c # b % c
  <2>1. \A i \in top .. b - 1 : i \in Nat /\ b \in Nat /\ i # b /\ i - b < c /\ b - i < c
    BY <1>1, <1>6
  <2> HIDE DEF b, c
  <2> QED BY <1>1, <2>1, SlotsApart
<1>8. \A i \in top .. b - 1, d \in 1 .. A : Slot(m, d, i) = Slot(Own, d, i)
  <2> HIDE DEF b, c, A
  <2> QED BY <1>1, <1>3, <1>7
<1>9. Keeps(m)
  BY <1>1, <1>3, <1>6, <1>8 DEF Keeps
<1>10. Window' /\ ItemsArePushed'
  BY <1>1, <1>2, <1>3, <1>4, <1>6, <1>8 DEF IInv, Window, ItemsArePushed
<1>11. OwnerInv'
  BY <1>2, <1>3, <1>4, <1>5, <1>6 DEF OwnerInv
<1>12. /\ ArraysGrow' /\ BottomsGrow' /\ BottomsNearTop' /\ ViewsServe'
       /\ \A t \in Thieves : ThiefInv(t)'
  <2>1. /\ Bottom' \in Int /\ Bottom <= Bottom' /\ m.bottom <= Bottom' /\ top - 1 <= m.bottom
        /\ top <= m.bottom /\ Own.bottom <= m.bottom
    BY <1>1, <1>3, <1>6 DEF Window
  <2> QED BY <1>2, <1>3, <1>5, <1>9, <2>1, StoreKeeps
<1>13. SameItems
  BY <1>1, <1>2, <1>3, <1>4, <1>6, <1>8 DEF SameItems
<1> QED BY <1>5, <1>10, <1>11, <1>12, <1>13 DEF IInv

LEMMA PushGrowInv == ASSUME IInv, ResizeIsWhole, PushGrow PROVE IInv' /\ SameItems
<1> DEFINE b == b_[Owner]
           t == t_[Owner]
           A == array(Own)
           c == Own.arrays[A].capacity
           m == Grown(Own, b, t)
<1>1. /\ TypeOK /\ Owner \in Threads /\ \A u \in Thieves : u \in Threads \ {Owner}
      /\ OwnerInv /\ Window /\ top \in Nat /\ t \in Nat /\ b \in Int
      /\ Own \in Memories /\ Own.bottom \in Int /\ A \in 1 .. A /\ A \in Nat \ {0} /\ c \in Nat \ {0}
  BY MemoryFacts DEF IInv, Types, TypeOK, Threads
<1>2. /\ pc[Owner] = "resized" /\ pc' = [pc EXCEPT ![Owner] = "put"] /\ Store(m)
      /\ arr' = [arr EXCEPT ![Owner] = A + 1]
      /\ UNCHANGED <<t_, b_, item>> /\ top' = top /\ pushed' = pushed
  <2>1. pc[Owner] = "resized" => new_arr = Resize(Own.arrays[A], b, t)
    BY DEF ResizeIsWhole
  <2> QED BY <2>1 DEF PushGrow, Goto, Grown
<1>3. b - t <= c /\ b = Own.bottom /\ t <= top /\ item[Owner] \in pushed
  BY <1>1, <1>2 DEF OwnerInv
<1>4. /\ m \in Memories /\ m.bottom = Own.bottom /\ array(m) = A + 1
      /\ m.arrays[array(m)].capacity = 2 * c
      /\ \A d \in 1 .. A, j \in Int : Slot(m, d, j) = Slot(Own, d, j)
      /\ \A j \in t .. b - 1 : Slot(m, array(m), j) = Slot(Own, A, j)
  BY <1>1, <1>3, SlotOfGrown
<1> HIDE DEF m
<1>5. /\ MemoryTyped' /\ top' \in Nat /\ pushed' \subseteq Items
      /\ \A u \in Threads : arr[u] \in 1 .. array(Own')
      /\ Own' = m /\ AllVisible' = FALSE
  <2>1. m \in Memories /\ array(Own) <= array(m) /\ Store(m) /\ top' = top /\ pushed' = pushed
    BY <1>1, <1>2, <1>4
  <2>2. StoreTyped(m)
    BY <2>1, StoreTypes
  <2> QED BY ONLY <2>2 DEF StoreTyped
<1>6. /\ pc'[Owner] = "put" /\ arr'[Owner] = A + 1
      /\ \A u \in Thieves : pc'[u] = pc[u] /\ arr'[u] = arr[u]
  BY <1>1, <1>2 DEF TypeOK
<1>7. Types'
  <2>1. arr' \in [Threads -> 1 .. array(Own')]
    BY <1>1, <1>2, <1>4, <1>5 DEF TypeOK
  <2> QED BY <1>1, <1>2, <1>5, <2>1 DEF Types, TypeOK, MemoryTyped
<1>8. Bottom = b /\ Bottom' = b
  BY <1>2, <1>3, <1>4, <1>5, <1>6 DEF Bottom, Undecided
<1>9. Keeps(m)
  <2>1. \A i \in top .. b - 1 : i \in Int /\ i \in t .. b - 1
    BY <1>1, <1>3
  <2> QED BY <1>1, <1>4, <1>8, <2>1 DEF Keeps
<1>10. Window'
  BY <1>1, <1>2, <1>4, <1>5, <1>8 DEF Window
<1>11. ItemsArePushed'
  BY <1>2, <1>5, <1>8, <1>9 DEF IInv, ItemsArePushed, Keeps
<1>12. OwnerInv'
  <2>1. b - t < 2 * c
    BY <1>1, <1>3
  <2> QED BY <1>2, <1>3, <1>4, <1>5, <1>6, <2>1 DEF OwnerInv
<1>13. /\ ArraysGrow' /\ BottomsGrow' /\ BottomsNearTop' /\ ViewsServe'
       /\ \A u \in Thieves : ThiefInv(u)'
  <2>1. /\ Bottom' \in Int /\ Bottom <= Bottom' /\ m.bottom <= Bottom' /\ top - 1 <= m.bottom
        /\ top <= m.bottom /\ Own.bottom <= m.bottom
    BY <1>1, <1>3, <1>4, <1>8 DEF Window
  <2> QED BY <1>2, <1>4, <1>6, <1>9, <2>1, StoreKeeps
<1>14. SameItems
  BY <1>1, <1>2, <1>4, <1>5, <1>8, <1>9 DEF SameItems, Keeps
<1> QED BY <1>7, <1>10, <1>11, <1>12, <1>13, <1>14 DEF IInv

-----------------------------------------------------------------------------
(* The invariant.                                                          *)

LEMMA InitInv == ASSUME Init PROVE IInv
<1> DEFINE a == NewArray(InitialCapacity)
           m == [bottom |-> 0, arrays |-> <<a>>]
<1>1. a \in Arrays /\ IsArray(a) /\ a.capacity = InitialCapacity
  BY IsAnArray DEF NewArray, IsArray
<1> HIDE DEF a
<1>2. m \in Memories /\ array(m) = 1 /\ m.bottom = 0 /\ m.arrays[1] = a /\ m.arrays # <<>>
  BY <1>1 DEF Memories, array
<1>3. /\ memory = <<m>> /\ top = 0 /\ pushed = {} /\ pc = [t \in Threads |-> "idle"]
      /\ t_ = [t \in Threads |-> 0] /\ b_ = [t \in Threads |-> 0]
      /\ arr = [t \in Threads |-> 1] /\ item = [t \in Threads |-> NULL]
  BY DEF Init, a
<1>4. \A d \in DOMAIN m.arrays : IsArray(m.arrays[d])
  BY <1>1
<1> HIDE DEF m
<1>5. Views = {1} /\ DOMAIN memory = {1} /\ memory[1] = m /\ Own = m /\ Visible = m /\ AllVisible
  BY <1>3 DEF Views, Own, Visible, AllVisible
<1>6. Types
  BY <1>2, <1>3, <1>4, <1>5 DEF Types, TypeOK
<1>7. Owner \in Threads /\ \A t \in Thieves : t \in Threads
  BY DEF Threads
<1>8. Bottom = 0
  BY <1>2, <1>3, <1>5, <1>7 DEF Bottom, Undecided
<1>9. OwnerInv /\ \A t \in Thieves : ThiefInv(t) /\ ~Decided(t)
  BY <1>3, <1>7 DEF OwnerInv, ThiefInv, Decided
<1>10. ArraysGrow /\ BottomsGrow /\ BottomsNearTop
  BY <1>2, <1>3, <1>5, <1>8, <1>9 DEF ArraysGrow, BottomsGrow, BottomsNearTop
<1>11. Window /\ ViewsServe /\ ItemsArePushed
  BY <1>1, <1>2, <1>3, <1>5, <1>8 DEF Window, ViewsServe, ItemsArePushed
<1> QED BY <1>6, <1>9, <1>10, <1>11 DEF IInv

LEMMA StutterInv == ASSUME IInv, UNCHANGED vars PROVE IInv'
<1>1. /\ memory' = memory /\ top' = top /\ UNCHANGED shared /\ pushed' = pushed
      /\ pc' = pc /\ t_' = t_ /\ b_' = b_ /\ arr' = arr /\ item' = item /\ Own' = Own
  BY DEF vars, shared, locals, Own
<1>2. OwnerInv' /\ Bottom' = Bottom
  BY <1>1, OwnerFrame DEF IInv, Types, TypeOK
<1>3. \A t \in Thieves : ThiefInv(t)' /\ (Decided(t)' => Decided(t))
  BY <1>1, <1>2, ThiefFrame
<1>4. QueueInv'
  BY <1>1, <1>2, <1>3, QueueFrame
<1>5. Types'
  BY <1>1 DEF IInv, Types, TypeOK
<1> QED BY <1>2, <1>3, <1>4, <1>5 DEF IInv, QueueInv

LEMMA ResizeFrame ==
  ASSUME ResizeIsWhole, UNCHANGED growth, array(Own') = array(Own),
         \/ pc[Owner] # "resized" /\ pc'[Owner] # "resized"
         \/ /\ pc'[Owner] = pc[Owner] /\ Own' = Own
            /\ b_'[Owner] = b_[Owner] /\ t_'[Owner] = t_[Owner]
  PROVE  ResizeIsWhole'
  BY DEF ResizeIsWhole, growth

\* Whatever allocation of a resize fails.
LEMMA ResizeStep == ASSUME IInv, ResizeIsWhole, [Next]_vars PROVE ResizeIsWhole'
<1>1. /\ TypeOK /\ Types /\ OwnerInv /\ Owner \in Threads /\ \A t \in Thieves : t # Owner
      /\ Own \in Memories /\ array(Own) \in Nat \ {0} /\ b_[Owner] \in Int
      /\ garbage_capacity \in Nat \ {0} /\ array(Own) - 1 <= garbage_capacity
  BY MemoryFacts DEF IInv, Types, TypeOK, Threads, ResizeIsWhole
<1>2. CASE UNCHANGED vars
  BY <1>2, ResizeFrame DEF vars, shared, locals, Own
<1>3. CASE Flush
  <2>1. Own' = Own /\ UNCHANGED <<growth, pc, b_, t_>>
    BY <1>1, <1>3, Flushed DEF Flush, locals
  <2> QED BY <2>1, ResizeFrame
<1>4. ASSUME NEW t \in Thieves, ThiefStep(t) PROVE ResizeIsWhole'
  <2>1. UNCHANGED growth /\ memory' = memory
    BY <1>4 DEF ThiefStep, Steal, StealLoadTop, StealLoadBottom, StealLoadArray, StealLoadSlot,
                StealCas, shared
  <2>2. pc'[Owner] = pc[Owner] /\ b_'[Owner] = b_[Owner] /\ t_'[Owner] = t_[Owner]
    BY <1>1, <1>4 DEF ThiefStep, Steal, StealLoadTop, StealLoadBottom, StealLoadArray, StealLoadSlot,
                      StealCas, locals, Goto, TypeOK
  <2> QED BY <2>1, <2>2, ResizeFrame DEF Own
<1>5. ASSUME NEW t \in Threads, Return(t) PROVE ResizeIsWhole'
  <2>1. UNCHANGED growth /\ memory' = memory /\ pc[t] # "resized" /\ pc' = [pc EXCEPT ![t] = "idle"]
    BY <1>5 DEF Return, shared, Goto
  <2>2. t # Owner =>
          pc'[Owner] = pc[Owner] /\ b_'[Owner] = b_[Owner] /\ t_'[Owner] = t_[Owner]
    BY <1>1, <1>5 DEF Return, Goto, TypeOK
  <2>3. t = Owner => pc[Owner] # "resized" /\ pc'[Owner] # "resized"
    BY <1>1, <2>1 DEF TypeOK
  <2> QED BY <2>1, <2>2, <2>3, ResizeFrame DEF Own
<1>6. CASE PushLoad \/ PushRefused \/ PopFence \/ PopLoadTop \/ PopLast \/ \E x \in Items : Push(x)
  <2>1. /\ UNCHANGED growth /\ memory' = memory
        /\ pc[Owner] # "resized" /\ \E to : to # "resized" /\ pc' = [pc EXCEPT ![Owner] = to]
    BY <1>6 DEF Push, PushLoad, PushRefused, PopFence, PopLoadTop, PopLast, shared, Goto
  <2>2. pc'[Owner] # "resized"
    BY <1>1, <2>1 DEF TypeOK
  <2> QED BY <2>1, <2>2, ResizeFrame DEF Own
<1>7. ASSUME NEW b \in Int, Store(StoreBottom(Own, b)), UNCHANGED growth, pc[Owner] # "resized",
             NEW to, to # "resized", pc' = [pc EXCEPT ![Owner] = to]
      PROVE  ResizeIsWhole'
  <2> DEFINE m == StoreBottom(Own, b)
  <2>1. m \in Memories /\ array(m) = array(Own)
    BY BottomStoreKeeps
  <2>2. Own' = m
    BY <1>1, <1>7, <2>1, Stored
  <2>3. pc'[Owner] # "resized"
    BY <1>1, <1>7 DEF TypeOK
  <2> HIDE DEF m
  <2> QED BY <1>7, <2>1, <2>2, <2>3, ResizeFrame
<1>8. CASE PushPublish
  <2>1. b_[Owner] + 1 \in Int
    BY <1>1
  <2> QED BY <1>7, <1>8, <2>1 DEF PushPublish, Goto
<1>9. CASE Pop
  <2>1. Own.bottom - 1 \in Int
    BY MemoryFacts DEF IInv
  <2> QED BY <1>7, <1>9, <2>1 DEF Pop, Goto
<1>10. CASE PopRestore
  <2>1. b_[Owner] + 1 \in Int
    BY <1>1
  <2> QED BY <1>7, <1>10, <2>1 DEF PopRestore, Goto
<1>11. CASE PushPut
  <2>1. PICK m \in Memories : Store(m) /\ array(m) = array(Own)
    <3> DEFINE m == StoreSlot(Own, arr[Owner], b_[Owner], item[Owner])
    <3>1. /\ pc[Owner] = "put" /\ Store(m) /\ item[Owner] \in Items \cup {NULL}
          /\ arr[Owner] \in 1 .. array(Own)
      BY <1>1, <1>11 DEF PushPut, Goto, TypeOK
    <3>2. m \in Memories /\ array(m) = array(Own)
      BY <1>1, <3>1, SlotOfStore
    <3> HIDE DEF m
    <3> QED BY <3>1, <3>2
  <2>2. Own' = m
    BY <1>1, <2>1, Stored
  <2>3. /\ UNCHANGED growth /\ pc[Owner] # "resized" /\ pc' = [pc EXCEPT ![Owner] = "publish"]
    BY <1>11 DEF PushPut, Goto
  <2>4. pc'[Owner] # "resized"
    BY <1>1, <2>3 DEF TypeOK
  <2> QED BY <2>1, <2>2, <2>3, <2>4, ResizeFrame
<1>12. CASE PushResize
  <2>1. /\ pc[Owner] = "full" /\ pc' = [pc EXCEPT ![Owner] = "resized"] /\ memory' = memory
        /\ new_arr' = Resize(Own.arrays[arr[Owner]], b_[Owner], t_[Owner])
        /\ UNCHANGED <<b_, t_, garbage_capacity>>
    BY <1>12 DEF PushResize, Goto, shared, locals
  <2>2. pc'[Owner] = "resized" /\ arr[Owner] = array(Own) /\ Own' = Own
    BY <1>1, <2>1 DEF TypeOK, OwnerInv, Own
  <2> QED BY <1>1, <2>1, <2>2 DEF ResizeIsWhole
<1>13. CASE PushGarbageFails
  <2>1. /\ pc' = [pc EXCEPT ![Owner] = "refused"] /\ memory' = memory /\ new_arr' = NULL
        /\ UNCHANGED garbage_capacity
    BY <1>13 DEF PushGarbageFails, Goto, shared
  <2>2. pc'[Owner] = "refused" /\ Own' = Own
    BY <1>1, <2>1 DEF TypeOK, Own
  <2> QED BY <1>1, <2>1, <2>2 DEF ResizeIsWhole
<1>14. CASE PushGrow
  <2> DEFINE g == garbage_capacity
  <2>1. /\ pc[Owner] = "resized" /\ pc' = [pc EXCEPT ![Owner] = "put"] /\ new_arr' = NULL
        /\ g' = IF array(Own) - 1 >= g THEN 2 * g ELSE g
    BY <1>14 DEF PushGrow, Goto, GarbageIsFull
  <2>2. pc'[Owner] = "put"
    BY <1>1, <2>1 DEF TypeOK
  <2>3. array(Own') = array(Own) + 1
    <3> DEFINE m == Grown(Own, b_[Owner], t_[Owner])
    <3>1. /\ new_arr = Resize(Own.arrays[array(Own)], b_[Owner], t_[Owner])
          /\ b_[Owner] - t_[Owner] <= Own.arrays[array(Own)].capacity /\ t_[Owner] \in Nat
      BY <1>1, <2>1 DEF ResizeIsWhole, OwnerInv, TypeOK
    <3>2. Store(m)
      BY <1>14, <3>1 DEF PushGrow, Grown
    <3>3. m \in Memories /\ array(m) = array(Own) + 1
      BY <1>1, <3>1, SlotOfGrown
    <3> HIDE DEF m
    <3>4. Own' = m
      BY <1>1, <3>2, <3>3, Stored
    <3> QED BY <3>3, <3>4
  <2>4. g' \in Nat \ {0} /\ array(Own') - 1 <= g'
    BY <1>1, <2>1, <2>3
  <2> QED BY <2>1, <2>2, <2>4 DEF ResizeIsWhole
<1>15. CASE OwnerStep
  BY <1>6, <1>8, <1>9, <1>10, <1>11, <1>12, <1>13, <1>14, <1>15 DEF OwnerStep
<1> QED BY <1>2, <1>3, <1>4, <1>5, <1>15 DEF Next

LEMMA InvStep == IInv /\ ResizeIsWhole /\ [Next]_vars => IInv'
<1> SUFFICES ASSUME IInv, ResizeIsWhole, [Next]_vars PROVE IInv'
  OBVIOUS
<1>1. CASE UNCHANGED vars
  BY <1>1, StutterInv
<1>2. CASE OwnerStep
  BY <1>2, OwnerLoads, PushGrowInv, PushPutInv, PushPublishInv, PopInv, PopLoadTopInv, PopLastInv,
     PopRestoreInv DEF OwnerStep
<1>3. CASE Flush
  BY <1>3, FlushInv
<1>4. ASSUME NEW t \in Thieves, ThiefStep(t) PROVE IInv'
  BY <1>4, ThiefLoads, StealCasInv DEF ThiefStep
<1>5. ASSUME NEW t \in Threads, Return(t) PROVE IInv'
  BY <1>5, ReturnInv
<1> QED BY <1>1, <1>2, <1>3, <1>4, <1>5 DEF Next

\* What the queue and its calls keep through every step.
THEOREM Invariant == Spec => [](IInv /\ ResizeIsWhole)
<1>1. Init => ResizeIsWhole
  <2> SUFFICES ASSUME Init PROVE ResizeIsWhole
    OBVIOUS
  <2>1. array(Own) = 1 /\ pc[Owner] = "idle"
    BY DEF Init, Own, array, Threads
  <2> QED BY <2>1 DEF Init, ResizeIsWhole
<1> QED BY <1>1, InitInv, InvStep, ResizeStep, PTL DEF Spec

\* For any number of thieves, any initial capacity and any number of resizes: the
\* items never outgrow the array, and the top passes the bottom a thread sees by
\* one only, while a pop decides about the last item; and whichever allocation of a
\* resize fails, the queue stays as it was.
THEOREM WindowAlwaysFits == Spec => []WindowFits
<1>1. IInv /\ ResizeIsWhole => WindowFits
  <2> SUFFICES ASSUME IInv, ResizeIsWhole PROVE WindowFits
    OBVIOUS
  <2>1. /\ Types /\ TypeOK /\ 1 \in Views /\ Visible = memory[1] /\ Visible.bottom \in Int
        /\ Own.bottom \in Int /\ Own.arrays[array(Own)].capacity \in Nat /\ top \in Nat
        /\ b_[Owner] \in Int /\ Window /\ OwnerInv
    BY MemoryFacts DEF IInv, Types, TypeOK, Threads
  <2>2. top <= Visible.bottom + 1
    BY <2>1 DEF IInv, BottomsNearTop
  <2>3. pc[Owner] \in {"idle", "ok", "refused", "popped"} => top <= Own.bottom
    BY <2>1 DEF Window, Bottom, Undecided
  <2>4. Own.bottom <= Bottom /\ Bottom \in Int
    BY <2>1 DEF OwnerInv, Bottom, Undecided
  <2>5. Own.bottom - top <= Own.arrays[array(Own)].capacity
    BY <2>1, <2>4 DEF Window
  <2> QED BY <2>1, <2>2, <2>3, <2>5 DEF WindowFits
<1> QED BY <1>1, Invariant, PTL

\* A thief whose exchange of the top succeeds leaves with the item that is there,
\* one that was pushed, from whichever array it read it.
THEOREM StaleArraysAlwaysServe == Spec => []StaleArraysServe
<1>1. IInv => StaleArraysServe
  <2> SUFFICES ASSUME IInv, NEW t \in Thieves, pc[t] = "steal_cas", top = t_[t]
               PROVE  item[t] = Slot(Own, array(Own), top) /\ item[t] \in pushed
    BY DEF StaleArraysServe
  <2>1. Decided(t) /\ ThiefInv(t) /\ top \in Nat /\ Bottom \in Int
    BY BottomIsInt DEF IInv, Types, TypeOK, Decided
  <2>2. item[t] = Slot(Own, array(Own), top) /\ top \in top .. Bottom - 1
    BY <2>1 DEF ThiefInv
  <2> QED BY <2>2 DEF IInv, ItemsArePushed
<1> QED BY <1>1, Invariant, PTL

-----------------------------------------------------------------------------
(* The refinement: what each step does to the abstract deque.              *)

LEMMA FunctionIsSequence ==
  ASSUME NEW n \in Nat, NEW s, s = [k \in 1 .. n |-> s[k]]
  PROVE  /\ s \in Seq({s[k] : k \in 1 .. n})
         /\ Len(s) = n
         /\ s = <<>> <=> n = 0
<1>1. s \in [1 .. n -> {s[k] : k \in 1 .. n}]
  OBVIOUS
<1>2. s \in Seq({s[k] : k \in 1 .. n})
  BY <1>1, SeqDef
<1>3. Len(s) = n
  BY <1>1, <1>2, LenProperties
<1> QED BY <1>2, <1>3, EmptySeq

LEMMA EndsOfSequence ==
  ASSUME NEW n \in Nat, NEW s, s = [k \in 1 .. n |-> s[k]]
  PROVE  /\ \A x : Append(s, x) = [k \in 1 .. n + 1 |-> IF k = n + 1 THEN x ELSE s[k]]
         /\ n # 0 => /\ Head(s) = s[1] /\ Tail(s) = [k \in 1 .. n - 1 |-> s[k + 1]]
                     /\ SubSeq(s, 1, n - 1) = [k \in 1 .. n - 1 |-> s[k]]
<1>1. s \in Seq({s[k] : k \in 1 .. n}) /\ Len(s) = n
  BY FunctionIsSequence
<1>2. \A x : Append(s, x) = [k \in 1 .. n + 1 |-> IF k = n + 1 THEN x ELSE s[k]]
  BY <1>1
<1>3. n # 0 => Head(s) = s[1] /\ Tail(s) = [k \in 1 .. n - 1 |-> s[k + 1]]
  BY <1>1
<1>4. n # 0 => SubSeq(s, 1, n - 1) = [k \in 1 .. n - 1 |-> s[k]]
  BY <1>1
<1> QED BY <1>2, <1>3, <1>4

ItemAt(i) == Slot(Own, array(Own), i)

LEMMA DequeFacts ==
  ASSUME IInv
  PROVE  /\ top \in Nat /\ Bottom \in Int /\ Bottom - top \in Nat
         /\ AbstractDeque = [k \in 1 .. Bottom - top |-> ItemAt(top + k - 1)]
         /\ AbstractDeque = [k \in 1 .. Bottom - top |-> AbstractDeque[k]]
         /\ Len(AbstractDeque) = Bottom - top
         /\ AbstractDeque = <<>> <=> Bottom = top
<1>1. top \in Nat /\ Bottom \in Int /\ Bottom - top \in Nat
  BY BottomIsInt DEF IInv, Types, TypeOK, Window
<1>2. AbstractDeque = [k \in 1 .. Bottom - top |-> ItemAt(top + k - 1)]
  BY DEF AbstractDeque, ItemAt
<1>3. AbstractDeque = [k \in 1 .. Bottom - top |-> AbstractDeque[k]]
  BY <1>2
<1> HIDE DEF Bottom
<1>4. Len(AbstractDeque) = Bottom - top /\ (AbstractDeque = <<>> <=> Bottom - top = 0)
  BY <1>1, <1>3, FunctionIsSequence
<1> QED BY <1>1, <1>2, <1>3, <1>4

LEMMA SameDeque == ASSUME IInv, SameItems PROVE AbstractDeque' = AbstractDeque
<1>1. top \in Nat /\ Bottom \in Int
  BY DequeFacts
<1>2. \A k \in 1 .. Bottom - top : top + k - 1 \in top .. Bottom - 1
  BY <1>1
<1> QED BY <1>2 DEF SameItems, AbstractDeque

\* A push puts an item at the bottom.
LEMMA DequeGrows ==
  ASSUME IInv, top' = top, Bottom' = Bottom + 1,
         \A i \in top .. Bottom - 1 : Slot(Own', array(Own'), i) = ItemAt(i),
         NEW x, Slot(Own', array(Own'), Bottom) = x
  PROVE  AbstractDeque' = Append(AbstractDeque, x)
<1> DEFINE n == Bottom - top
<1>1. /\ top \in Nat /\ Bottom \in Int /\ n \in Nat
      /\ AbstractDeque = [k \in 1 .. n |-> ItemAt(top + k - 1)]
      /\ AbstractDeque = [k \in 1 .. n |-> AbstractDeque[k]]
  BY DequeFacts
<1>2. AbstractDeque' = [k \in 1 .. Bottom' - top' |-> Slot(Own', array(Own'), top' + k - 1)]
  BY DEF AbstractDeque
<1>3. Bottom' - top' = n + 1
  BY <1>1
<1>4. \A k \in 1 .. n : Slot(Own', array(Own'), top' + k - 1) = AbstractDeque[k]
  <2>1. \A k \in 1 .. n : top' + k - 1 = top + k - 1 /\ top + k - 1 \in top .. Bottom - 1
    BY <1>1
  <2> QED BY <1>1, <2>1
<1>5. Slot(Own', array(Own'), top' + (n + 1) - 1) = x
  <2>1. top' + (n + 1) - 1 = Bottom
    BY <1>1
  <2> QED BY <2>1
<1>6. \A k \in 1 .. n + 1 : k = n + 1 \/ k \in 1 .. n
  BY <1>1
<1> HIDE DEF n
<1>7. AbstractDeque' = [k \in 1 .. n + 1 |-> IF k = n + 1 THEN x ELSE AbstractDeque[k]]
  <2>1. \A k \in 1 .. n + 1 :
          Slot(Own', array(Own'), top' + k - 1) = IF k = n + 1 THEN x ELSE AbstractDeque[k]
    BY <1>4, <1>5, <1>6
  <2> QED BY ONLY <1>2, <1>3, <2>1
<1> QED BY <1>1, <1>7, EndsOfSequence

\* A pop takes the item at the bottom.
LEMMA DequeLosesLast ==
  ASSUME IInv, top < Bottom, memory' = memory,
         \/ top' = top /\ Bottom' = Bottom - 1
         \/ top' = top + 1 /\ Bottom' = Bottom /\ Bottom = top + 1
  PROVE  /\ AbstractDeque # <<>>
         /\ AbstractDeque[Len(AbstractDeque)] = ItemAt(Bottom - 1)
         /\ AbstractDeque' = SubSeq(AbstractDeque, 1, Len(AbstractDeque) - 1)
<1> DEFINE n == Bottom - top
<1>1. /\ top \in Nat /\ Bottom \in Int /\ n \in Nat /\ n # 0
      /\ AbstractDeque = [k \in 1 .. n |-> ItemAt(top + k - 1)]
      /\ AbstractDeque = [k \in 1 .. n |-> AbstractDeque[k]]
      /\ Len(AbstractDeque) = n /\ AbstractDeque # <<>>
  BY DequeFacts
<1>2. AbstractDeque[n] = ItemAt(Bottom - 1)
  <2>1. n \in 1 .. n /\ top + n - 1 = Bottom - 1
    BY <1>1
  <2> QED BY <1>1, <2>1
<1>3. AbstractDeque' = [k \in 1 .. n - 1 |-> AbstractDeque[k]]
  <2>1. AbstractDeque' = [k \in 1 .. Bottom' - top' |-> ItemAt(top' + k - 1)]
    BY DEF AbstractDeque, ItemAt, Own
  <2>2. Bottom' - top' = n - 1 /\ \A k \in 1 .. n - 1 : top' + k - 1 = top + k - 1
    BY <1>1
  <2>3. \A k \in 1 .. n - 1 : k \in 1 .. n
    BY <1>1
  <2> HIDE DEF n
  <2> QED BY <1>1, <2>1, <2>2, <2>3
<1> HIDE DEF n
<1> QED BY <1>1, <1>2, <1>3, EndsOfSequence

\* A steal takes the item at the top.
LEMMA DequeLosesFirst ==
  ASSUME IInv, top < Bottom, memory' = memory, top' = top + 1, Bottom' = Bottom
  PROVE  /\ AbstractDeque # <<>>
         /\ Head(AbstractDeque) = ItemAt(top)
         /\ AbstractDeque' = Tail(AbstractDeque)
<1> DEFINE n == Bottom - top
<1>1. /\ top \in Nat /\ Bottom \in Int /\ n \in Nat /\ n # 0
      /\ AbstractDeque = [k \in 1 .. n |-> ItemAt(top + k - 1)]
      /\ AbstractDeque = [k \in 1 .. n |-> AbstractDeque[k]]
      /\ AbstractDeque # <<>>
  BY DequeFacts
<1>2. AbstractDeque[1] = ItemAt(top)
  <2>1. 1 \in 1 .. n /\ top + 1 - 1 = top
    BY <1>1
  <2> QED BY <1>1, <2>1
<1>3. AbstractDeque' = [k \in 1 .. n - 1 |-> AbstractDeque[k + 1]]
  <2>1. AbstractDeque' = [k \in 1 .. Bottom - (top + 1) |-> ItemAt(top + 1 + k - 1)]
    BY DEF AbstractDeque, ItemAt, Own
  <2>2. Bottom - (top + 1) = n - 1 /\ \A k \in 1 .. n - 1 : top + 1 + k - 1 = top + (k + 1) - 1
    BY <1>1
  <2>3. \A k \in 1 .. n - 1 : k + 1 \in 1 .. n
    BY <1>1
  <2> HIDE DEF n
  <2> QED BY <1>1, <2>1, <2>2, <2>3
<1> HIDE DEF n
<1> QED BY <1>1, <1>2, <1>3, EndsOfSequence

\* A step of one thread changes that thread's call only.
LEMMA CallMoves ==
  ASSUME TypeOK, NEW t \in Threads, NEW p, pc' = [pc EXCEPT ![t] = p],
         NEW x, item' = [item EXCEPT ![t] = x]
  PROVE  /\ pc'[t] = p /\ item'[t] = x
         /\ \A u \in Threads \ {t} : AbstractCall(u)' = AbstractCall(u)
<1>1. pc'[t] = p /\ item'[t] = x /\ \A u \in Threads \ {t} : pc'[u] = pc[u] /\ item'[u] = item[u]
  BY DEF TypeOK
<1> QED BY <1>1 DEF AbstractCall

LEMMA CallStays ==
  ASSUME TypeOK, NEW t \in Threads, NEW p, pc' = [pc EXCEPT ![t] = p], item' = item
  PROVE  /\ pc'[t] = p
         /\ \A u \in Threads \ {t} : AbstractCall(u)' = AbstractCall(u)
<1>1. item' = [item EXCEPT ![t] = item[t]]
  BY DEF TypeOK
<1> QED BY <1>1, CallMoves

LEMMA Becomes ==
  ASSUME NEW t \in Threads, NEW from, NEW to, AbstractCall(t) = from, AbstractCall(t)' = to,
         \A u \in Threads \ {t} : AbstractCall(u)' = AbstractCall(u)
  PROVE  Abstract!Becomes(t, from, to)
  BY DEF Abstract!Becomes

\* The calls and the answers of each place.
CallsAre ==
  \A t \in Threads :
    /\ pc[t] = "idle" => AbstractCall(t) = [op |-> "none"]
    /\ pc[t] \in {"push", "full", "resized", "put", "publish"} =>
         AbstractCall(t) = [op |-> "push", arg |-> item[t]]
    /\ pc[t] \in {"pop", "pop_top", "pop_last"} => AbstractCall(t) = [op |-> "pop"]
    /\ pc[t] \in {"ok", "refused"} => AbstractCall(t) = [op |-> "pushed", ret |-> pc[t]]
    /\ pc[t] \in {"popped", "restore", "stolen"} =>
         AbstractCall(t) = [op |-> "taken", ret |-> item[t]]
    /\ pc[t] \in {"steal", "steal_bottom", "steal_array", "steal_slot", "steal_cas"} =>
         AbstractCall(t) = [op |-> "steal"]

LEMMA Calls == CallsAre
<1>1. ASSUME NEW t \in Threads, pc[t] = "idle" PROVE AbstractCall(t) = [op |-> "none"]
  BY <1>1 DEF AbstractCall, PushPending
<1>2. ASSUME NEW t \in Threads, pc[t] \in {"push", "full", "resized", "put", "publish"}
      PROVE  AbstractCall(t) = [op |-> "push", arg |-> item[t]]
  BY <1>2 DEF AbstractCall, PushPending
<1>3. ASSUME NEW t \in Threads, pc[t] \in {"pop", "pop_top", "pop_last"}
      PROVE  AbstractCall(t) = [op |-> "pop"]
  BY <1>3 DEF AbstractCall, PushPending
<1>4. ASSUME NEW t \in Threads, pc[t] \in {"ok", "refused"}
      PROVE  AbstractCall(t) = [op |-> "pushed", ret |-> pc[t]]
  BY <1>4 DEF AbstractCall, PushPending
<1>5. ASSUME NEW t \in Threads, pc[t] \in {"popped", "restore", "stolen"}
      PROVE  AbstractCall(t) = [op |-> "taken", ret |-> item[t]]
  BY <1>5 DEF AbstractCall, PushPending
<1>6. ASSUME NEW t \in Threads,
             pc[t] \in {"steal", "steal_bottom", "steal_array", "steal_slot", "steal_cas"}
      PROVE  AbstractCall(t) = [op |-> "steal"]
  BY <1>6 DEF AbstractCall, PushPending
<1> QED BY <1>1, <1>2, <1>3, <1>4, <1>5, <1>6 DEF CallsAre

\* What every simulation starts from.
SimInv == IInv /\ ResizeIsWhole /\ CallsAre /\ CallsAre'

LEMMA Invisible ==
  ASSUME SimInv, SameItems, \A t \in Threads : AbstractCall(t)' = AbstractCall(t)
  PROVE  UNCHANGED Abstract!dvars
  BY SameDeque DEF SimInv, Abstract!dvars

\* The steps that change neither a call nor an item.
LEMMA QuietSteps ==
  ASSUME SimInv, NEW t \in Threads, NEW to, SameItems, pc' = [pc EXCEPT ![t] = to], item' = item,
         \/ /\ pc[t] \in {"push", "full", "resized", "put", "publish"}
            /\ to \in {"push", "full", "resized", "put", "publish"}
         \/ pc[t] \in {"pop", "pop_top", "pop_last"} /\ to \in {"pop", "pop_top", "pop_last"}
         \/ pc[t] = "restore" /\ to = "popped"
         \/ /\ pc[t] \in {"steal", "steal_bottom", "steal_array", "steal_slot", "steal_cas"}
            /\ to \in {"steal", "steal_bottom", "steal_array", "steal_slot", "steal_cas"}
  PROVE  UNCHANGED Abstract!dvars
<1>1. pc'[t] = to /\ \A u \in Threads \ {t} : AbstractCall(u)' = AbstractCall(u)
  BY CallStays DEF SimInv, IInv, Types
<1>2. AbstractCall(t)' = AbstractCall(t)
  BY <1>1 DEF SimInv, CallsAre
<1> QED BY <1>1, <1>2, Invisible

LEMMA PushSimulates ==
  ASSUME SimInv, NEW x \in Items, Push(x) PROVE Abstract!Call
<1>1. /\ Owner \in Threads /\ TypeOK /\ pc[Owner] = "idle"
      /\ pc' = [pc EXCEPT ![Owner] = "push"] /\ item' = [item EXCEPT ![Owner] = x]
  BY DEF Push, Goto, Threads, SimInv, IInv, Types
<1>2. pc'[Owner] = "push" /\ item'[Owner] = x /\ \A u \in Threads \ {Owner} : AbstractCall(u)' = AbstractCall(u)
  BY <1>1, CallMoves
<1>3. AbstractCall(Owner) = [op |-> "none"] /\ AbstractCall(Owner)' = [op |-> "push", arg |-> x]
  BY <1>1, <1>2 DEF SimInv, CallsAre
<1>4. Abstract!Becomes(Owner, [op |-> "none"], [op |-> "push", arg |-> x])
  BY <1>1, <1>2, <1>3, Becomes
<1>5. AbstractDeque' = AbstractDeque
  BY OwnerLoads, SameDeque DEF SimInv
<1> QED BY <1>4, <1>5 DEF Abstract!Call, Abstract!NoCall, Abstract!PushCall

LEMMA PopSimulates == ASSUME SimInv, Pop PROVE Abstract!Call
<1>1. /\ Owner \in Threads /\ TypeOK /\ pc[Owner] = "idle"
      /\ pc' = [pc EXCEPT ![Owner] = "pop"] /\ item' = item
  BY DEF Pop, Goto, Threads, SimInv, IInv, Types
<1>2. pc'[Owner] = "pop" /\ \A u \in Threads \ {Owner} : AbstractCall(u)' = AbstractCall(u)
  BY <1>1, CallStays
<1>3. AbstractCall(Owner) = [op |-> "none"] /\ AbstractCall(Owner)' = [op |-> "pop"]
  BY <1>1, <1>2 DEF SimInv, CallsAre
<1>4. Abstract!Becomes(Owner, [op |-> "none"], [op |-> "pop"])
  BY <1>1, <1>2, <1>3, Becomes
<1>5. AbstractDeque' = AbstractDeque
  BY PopInv, SameDeque DEF SimInv
<1> QED BY <1>4, <1>5 DEF Abstract!Call, Abstract!NoCall, Abstract!PopCall

LEMMA StealSimulates == ASSUME SimInv, NEW t \in Thieves, Steal(t) PROVE Abstract!Call
<1>1. /\ t \in Threads /\ TypeOK /\ pc[t] = "idle"
      /\ pc' = [pc EXCEPT ![t] = "steal"] /\ item' = item
  BY DEF Steal, Goto, Threads, locals, SimInv, IInv, Types
<1>2. pc'[t] = "steal" /\ \A u \in Threads \ {t} : AbstractCall(u)' = AbstractCall(u)
  BY <1>1, CallStays
<1>3. AbstractCall(t) = [op |-> "none"] /\ AbstractCall(t)' = [op |-> "steal"]
  BY <1>1, <1>2 DEF SimInv, CallsAre
<1>4. Abstract!Becomes(t, [op |-> "none"], [op |-> "steal"])
  BY <1>1, <1>2, <1>3, Becomes
<1>5. AbstractDeque' = AbstractDeque
  BY ThiefLoads, SameDeque DEF SimInv
<1> QED BY <1>4, <1>5 DEF Abstract!Call, Abstract!NoCall, Abstract!StealCall

LEMMA PushRefusedSimulates ==
  ASSUME SimInv, PushRefused \/ PushGarbageFails PROVE Abstract!Refuse
<1>1. /\ Owner \in Threads /\ TypeOK /\ pc[Owner] \in {"full", "resized"}
      /\ pc' = [pc EXCEPT ![Owner] = "refused"] /\ item' = item /\ item[Owner] \in Items
  BY DEF PushRefused, PushGarbageFails, Goto, Threads, locals, SimInv, IInv, Types, TypeOK, OwnerInv
<1>2. pc'[Owner] = "refused" /\ \A u \in Threads \ {Owner} : AbstractCall(u)' = AbstractCall(u)
  BY <1>1, CallStays
<1>3. /\ AbstractCall(Owner) = [op |-> "push", arg |-> item[Owner]]
      /\ AbstractCall(Owner)' = [op |-> "pushed", ret |-> "refused"]
  BY <1>1, <1>2 DEF SimInv, CallsAre
<1>4. Abstract!Becomes(Owner, [op |-> "push", arg |-> item[Owner]], [op |-> "pushed", ret |-> "refused"])
  BY <1>1, <1>2, <1>3, Becomes
<1>5. AbstractDeque' = AbstractDeque
  BY OwnerLoads, SameDeque DEF SimInv
<1> QED BY <1>1, <1>4, <1>5 DEF Abstract!Refuse, Abstract!PushCall, Abstract!Pushed

\* The store of the bottom is where a push takes effect.
LEMMA PushPublishSimulates == ASSUME SimInv, PushPublish PROVE Abstract!Push
<1> DEFINE b == b_[Owner]
           m == StoreBottom(Own, b + 1)
<1>1. /\ Owner \in Threads /\ TypeOK /\ pc[Owner] = "publish" /\ Store(m) /\ top' = top
      /\ pc' = [pc EXCEPT ![Owner] = "ok"] /\ item' = item /\ b_' = b_ /\ item[Owner] \in Items
      /\ b = Own.bottom /\ Slot(Own, array(Own), b) = item[Owner] /\ b \in Int /\ IInv /\ Types
      /\ array(Own) \in Nat \ {0}
  BY MemoryFacts DEF PushPublish, Goto, Threads, locals, SimInv, IInv, Types, TypeOK, OwnerInv
<1>2. pc'[Owner] = "ok" /\ \A u \in Threads \ {Owner} : AbstractCall(u)' = AbstractCall(u)
  BY <1>1, CallStays
<1>3. /\ AbstractCall(Owner) = [op |-> "push", arg |-> item[Owner]]
      /\ AbstractCall(Owner)' = [op |-> "pushed", ret |-> "ok"]
  BY <1>1, <1>2 DEF SimInv, CallsAre
<1>4. Abstract!Becomes(Owner, [op |-> "push", arg |-> item[Owner]], [op |-> "pushed", ret |-> "ok"])
  BY <1>1, <1>2, <1>3, Becomes
<1>5. /\ m \in Memories /\ m.bottom = b + 1 /\ array(m) = array(Own)
      /\ \A d, i : Slot(m, d, i) = Slot(Own, d, i)
  BY <1>1, BottomStoreKeeps
<1> HIDE DEF m
<1>6. Own' = m
  <2>1. array(m) >= 1
    BY <1>1, <1>5
  <2> QED BY <1>1, <1>5, <2>1, Stored
<1>7. Bottom = b /\ Bottom' = b + 1
  BY <1>1, <1>2, <1>5, <1>6 DEF Bottom, Undecided
<1>8. /\ \A i \in top .. Bottom - 1 : Slot(Own', array(Own'), i) = ItemAt(i)
      /\ Slot(Own', array(Own'), Bottom) = item[Owner]
  BY <1>1, <1>5, <1>6, <1>7 DEF ItemAt
<1>9. AbstractDeque' = Append(AbstractDeque, item[Owner])
  BY <1>1, <1>7, <1>8, DequeGrows
<1> QED BY <1>1, <1>4, <1>9 DEF Abstract!Push, Abstract!PushCall, Abstract!Pushed

\* A pop that finds more than one item takes effect at its load of the top, and so
\* does one that finds none.
LEMMA PopLoadTopSimulates == ASSUME SimInv, PopLoadTop PROVE [Abstract!Next]_(Abstract!dvars)
<1> DEFINE b == b_[Owner]
           to == IF top < b THEN "popped" ELSE IF top = b THEN "pop_last" ELSE "restore"
           x == IF top <= b THEN Slot(Own, arr[Owner], b) ELSE NULL
<1>1. /\ Owner \in Threads /\ TypeOK /\ pc[Owner] = "pop_top" /\ memory' = memory /\ top' = top
      /\ pc' = [pc EXCEPT ![Owner] = to] /\ item' = [item EXCEPT ![Owner] = x] /\ b_' = b_
      /\ b = Own.bottom /\ arr[Owner] = array(Own) /\ b \in Int /\ top \in Nat /\ IInv
      /\ Own' = Own
  BY MemoryFacts DEF PopLoadTop, Goto, Threads, shared, Own, SimInv, IInv, Types, TypeOK, OwnerInv
<1>2. /\ pc'[Owner] = to /\ item'[Owner] = x
      /\ \A u \in Threads \ {Owner} : AbstractCall(u)' = AbstractCall(u)
  BY <1>1, CallMoves
<1>3. AbstractCall(Owner) = [op |-> "pop"] /\ Bottom = b + 1
  BY <1>1 DEF SimInv, CallsAre, Bottom, Undecided
<1>4. CASE top < b
  <2>1. to = "popped" /\ x = ItemAt(Bottom - 1)
    BY <1>1, <1>3, <1>4 DEF ItemAt
  <2>2. Bottom' = Bottom - 1
    BY <1>1, <1>2, <1>3, <2>1 DEF Bottom, Undecided
  <2>3. AbstractCall(Owner)' = [op |-> "taken", ret |-> x]
    BY <1>1, <1>2, <2>1 DEF SimInv, CallsAre
  <2>4. Abstract!Becomes(Owner, [op |-> "pop"], [op |-> "taken", ret |-> x])
    BY <1>1, <1>2, <1>3, <2>3, Becomes
  <2>5. /\ AbstractDeque # <<>> /\ AbstractDeque[Len(AbstractDeque)] = x
        /\ AbstractDeque' = SubSeq(AbstractDeque, 1, Len(AbstractDeque) - 1)
    <3>1. top < Bottom
      BY <1>1, <1>3, <1>4
    <3> QED BY <1>1, <2>1, <2>2, <3>1, DequeLosesLast
  <2>6. Abstract!Pop
    BY <2>4, <2>5 DEF Abstract!Pop, Abstract!PopCall, Abstract!Taken
  <2> QED BY <2>6 DEF Abstract!Next
<1>5. CASE ~(top < b)
  <2>1. to \in {"pop_last", "restore"}
    BY <1>1, <1>5
  <2>2. Bottom' = Bottom
    BY <1>1, <1>2, <1>3, <2>1 DEF Bottom, Undecided
  <2>3. SameItems
    BY <1>1, <2>2 DEF SameItems
  <2>4. CASE top = b
    <3>1. AbstractCall(Owner)' = AbstractCall(Owner)
      <4>1. to = "pop_last"
        BY <1>1, <2>4
      <4> QED BY <1>1, <1>2, <1>3, <4>1 DEF SimInv, CallsAre
    <3> QED BY <1>2, <2>3, <3>1, Invisible
  <2>5. CASE top # b
    <3>1. to = "restore" /\ x = NULL
      BY <1>1, <1>5, <2>5
    <3>2. AbstractCall(Owner)' = [op |-> "taken", ret |-> NULL]
      BY <1>1, <1>2, <3>1 DEF SimInv, CallsAre
    <3>3. Abstract!Becomes(Owner, [op |-> "pop"], [op |-> "taken", ret |-> NULL])
      BY <1>1, <1>2, <1>3, <3>2, Becomes
    <3>4. AbstractDeque = <<>>
      <4>1. top = Bottom
        BY <1>1, <1>3, <1>5, <2>5 DEF IInv, Window
      <4> QED BY <1>1, <4>1, DequeFacts
    <3>5. AbstractDeque' = AbstractDeque
      BY <1>1, <2>3, SameDeque
    <3>6. Abstract!PopNothing
      BY <3>3, <3>4, <3>5 DEF Abstract!PopNothing, Abstract!PopCall, Abstract!Taken
    <3> QED BY <3>6 DEF Abstract!Next
  <2> QED BY <2>4, <2>5
<1> QED BY <1>4, <1>5

\* A pop of the last item takes effect at its exchange of the top, whether it wins
\* against the thieves or not.
LEMMA PopLastSimulates == ASSUME SimInv, PopLast PROVE Abstract!Next
<1> DEFINE b == b_[Owner]
           x == IF top = b THEN item[Owner] ELSE NULL
<1>1. /\ Owner \in Threads /\ TypeOK /\ pc[Owner] = "pop_last" /\ memory' = memory
      /\ pc' = [pc EXCEPT ![Owner] = "restore"] /\ b_' = b_ /\ t_[Owner] = b /\ b <= top
      /\ b = Own.bottom /\ item[Owner] = ItemAt(b) /\ b \in Int /\ top \in Nat /\ IInv /\ Own' = Own
  BY MemoryFacts DEF PopLast, Goto, Threads, Own, ItemAt, SimInv, IInv, Types, TypeOK, OwnerInv
<1>2. item' = [item EXCEPT ![Owner] = x] /\ top' = IF top = b THEN top + 1 ELSE top
  BY <1>1 DEF PopLast, TypeOK
<1>3. /\ pc'[Owner] = "restore" /\ item'[Owner] = x
      /\ \A u \in Threads \ {Owner} : AbstractCall(u)' = AbstractCall(u)
  BY <1>1, <1>2, CallMoves
<1>4. /\ AbstractCall(Owner) = [op |-> "pop"] /\ AbstractCall(Owner)' = [op |-> "taken", ret |-> x]
      /\ Bottom = b + 1 /\ Bottom' = b + 1
  BY <1>1, <1>3 DEF SimInv, CallsAre, Bottom, Undecided
<1>5. Abstract!Becomes(Owner, [op |-> "pop"], [op |-> "taken", ret |-> x])
  BY <1>1, <1>3, <1>4, Becomes
<1>6. CASE top = b
  <2>1. x = ItemAt(Bottom - 1) /\ top' = top + 1 /\ Bottom = top + 1 /\ top < Bottom /\ Bottom' = Bottom
    BY <1>1, <1>2, <1>4, <1>6
  <2>2. /\ AbstractDeque # <<>> /\ AbstractDeque[Len(AbstractDeque)] = x
        /\ AbstractDeque' = SubSeq(AbstractDeque, 1, Len(AbstractDeque) - 1)
    BY <1>1, <2>1, DequeLosesLast
  <2>3. Abstract!Pop
    BY <1>5, <2>2 DEF Abstract!Pop, Abstract!PopCall, Abstract!Taken
  <2> QED BY <2>3 DEF Abstract!Next
<1>7. CASE top # b
  <2>1. AbstractDeque = <<>>
    <3>1. top = Bottom
      BY <1>1, <1>4, <1>7 DEF IInv, Window
    <3> QED BY <1>1, <3>1, DequeFacts
  <2>2. AbstractDeque' = AbstractDeque
    <3>1. SameItems
      BY <1>1, <1>2, <1>4, <1>7 DEF SameItems
    <3> QED BY <1>1, <3>1, SameDeque
  <2>3. x = NULL
    BY <1>7
  <2>4. Abstract!PopNothing
    BY <1>5, <2>1, <2>2, <2>3 DEF Abstract!PopNothing, Abstract!PopCall, Abstract!Taken
  <2> QED BY <2>4 DEF Abstract!Next
<1> QED BY <1>6, <1>7

\* A thief that finds the deque empty gives up.
LEMMA StealLoadBottomSimulates ==
  ASSUME SimInv, NEW t \in Thieves, StealLoadBottom(t) PROVE [Abstract!Next]_(Abstract!dvars)
<1> DEFINE to == IF t_[t] < Visible.bottom THEN "steal_array" ELSE "stolen"
<1>1. /\ t \in Threads /\ TypeOK /\ pc[t] = "steal_bottom" /\ IInv
      /\ pc' = [pc EXCEPT ![t] = to] /\ item' = item /\ item[t] = NULL /\ SameItems
  BY ThiefLoads DEF StealLoadBottom, Goto, Threads, locals, SimInv, IInv, Types, ThiefInv
<1>2. CASE to = "steal_array"
  BY <1>1, <1>2, QuietSteps
<1>3. CASE to = "stolen"
  <2>1. pc'[t] = "stolen" /\ \A u \in Threads \ {t} : AbstractCall(u)' = AbstractCall(u)
    BY <1>1, <1>3, CallStays
  <2>2. AbstractCall(t) = [op |-> "steal"] /\ AbstractCall(t)' = [op |-> "taken", ret |-> NULL]
    BY <1>1, <2>1 DEF SimInv, CallsAre
  <2>3. Abstract!Becomes(t, [op |-> "steal"], [op |-> "taken", ret |-> NULL])
    BY <1>1, <2>1, <2>2, Becomes
  <2>4. Abstract!GiveUp(t)
    BY <1>1, <2>3, SameDeque DEF Abstract!GiveUp, Abstract!StealCall, Abstract!Taken
  <2> QED BY <2>4 DEF Abstract!Next
<1> QED BY <1>2, <1>3

\* A steal takes effect at its exchange of the top, if nobody was faster.
LEMMA StealCasSimulates ==
  ASSUME SimInv, NEW t \in Thieves, StealCas(t) PROVE Abstract!Next
<1> DEFINE x == IF top = t_[t] THEN item[t] ELSE NULL
<1>1. /\ t \in Threads /\ t # Owner /\ Owner \in Threads /\ TypeOK /\ pc[t] = "steal_cas"
      /\ memory' = memory /\ pc' = [pc EXCEPT ![t] = "stolen"] /\ UNCHANGED <<t_, b_, arr>>
      /\ Own' = Own /\ IInv /\ ThiefInv(t) /\ top \in Nat
  BY DEF StealCas, Goto, Threads, Own, SimInv, IInv, Types, TypeOK
<1>2. item' = [item EXCEPT ![t] = x] /\ top' = IF top = t_[t] THEN top + 1 ELSE top
  BY <1>1 DEF StealCas, TypeOK
<1>3. /\ pc'[t] = "stolen" /\ item'[t] = x /\ pc'[Owner] = pc[Owner]
      /\ \A u \in Threads \ {t} : AbstractCall(u)' = AbstractCall(u)
  <2>1. pc'[Owner] = pc[Owner]
    BY <1>1 DEF TypeOK
  <2> QED BY <1>1, <1>2, <2>1, CallMoves
<1>4. AbstractCall(t) = [op |-> "steal"] /\ AbstractCall(t)' = [op |-> "taken", ret |-> x]
  BY <1>1, <1>3 DEF SimInv, CallsAre
<1>5. Abstract!Becomes(t, [op |-> "steal"], [op |-> "taken", ret |-> x])
  BY <1>1, <1>3, <1>4, Becomes
<1>6. Bottom' = Bottom
  BY <1>1, <1>3 DEF Bottom, Undecided
<1>7. CASE top = t_[t]
  <2>1. top < Bottom /\ x = ItemAt(top) /\ top' = top + 1
    BY <1>1, <1>2, <1>7 DEF ThiefInv, Decided, ItemAt
  <2>2. /\ AbstractDeque # <<>> /\ Head(AbstractDeque) = x
        /\ AbstractDeque' = Tail(AbstractDeque)
    BY <1>1, <1>6, <2>1, DequeLosesFirst
  <2>3. Abstract!Steal(t)
    BY <1>5, <2>2 DEF Abstract!Steal, Abstract!StealCall, Abstract!Taken
  <2> QED BY <2>3 DEF Abstract!Next
<1>8. CASE top # t_[t]
  <2>1. SameItems /\ x = NULL
    BY <1>1, <1>2, <1>6, <1>8 DEF SameItems
  <2>2. AbstractDeque' = AbstractDeque
    BY <1>1, <2>1, SameDeque
  <2>3. Abstract!GiveUp(t)
    BY <1>5, <2>1, <2>2 DEF Abstract!GiveUp, Abstract!StealCall, Abstract!Taken
  <2> QED BY <2>3 DEF Abstract!Next
<1> QED BY <1>7, <1>8

LEMMA ReturnSimulates == ASSUME SimInv, NEW t \in Threads, Return(t) PROVE Abstract!Return(t)
<1>1. /\ TypeOK /\ pc[t] \in {"ok", "refused", "popped", "stolen"}
      /\ pc' = [pc EXCEPT ![t] = "idle"] /\ item' = [item EXCEPT ![t] = NULL]
  BY DEF Return, Goto, SimInv, IInv, Types
<1>2. pc'[t] = "idle" /\ \A u \in Threads \ {t} : AbstractCall(u)' = AbstractCall(u)
  BY <1>1, CallMoves
<1>3. AbstractCall(t).op \in {"pushed", "taken"} /\ AbstractCall(t)' = [op |-> "none"]
  BY <1>1, <1>2 DEF SimInv, CallsAre
<1>4. AbstractDeque' = AbstractDeque
  BY ReturnInv, SameDeque DEF SimInv
<1> QED BY <1>2, <1>3, <1>4 DEF Abstract!Return, Abstract!NoCall

\* The steps that the abstract deque does not see.
LEMMA HiddenSteps ==
  ASSUME SimInv,
         \/ PushLoad \/ PushResize \/ PushGrow \/ PushPut \/ PopFence \/ PopRestore \/ Flush
         \/ \E t \in Thieves : StealLoadTop(t) \/ StealLoadArray(t)
  PROVE  UNCHANGED Abstract!dvars
<1>1. /\ IInv /\ TypeOK /\ Owner \in Threads /\ \A t \in Thieves : t \in Threads
  BY DEF SimInv, IInv, Types, Threads
<1>2. CASE PushLoad
  <2>1. SameItems
    BY <1>1, <1>2, OwnerLoads
  <2> QED BY <1>1, <1>2, <2>1, QuietSteps DEF PushLoad, Goto
<1>3. CASE PushGrow
  <2>1. SameItems
    BY <1>3, PushGrowInv DEF SimInv
  <2> QED BY <1>1, <1>3, <2>1, QuietSteps DEF PushGrow, Goto
<1>4. CASE PushPut
  <2>1. SameItems
    BY <1>1, <1>4, PushPutInv
  <2> QED BY <1>1, <1>4, <2>1, QuietSteps DEF PushPut, Goto, locals
<1>5. CASE PopFence
  <2>1. SameItems
    BY <1>1, <1>5, OwnerLoads
  <2> QED BY <1>1, <1>5, <2>1, QuietSteps DEF PopFence, Goto, locals
<1>6. CASE PopRestore
  <2>1. SameItems
    BY <1>1, <1>6, PopRestoreInv
  <2> QED BY <1>1, <1>6, <2>1, QuietSteps DEF PopRestore, Goto, locals
<1>7. CASE Flush
  <2>1. SameItems
    BY <1>1, <1>7, FlushInv
  <2>2. \A t \in Threads : AbstractCall(t)' = AbstractCall(t)
    BY <1>7 DEF Flush, locals, AbstractCall
  <2> QED BY <2>1, <2>2, Invisible
<1>8. ASSUME NEW t \in Thieves, StealLoadTop(t) PROVE UNCHANGED Abstract!dvars
  <2>1. SameItems
    BY <1>1, <1>8, ThiefLoads
  <2> QED BY <1>1, <1>8, <2>1, QuietSteps DEF StealLoadTop, Goto
<1>9. ASSUME NEW t \in Thieves, StealLoadArray(t) PROVE UNCHANGED Abstract!dvars
  <2>1. SameItems
    BY <1>1, <1>9, ThiefLoads
  <2> QED BY <1>1, <1>9, <2>1, QuietSteps DEF StealLoadArray, Goto
<1>10. CASE PushResize
  <2>1. SameItems
    BY <1>1, <1>10, OwnerLoads
  <2> QED BY <1>1, <1>10, <2>1, QuietSteps DEF PushResize, Goto, locals
<1> QED BY <1>2, <1>3, <1>4, <1>5, <1>6, <1>7, <1>8, <1>9, <1>10

LEMMA StealLoadSlotIsHidden ==
  ASSUME SimInv, NEW t \in Thieves, StealLoadSlot(t) PROVE UNCHANGED Abstract!dvars
<1>1. /\ TypeOK /\ t \in Threads /\ pc[t] = "steal_slot" /\ pc' = [pc EXCEPT ![t] = "steal_cas"]
      /\ item' = [item EXCEPT ![t] = Slot(Visible, arr[t], t_[t])] /\ SameItems
  BY ThiefLoads DEF StealLoadSlot, Goto, SimInv, IInv, Types, Threads
<1>2. pc'[t] = "steal_cas" /\ \A u \in Threads \ {t} : AbstractCall(u)' = AbstractCall(u)
  BY <1>1, CallMoves
<1>3. AbstractCall(t)' = AbstractCall(t)
  BY <1>1, <1>2 DEF SimInv, CallsAre
<1> QED BY <1>1, <1>2, <1>3, Invisible

\* Every step of the queue is one of the abstract deque or invisible to it.
LEMMA StepSimulation ==
  IInv /\ ResizeIsWhole /\ CallsAre /\ CallsAre' /\ [Next]_vars => [Abstract!Next]_(Abstract!dvars)
<1> SUFFICES ASSUME SimInv, [Next]_vars PROVE [Abstract!Next]_(Abstract!dvars)
  BY DEF SimInv
<1>1. CASE UNCHANGED vars
  <2>1. SameItems /\ \A t \in Threads : AbstractCall(t)' = AbstractCall(t)
    BY <1>1 DEF vars, shared, locals, SameItems, Bottom, Undecided, Own, AbstractCall
  <2> QED BY <2>1, Invisible
<1>2. CASE OwnerStep
  <2>1. ASSUME NEW x \in Items, Push(x) PROVE Abstract!Next
    BY <2>1, PushSimulates DEF Abstract!Next
  <2>2. CASE PushRefused \/ PushGarbageFails
    BY <2>2, PushRefusedSimulates DEF Abstract!Next
  <2>3. CASE PushPublish
    BY <2>3, PushPublishSimulates DEF Abstract!Next
  <2>4. CASE Pop
    BY <2>4, PopSimulates DEF Abstract!Next
  <2> QED BY <1>2, <2>1, <2>2, <2>3, <2>4, PopLoadTopSimulates, PopLastSimulates, HiddenSteps
          DEF OwnerStep
<1>3. CASE Flush
  BY <1>3, HiddenSteps
<1>4. ASSUME NEW t \in Thieves, ThiefStep(t) PROVE [Abstract!Next]_(Abstract!dvars)
  <2>1. CASE Steal(t)
    BY <2>1, StealSimulates DEF Abstract!Next
  <2> QED BY <1>4, <2>1, StealLoadBottomSimulates, StealCasSimulates, StealLoadSlotIsHidden, HiddenSteps
          DEF ThiefStep
<1>5. ASSUME NEW t \in Threads, Return(t) PROVE Abstract!Next
  BY <1>5, ReturnSimulates DEF Abstract!Next, Threads
<1> QED BY <1>1, <1>2, <1>3, <1>4, <1>5 DEF Next

\* Whatever grows and whoever races for the last item, each push, pop and steal
\* takes effect at one instant of its call: every item goes to one thread, and a pop
\* comes back empty only from an empty deque.  For any number of thieves and items,
\* any capacity, and any delay of the owner's stores but those a fence waits for.
THEOREM Linearizable == Spec => ImplementsWorkStealingDeque
<1>1. Init => Abstract!Init
  <2> SUFFICES ASSUME Init PROVE Abstract!Init
    OBVIOUS
  <2>1. IInv /\ CallsAre
    BY InitInv, Calls
  <2>2. top = 0 /\ Bottom = 0
    BY <2>1 DEF Init, Bottom, Undecided, Own, Threads
  <2>3. AbstractDeque = <<>>
    BY <2>1, <2>2, DequeFacts
  <2>4. \A t \in Threads : AbstractCall(t) = [op |-> "none"]
    BY <2>1 DEF Init, CallsAre
  <2> QED BY <2>3, <2>4 DEF Abstract!Init, Abstract!NoCall, Threads
<1> QED BY <1>1, Invariant, Calls, StepSimulation, PTL
        DEF Spec, ImplementsWorkStealingDeque, Abstract!Spec
=============================================================================
