------------------------------- MODULE WsQueue -------------------------------
(***************************************************************************)
(* The Chase-Lev work-stealing deque of chiba/concurrency/dequeue.h: one   *)
(* owner pushes and pops, any thread steals.                               *)
(*                                                                         *)
(* What makes this code hard is the order in which the owner's stores      *)
(* become visible, so memory is not sequentially consistent here: the      *)
(* owner's plain atomic stores wait in a first-in first-out store buffer   *)
(* (the x86 order), its loads see them at once, and a seq_cst fence or a   *)
(* compare-exchange waits until the buffer is empty.  Thieves store by     *)
(* compare-exchange only.                                                  *)
(***************************************************************************)
EXTENDS Integers, Sequences

CONSTANTS
  Owner, Thieves,    \* the threads
  Items,             \* the pointers; each is pushed at most once
  NULL,
  InitialCapacity,   \* the capacity chiba_wsqueue_new is given
  GarbageCapacity    \* the old arrays chiba_wsqueue_new makes room for: 32

ASSUME ThreadsAssumption == Owner \notin Thieves
ASSUME NullAssumption == NULL \notin Items
ASSUME CapacityAssumption == InitialCapacity \in Nat \ {0}
ASSUME GarbageAssumption == GarbageCapacity \in Nat \ {0}

VARIABLES
  top,      \* queue->top
  memory,   \* the memories the owner's stores lead through, the oldest first:
            \* the thieves see the first, the owner sees the last, and a store
            \* between two of them waits in the buffer.  In each, bottom is
            \* queue->bottom and arrays is queue->garbage, then queue->array
  pushed,   \* the items push was called with
  pc,       \* where each thread is in its call, "idle" outside of one
  t_, b_,   \* the locals t and b
  arr,      \* the local arr
  item,     \* the item in hand, then the answer
  new_arr,  \* push's local new_arr; NULL when there is none
  garbage_capacity  \* queue->garbage_capacity

shared == <<top, memory>>
locals == <<t_, b_, arr, item>>
growth == <<new_arr, garbage_capacity>>
vars   == <<shared, pushed, pc, locals, growth>>

Threads == {Owner} \cup Thieves

\* chiba_wsqarray_new
NewArray(c) == [capacity |-> c, S |-> [i \in 0 .. c - 1 |-> NULL]]

\* chiba_wsqueue_new
Init ==
  /\ top = 0
  /\ memory = <<[bottom |-> 0, arrays |-> <<NewArray(InitialCapacity)>>]>>
  /\ pushed = {}
  /\ pc = [t \in Threads |-> "idle"]
  /\ t_ = [t \in Threads |-> 0]
  /\ b_ = [t \in Threads |-> 0]
  /\ arr = [t \in Threads |-> 1]
  /\ item = [t \in Threads |-> NULL]
  /\ new_arr = NULL
  /\ garbage_capacity = GarbageCapacity

Visible == memory[1]
Own == memory[Len(memory)]

\* queue->array
array(m) == Len(m.arrays)

\* chiba_wsqarray_pop: the slot of index i in array a.
Slot(m, a, i) == m.arrays[a].S[i % m.arrays[a].capacity]

\* chiba_wsqarray_push
StoreSlot(m, a, i, x) == [m EXCEPT !.arrays[a].S[i % m.arrays[a].capacity] = x]

StoreBottom(m, b) == [m EXCEPT !.bottom = b]

\* A store of the owner, and the oldest store in the buffer becoming visible.
Store(m) == memory' = Append(memory, m)

AllVisible == Len(memory) = 1

Flush ==
  /\ ~AllVisible
  /\ memory' = Tail(memory)
  /\ UNCHANGED <<top, pushed, pc, locals, growth>>

Goto(t, from, to) == pc[t] = from /\ pc' = [pc EXCEPT ![t] = to]

-----------------------------------------------------------------------------
(* chiba_wsqueue_push                                                      *)

Push(x) ==
  /\ x \notin pushed
  /\ Goto(Owner, "idle", "push")
  /\ pushed' = pushed \cup {x}
  /\ item' = [item EXCEPT ![Owner] = x]
  /\ UNCHANGED <<shared, t_, b_, arr, growth>>

\* A plausible mistake: full is found out one item late.
IsFullLate(a, b, t) == a.capacity < b - t

IsFull(a, b, t) == a.capacity - 1 < b - t

PushLoad ==
  /\ Goto(Owner, "push", IF IsFull(Own.arrays[array(Own)], Own.bottom, top) THEN "full" ELSE "put")
  /\ b_' = [b_ EXCEPT ![Owner] = Own.bottom]
  /\ t_' = [t_ EXCEPT ![Owner] = top]
  /\ arr' = [arr EXCEPT ![Owner] = array(Own)]
  /\ UNCHANGED <<shared, pushed, item, growth>>

\* resize_if_full is false, or an allocation of chiba_wsqarray_resize fails.
PushRefused ==
  /\ Goto(Owner, "full", "refused")
  /\ UNCHANGED <<shared, pushed, locals, growth>>

\* A plausible mistake: the items keep their place in the array, not their index.
ResizeMoves(a, b, t) ==
  [capacity |-> 2 * a.capacity,
   S |-> [j \in 0 .. 2 * a.capacity - 1 |-> IF j < a.capacity THEN a.S[j] ELSE NULL]]

\* chiba_wsqarray_resize: the items t .. b - 1 of a, in twice the room.
Resize(a, b, t) ==
  LET Here(j) == {i \in t .. b - 1 : i % (2 * a.capacity) = j} IN
  [capacity |-> 2 * a.capacity,
   S |-> [j \in 0 .. 2 * a.capacity - 1 |->
            IF Here(j) = {} THEN NULL ELSE a.S[(CHOOSE i \in Here(j) : TRUE) % a.capacity]]]

\* The new array is filled before any other thread can know of it.
PushResize ==
  /\ Goto(Owner, "full", "resized")
  /\ new_arr' = Resize(Own.arrays[arr[Owner]], b_[Owner], t_[Owner])
  /\ UNCHANGED <<shared, pushed, locals, garbage_capacity>>

\* garbage_count >= garbage_capacity: all arrays but the last are garbage.
GarbageIsFull == array(Own) - 1 >= garbage_capacity

\* The garbage cannot be enlarged: the new array is dropped again.
PushGarbageFails ==
  /\ GarbageIsFull
  /\ Goto(Owner, "resized", "refused")
  /\ new_arr' = NULL
  /\ UNCHANGED <<shared, pushed, locals, garbage_capacity>>

\* The array that is replaced stays: the garbage is freed with the queue.
PushGrow ==
  /\ Goto(Owner, "resized", "put")
  /\ garbage_capacity' = IF GarbageIsFull THEN 2 * garbage_capacity ELSE garbage_capacity
  /\ Store([Own EXCEPT !.arrays = Append(@, new_arr)])
  /\ arr' = [arr EXCEPT ![Owner] = array(Own) + 1]
  /\ new_arr' = NULL
  /\ UNCHANGED <<top, pushed, t_, b_, item>>

PushPut ==
  /\ Goto(Owner, "put", "publish")
  /\ Store(StoreSlot(Own, arr[Owner], b_[Owner], item[Owner]))
  /\ UNCHANGED <<top, pushed, locals, growth>>

PushPublish ==
  /\ Goto(Owner, "publish", "ok")
  /\ Store(StoreBottom(Own, b_[Owner] + 1))
  /\ UNCHANGED <<top, pushed, locals, growth>>

-----------------------------------------------------------------------------
(* chiba_wsqueue_pop                                                       *)

Pop ==
  /\ Goto(Owner, "idle", "pop")
  /\ b_' = [b_ EXCEPT ![Owner] = Own.bottom - 1]
  /\ arr' = [arr EXCEPT ![Owner] = array(Own)]
  /\ Store(StoreBottom(Own, Own.bottom - 1))
  /\ UNCHANGED <<top, pushed, t_, item, growth>>

\* A plausible mistake: the fence is left out.
Unfenced == Goto(Owner, "pop", "pop_top") /\ UNCHANGED <<shared, pushed, locals, growth>>

PopFence ==
  /\ AllVisible
  /\ Goto(Owner, "pop", "pop_top")
  /\ UNCHANGED <<shared, pushed, locals, growth>>

\* More than one item left, one, or none.
PopLoadTop ==
  LET b == b_[Owner] IN
  /\ Goto(Owner, "pop_top", IF top < b THEN "popped" ELSE IF top = b THEN "pop_last" ELSE "restore")
  /\ t_' = [t_ EXCEPT ![Owner] = top]
  /\ item' = [item EXCEPT ![Owner] = IF top <= b THEN Slot(Own, arr[Owner], b) ELSE NULL]
  /\ UNCHANGED <<shared, pushed, b_, arr, growth>>

PopLast ==
  /\ AllVisible
  /\ Goto(Owner, "pop_last", "restore")
  /\ IF top = t_[Owner]
       THEN top' = t_[Owner] + 1 /\ UNCHANGED item
       ELSE item' = [item EXCEPT ![Owner] = NULL] /\ UNCHANGED top
  /\ UNCHANGED <<memory, pushed, t_, b_, arr, growth>>

PopRestore ==
  /\ Goto(Owner, "restore", "popped")
  /\ Store(StoreBottom(Own, b_[Owner] + 1))
  /\ UNCHANGED <<top, pushed, locals, growth>>

-----------------------------------------------------------------------------
(* chiba_wsqueue_steal                                                     *)

Steal(t) ==
  /\ Goto(t, "idle", "steal")
  /\ UNCHANGED <<shared, pushed, locals, growth>>

StealLoadTop(t) ==
  /\ Goto(t, "steal", "steal_bottom")
  /\ t_' = [t_ EXCEPT ![t] = top]
  /\ UNCHANGED <<shared, pushed, b_, arr, item, growth>>

StealLoadBottom(t) ==
  /\ Goto(t, "steal_bottom", IF t_[t] < Visible.bottom THEN "steal_array" ELSE "stolen")
  /\ UNCHANGED <<shared, pushed, locals, growth>>

StealLoadArray(t) ==
  /\ Goto(t, "steal_array", "steal_slot")
  /\ arr' = [arr EXCEPT ![t] = array(Visible)]
  /\ UNCHANGED <<shared, pushed, t_, b_, item, growth>>

StealLoadSlot(t) ==
  /\ Goto(t, "steal_slot", "steal_cas")
  /\ item' = [item EXCEPT ![t] = Slot(Visible, arr[t], t_[t])]
  /\ UNCHANGED <<shared, pushed, t_, b_, arr, growth>>

StealCas(t) ==
  /\ Goto(t, "steal_cas", "stolen")
  /\ IF top = t_[t]
       THEN top' = t_[t] + 1 /\ UNCHANGED item
       ELSE item' = [item EXCEPT ![t] = NULL] /\ UNCHANGED top
  /\ UNCHANGED <<memory, pushed, t_, b_, arr, growth>>

\* The call returns; its locals are gone.
Return(t) ==
  /\ \E from \in {"ok", "refused", "popped", "stolen"} : Goto(t, from, "idle")
  /\ t_' = [t_ EXCEPT ![t] = 0]
  /\ b_' = [b_ EXCEPT ![t] = 0]
  /\ arr' = [arr EXCEPT ![t] = 1]
  /\ item' = [item EXCEPT ![t] = NULL]
  /\ UNCHANGED <<shared, pushed, growth>>

-----------------------------------------------------------------------------
OwnerStep ==
  \/ \E x \in Items : Push(x)
  \/ PushLoad \/ PushRefused \/ PushResize \/ PushGarbageFails \/ PushGrow
  \/ PushPut \/ PushPublish
  \/ Pop \/ PopFence \/ PopLoadTop \/ PopLast \/ PopRestore

ThiefStep(t) ==
  \/ Steal(t) \/ StealLoadTop(t) \/ StealLoadBottom(t)
  \/ StealLoadArray(t) \/ StealLoadSlot(t) \/ StealCas(t)

Next ==
  \/ OwnerStep
  \/ Flush
  \/ \E t \in Thieves : ThiefStep(t)
  \/ \E t \in Threads : Return(t)

Spec == Init /\ [][Next]_vars

-----------------------------------------------------------------------------
(* Properties.                                                             *)

IsArray(a) == a.capacity \in Nat \ {0} /\ a.S \in [0 .. a.capacity - 1 -> Items \cup {NULL}]

\* The type invariant of the queue and of the calls' locals.
TypeOK ==
  /\ top \in Nat
  /\ memory # <<>>
  /\ \A k \in DOMAIN memory :
       /\ memory[k].bottom \in Int
       /\ memory[k].arrays # <<>>
       /\ \A a \in DOMAIN memory[k].arrays : IsArray(memory[k].arrays[a])
  /\ pushed \subseteq Items
  /\ pc \in [Threads -> {"idle", "push", "full", "resized", "put", "publish", "ok", "refused",
                         "pop", "pop_top", "pop_last", "restore", "popped",
                         "steal", "steal_bottom", "steal_array", "steal_slot",
                         "steal_cas", "stolen"}]
  /\ t_ \in [Threads -> Nat] /\ b_ \in [Threads -> Int]
  /\ arr \in [Threads -> 1 .. array(Own)]
  /\ item \in [Threads -> Items \cup {NULL}]

\* A resize is done or leaves nothing behind: the garbage always has room for the
\* arrays in it, and a new array is in hand only until it is published or dropped,
\* with the items that are in the old one.
ResizeIsWhole ==
  /\ garbage_capacity \in Nat \ {0}
  /\ array(Own) - 1 <= garbage_capacity
  /\ new_arr = IF pc[Owner] = "resized"
                 THEN Resize(Own.arrays[array(Own)], b_[Owner], t_[Owner]) ELSE NULL

\* The top passes the bottom that a thread sees by one only, while a pop decides
\* about the last item, and the items never outgrow the array: an index is not
\* used twice.  A resize that fails half way leaves the queue as it was.  Everything
\* has its type.
WindowFits ==
  /\ TypeOK
  /\ ResizeIsWhole
  /\ top <= Visible.bottom + 1
  /\ pc[Owner] \in {"idle", "ok", "refused", "popped"} => top <= Own.bottom
  /\ Own.bottom - top <= Own.arrays[array(Own)].capacity

\* A thief whose compare-exchange will succeed holds the item that is at the top
\* now, even if it read it from an array that was replaced since.
StaleArraysServe ==
  \A t \in Thieves :
    pc[t] = "steal_cas" /\ top = t_[t] =>
      item[t] = Slot(Own, array(Own), top) /\ item[t] \in pushed
=============================================================================
