------------------------------- MODULE Channel -------------------------------
(***************************************************************************)
(* The channel of chiba/channel: a linked queue under a mutex, a length, a *)
(* count of senders and one of receivers, and a "disconnected" flag, all   *)
(* reached through sender and receiver handles.                            *)
(*                                                                         *)
(* A handle is used by one thread at a time, so a handle is the process    *)
(* here.  Each access to an atomic field is a step; what a call does under *)
(* the mutex is one step with the lock and the unlock, unless an atomic    *)
(* field that others touch without the mutex lies in between.  Memory is   *)
(* sequentially consistent.                                                *)
(***************************************************************************)
EXTENDS Integers, FiniteSets

CONSTANTS
  Senders, Receivers,   \* the addresses of sender and receiver handles
  Nodes,                \* the addresses of queue nodes
  Values, NULL,
  Capacities,           \* the capacities chiba_channel_bounded is given
  MallocFails           \* whether malloc may fail before memory runs out

ASSUME HandlesAssumption ==
  /\ Senders \cap Receivers = {} /\ NULL \notin Senders \cup Receivers
  /\ IsFiniteSet(Senders \cup Receivers)
ASSUME NodesAssumption == NULL \notin Nodes /\ NULL \notin Values
ASSUME CapacitiesAssumption == Capacities \subseteq Nat

Handles == Senders \cup Receivers
Sides == {"sender", "receiver"}
Side(h) == IF h \in Senders THEN "sender" ELSE "receiver"
Opposite(s) == IF s = "sender" THEN "receiver" ELSE "sender"

VARIABLES
  chan,           \* "none" before creation, "live", "freed", "corrupt" after a use of freed memory
  capacity,       \* chan->capacity
  head, tail,     \* chan->head, chan->tail
  next, data,     \* node->next, node->data
  heap,           \* the nodes that are allocated
  len,            \* chan->len
  count,          \* chan->sender_count, chan->receiver_count
  disconnected,   \* chan->disconnected
  mutex,          \* the handle that holds chan->mutex across steps, or NULL
  pc,             \* where each handle is in its call; "none" is no handle
  node,           \* the node a call has in hand
  msg,            \* the message being sent, or the one received
  ret             \* the answer of the last call

list   == <<head, tail, next, data, heap, len>>
shared == <<chan, capacity, list, count, disconnected, mutex>>
locals == <<node, msg, ret>>
vars   == <<chan, capacity, head, tail, next, data, heap, len, count, disconnected, mutex,
            pc, node, msg, ret>>

IsFull == capacity > 0 /\ len >= capacity

Goto(h, from, to) == pc[h] = from /\ pc' = [pc EXCEPT ![h] = to]

Answer(h, from, r) == Goto(h, from, "ret") /\ ret' = [ret EXCEPT ![h] = r]

-----------------------------------------------------------------------------
(* Creation: chiba_channel_unbounded, which is chiba_channel_new(0), and    *)
(* chiba_channel_bounded.                                                   *)

Init ==
  /\ chan = "none"
  /\ capacity = 0
  /\ head = NULL /\ tail = NULL
  /\ next = [n \in Nodes |-> NULL] /\ data = [n \in Nodes |-> NULL] /\ heap = {}
  /\ len = 0
  /\ count = [s \in Sides |-> 0]
  /\ disconnected = FALSE
  /\ mutex = NULL
  /\ pc = [h \in Handles |-> "none"]
  /\ node = [h \in Handles |-> NULL]
  /\ msg = [h \in Handles |-> NULL]
  /\ ret = [h \in Handles |-> NULL]

Create ==
  /\ chan = "none" /\ chan' = "live"
  /\ capacity' \in Capacities \cup {0}
  /\ count' = [s \in Sides |-> 1]
  /\ \E tx \in Senders, rx \in Receivers : pc' = [pc EXCEPT ![tx] = "idle", ![rx] = "idle"]
  /\ UNCHANGED <<list, disconnected, mutex, locals>>

\* An allocation fails: what was made is given back, the channel without a node,
\* and the caller gets NULLs.
CreateFails ==
  /\ MallocFails
  /\ chan = "none" /\ chan' = "freed"
  /\ capacity' \in Capacities \cup {0}
  /\ UNCHANGED <<list, count, disconnected, mutex, pc, locals>>

-----------------------------------------------------------------------------
(* chiba_sender_try_send, with chiba_channel_enqueue inlined.              *)

TrySend(h, v) ==
  /\ h \in Senders
  /\ Goto(h, "idle", "send_check")
  /\ msg' = [msg EXCEPT ![h] = v]
  /\ UNCHANGED <<shared, node, ret>>

SendCheck(h) ==
  /\ \/ disconnected /\ Answer(h, "send_check", "disconnected")
     \/ ~disconnected /\ Goto(h, "send_check", "enqueue") /\ UNCHANGED ret
  /\ UNCHANGED <<shared, node, msg>>

Enqueue(h) ==
  /\ Goto(h, "enqueue", IF disconnected THEN "send_failed" ELSE "enqueue_alloc")
  /\ UNCHANGED <<shared, locals>>

\* The first check of the length, and chiba_chan_node_new.
EnqueueAlloc(h) ==
  /\ \/ /\ IsFull \/ MallocFails
        /\ Goto(h, "enqueue_alloc", "send_failed")
        /\ UNCHANGED <<next, data, heap, node>>
     \/ /\ ~IsFull
        /\ Goto(h, "enqueue_alloc", "enqueue_lock")
        /\ \E n \in Nodes \ heap :
             /\ heap' = heap \cup {n}
             /\ data' = [data EXCEPT ![n] = msg[h]]
             /\ next' = [next EXCEPT ![n] = NULL]
             /\ node' = [node EXCEPT ![h] = n]
  /\ UNCHANGED <<chan, capacity, head, tail, len, count, disconnected, mutex, msg, ret>>

\* A plausible mistake: the checks are not made again under the mutex.
NeverRejects == FALSE

Rejects == disconnected \/ IsFull

\* A plausible mistake: the node of a refused message is forgotten.
ForgetNode(n) == UNCHANGED <<heap, data, next>>

\* chiba_chan_node_free.  Nothing is left of what a freed node held.
Free(n) ==
  /\ heap' = heap \ {n}
  /\ data' = [data EXCEPT ![n] = NULL]
  /\ next' = [next EXCEPT ![n] = NULL]

\* Under the mutex both checks are made again.
EnqueueLock(h) ==
  /\ mutex = NULL
  /\ \/ /\ Rejects
        /\ Goto(h, "enqueue_lock", "send_failed")
        /\ Free(node[h])
        /\ node' = [node EXCEPT ![h] = NULL]
        /\ UNCHANGED mutex
     \/ /\ ~Rejects
        /\ Goto(h, "enqueue_lock", "enqueue_link")
        /\ mutex' = h
        /\ UNCHANGED <<next, data, heap, node>>
  /\ UNCHANGED <<chan, capacity, head, tail, len, count, disconnected, msg, ret>>

EnqueueLink(h) ==
  /\ Answer(h, "enqueue_link", "ok")
  /\ IF tail # NULL
       THEN next' = [next EXCEPT ![tail] = node[h]] /\ UNCHANGED head
       ELSE head' = node[h] /\ UNCHANGED next
  /\ tail' = node[h]
  /\ len' = len + 1
  /\ mutex' = NULL
  /\ node' = [node EXCEPT ![h] = NULL]
  /\ UNCHANGED <<chan, capacity, data, heap, count, disconnected, msg>>

SendFailed(h) ==
  /\ Answer(h, "send_failed", IF disconnected THEN "disconnected" ELSE "full")
  /\ UNCHANGED <<shared, node, msg>>

-----------------------------------------------------------------------------
(* chiba_receiver_try_recv, with chiba_channel_dequeue inlined.            *)

TryRecv(h) ==
  /\ h \in Receivers
  /\ Goto(h, "idle", "dequeue")
  /\ UNCHANGED <<shared, locals>>

\* A plausible mistake: the tail keeps pointing to the last node taken.
DequeueKeepsTail(h) ==
  /\ mutex = NULL
  /\ \/ /\ head = NULL
        /\ Goto(h, "dequeue", "recv_check")
        /\ UNCHANGED <<head, len, node>>
     \/ /\ head # NULL
        /\ Goto(h, "dequeue", "dequeue_free")
        /\ node' = [node EXCEPT ![h] = head]
        /\ head' = next[head]
        /\ len' = len - 1
  /\ UNCHANGED <<chan, capacity, tail, next, data, heap, count, disconnected, mutex, msg, ret>>

Dequeue(h) ==
  /\ mutex = NULL
  /\ \/ /\ head = NULL
        /\ Goto(h, "dequeue", "recv_check")
        /\ UNCHANGED <<head, tail, len, node>>
     \/ /\ head # NULL
        /\ Goto(h, "dequeue", "dequeue_free")
        /\ node' = [node EXCEPT ![h] = head]
        /\ head' = next[head]
        /\ tail' = IF next[head] = NULL THEN NULL ELSE tail
        /\ len' = len - 1
  /\ UNCHANGED <<chan, capacity, next, data, heap, count, disconnected, mutex, msg, ret>>

\* After the unlock: the message is taken from the node, the node is freed.
DequeueFree(h) ==
  /\ Answer(h, "dequeue_free", "ok")
  /\ msg' = [msg EXCEPT ![h] = data[node[h]]]
  /\ Free(node[h])
  /\ node' = [node EXCEPT ![h] = NULL]
  /\ UNCHANGED <<chan, capacity, head, tail, len, count, disconnected, mutex>>

RecvCheck(h) ==
  /\ Answer(h, "recv_check", IF disconnected THEN "disconnected" ELSE "empty")
  /\ UNCHANGED <<shared, node, msg>>

Return(h) ==
  /\ Goto(h, "ret", "idle")
  /\ msg' = [msg EXCEPT ![h] = NULL]
  /\ ret' = [ret EXCEPT ![h] = NULL]
  /\ UNCHANGED <<shared, node>>

-----------------------------------------------------------------------------
(* chiba_sender_clone and chiba_receiver_clone, which differ in the count   *)
(* they use only.                                                           *)

\* A plausible mistake: the new handle is not counted before it is allocated.
CloneUncounted(h) ==
  /\ Goto(h, "idle", "clone_alloc")
  /\ UNCHANGED <<shared, locals>>

Clone(h) ==
  /\ Goto(h, "idle", "clone_alloc")
  /\ count' = [count EXCEPT ![Side(h)] = @ + 1]
  /\ UNCHANGED <<chan, capacity, list, disconnected, mutex, locals>>

CloneAlloc(h) ==
  LET unused == {g \in Handles : Side(g) = Side(h) /\ pc[g] = "none"} IN
  /\ pc[h] = "clone_alloc"
  /\ \/ /\ \E g \in unused : pc' = [pc EXCEPT ![h] = "idle", ![g] = "idle"]
        /\ UNCHANGED count
     \/ /\ MallocFails \/ unused = {}
        /\ pc' = [pc EXCEPT ![h] = "idle"]
        /\ count' = [count EXCEPT ![Side(h)] = @ - 1]
  /\ UNCHANGED <<chan, capacity, list, disconnected, mutex, locals>>

-----------------------------------------------------------------------------
(* chiba_sender_drop and chiba_receiver_drop, which differ in which count   *)
(* is whose only, and chiba_channel_destroy.                                *)

Drop(h) ==
  /\ Goto(h, "idle", IF count[Side(h)] = 1 THEN "drop_disconnect" ELSE "none")
  /\ count' = [count EXCEPT ![Side(h)] = @ - 1]
  /\ UNCHANGED <<chan, capacity, list, disconnected, mutex, locals>>

DropDisconnect(h) ==
  /\ Goto(h, "drop_disconnect", "drop_check")
  /\ disconnected' = TRUE
  /\ UNCHANGED <<chan, capacity, list, count, mutex, locals>>

\* A plausible mistake: the other side is not asked.
DropCheckOwnSide(h) ==
  /\ Goto(h, "drop_check", "destroy")
  /\ UNCHANGED <<shared, locals>>

DropCheck(h) ==
  /\ Goto(h, "drop_check", IF count[Opposite(Side(h))] = 0 THEN "destroy" ELSE "none")
  /\ UNCHANGED <<shared, locals>>

chain[k \in Nat] ==
  IF k <= 1 THEN head
  ELSE IF chain[k - 1] \in Nodes THEN next[chain[k - 1]] ELSE NULL

Queued == {chain[k] : k \in 1 .. len}

DestroyNodes(h) ==
  /\ mutex = NULL
  /\ Queued \subseteq heap
  /\ Goto(h, "destroy", "destroy_free")
  /\ heap' = heap \ Queued
  /\ UNCHANGED <<chan, capacity, head, tail, next, data, len, count, disconnected, mutex, locals>>

DestroyFree(h) ==
  /\ Goto(h, "destroy_free", "none")
  /\ chan' = "freed"
  /\ UNCHANGED <<capacity, list, count, disconnected, mutex, locals>>

\* Freed memory is used: the channel after it was freed, or nodes the other
\* caller of chiba_channel_destroy has freed.  What follows is undefined, so
\* nothing does here.
UseAfterFree(h) ==
  /\ \/ chan = "freed" /\ pc[h] # "none"
     \/ chan = "live" /\ pc[h] = "destroy" /\ ~(Queued \subseteq heap)
  /\ chan' = "corrupt"
  /\ UNCHANGED <<capacity, list, count, disconnected, mutex, pc, locals>>

-----------------------------------------------------------------------------
Begin(h) ==
  \/ \E v \in Values : TrySend(h, v)
  \/ TryRecv(h)
  \/ Clone(h)
  \/ Drop(h)

Continue(h) ==
  \/ SendCheck(h) \/ Enqueue(h) \/ EnqueueAlloc(h) \/ EnqueueLock(h)
  \/ EnqueueLink(h) \/ SendFailed(h)
  \/ Dequeue(h) \/ DequeueFree(h) \/ RecvCheck(h) \/ Return(h)
  \/ CloneAlloc(h)
  \/ DropDisconnect(h) \/ DropCheck(h) \/ DestroyNodes(h) \/ DestroyFree(h)

\* Nothing is left to do once the channel is freed or memory is corrupt.
Over ==
  /\ chan = "corrupt" \/ (chan = "freed" /\ \A h \in Handles : pc[h] = "none")
  /\ UNCHANGED vars

Next ==
  \/ Create \/ CreateFails
  \/ chan = "live" /\ \E h \in Handles : Begin(h) \/ Continue(h)
  \/ \E h \in Handles : UseAfterFree(h)
  \/ Over

Spec == Init /\ [][Next]_vars

-----------------------------------------------------------------------------
(* Properties.                                                             *)

PCs == {"none", "idle", "ret",
        "send_check", "enqueue", "enqueue_alloc", "enqueue_lock", "enqueue_link", "send_failed",
        "dequeue", "dequeue_free", "recv_check", "clone_alloc",
        "drop_disconnect", "drop_check", "destroy", "destroy_free"}

\* The type invariant of the channel, its nodes and the calls' locals.
TypeOK ==
  /\ chan \in {"none", "live", "freed", "corrupt"} /\ capacity \in Nat
  /\ head \in Nodes \cup {NULL} /\ tail \in Nodes \cup {NULL}
  /\ next \in [Nodes -> Nodes \cup {NULL}]
  /\ data \in [Nodes -> Values \cup {NULL}]
  /\ heap \subseteq Nodes
  /\ len \in Nat
  /\ count \in [Sides -> Nat]
  /\ disconnected \in BOOLEAN
  /\ mutex \in Handles \cup {NULL}
  /\ pc \in [Handles -> PCs]
  /\ node \in [Handles -> Nodes \cup {NULL}]
  /\ msg \in [Handles -> Values \cup {NULL}]
  /\ ret \in [Handles -> {NULL, "ok", "full", "empty", "disconnected"}]

DropPCs == {"drop_disconnect", "drop_check", "destroy", "destroy_free"}

\* A handle its owner can still use.
Held(h) == pc[h] \notin {"none"} \cup DropPCs

\* The two counts are the handles there are, a handle being made included.
CountsHandles ==
  chan = "live" =>
    \A s \in Sides :
      count[s] = Cardinality({h \in Handles : Side(h) = s /\ Held(h)})
               + Cardinality({h \in Handles : Side(h) = s /\ pc[h] = "clone_alloc"})

\* Whoever still holds a handle may use the channel: it is never freed, and no
\* freed memory is used, before the last handle is dropped.  The counts by which
\* the drops decide that are right all along.
HeldIsLive == ((\E h \in Handles : Held(h)) => chan = "live") /\ CountsHandles

\* Nodes that a call has taken out of the list or not put in yet.
InHand == {node[h] : h \in Handles} \ {NULL}

\* Everything has its type.  From head along next there are len different
\* allocated nodes and the last is tail; the other allocated nodes are each in the
\* hand of one call.  No node leaks, and none is linked twice.
ListWellFormed ==
  /\ TypeOK
  /\ \A g, h \in Handles : g # h /\ node[g] # NULL => node[g] # node[h]
  /\ chan = "live" /\ (\A h \in Handles : pc[h] # "destroy_free") =>
       /\ Cardinality(Queued) = len
       /\ (head = NULL) = (len = 0) /\ (tail = NULL) = (len = 0)
       /\ len > 0 => chain[len] = tail /\ next[tail] = NULL
       /\ Queued \cap InHand = {}
       /\ heap = Queued \cup InHand

\* A channel is disconnected for good: the side that is gone cannot come back by
\* a clone that was under way.
DisconnectedIsFinal ==
  chan = "live" /\ disconnected =>
    \E s \in Sides : \A h \in Handles : Side(h) = s => ~Held(h)

\* When the last handle is gone the channel and every node are freed, those of
\* messages nobody received included; and so it is when no handle could be made.
NothingLeaks ==
  chan # "none" /\ (\A h \in Handles : pc[h] = "none") => chan = "freed" /\ heap = {}

\* chiba_channel_shared.h says of chiba_channel_destroy that it is called when
\* all senders and receivers have been released: then nobody uses the channel
\* any more, and it is destroyed once.
DestroyedOnceUnused == chan # "corrupt"
=============================================================================
