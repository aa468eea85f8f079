------------------------------ MODULE MCChannel ------------------------------
(***************************************************************************)
(* Model checking Channel, and the refinement mapping under which it       *)
(* implements AbstractChannel.                                             *)
(***************************************************************************)
EXTENDS Channel, Sequences, TLC

\* A send takes effect when it has found the channel open and below its
\* capacity under the mutex.
Accepted == IF mutex = NULL THEN <<>> ELSE <<data[node[mutex]]>>

AbstractItems ==
  IF chan # "live" \/ \E h \in Handles : pc[h] = "destroy_free" THEN <<>>
  ELSE [k \in 1 .. len |-> data[chain[k]]] \o Accepted

SendPending == {"send_check", "enqueue", "enqueue_alloc", "enqueue_lock"}

Ok(m) == [op |-> "answer", ret |-> "ok", msg |-> m]

AbstractCall(h) ==
  CASE pc[h] \in SendPending    -> [op |-> "send", msg |-> msg[h]]
    [] pc[h] = "enqueue_link"   -> [op |-> "answer", ret |-> "ok"]
    [] pc[h] = "send_failed"    -> [op |-> "refused"]
    [] pc[h] = "dequeue"        -> [op |-> "recv"]
    [] pc[h] = "recv_check"     -> [op |-> "nothing"]
    [] pc[h] = "dequeue_free"   -> Ok(data[node[h]])
    [] pc[h] = "ret" /\ h \in Receivers /\ ret[h] = "ok" -> Ok(msg[h])
    [] pc[h] = "ret" /\ ~(h \in Receivers /\ ret[h] = "ok") -> [op |-> "answer", ret |-> ret[h]]
    [] OTHER                    -> [op |-> "none"]

Abstract == INSTANCE AbstractChannel
              WITH open <- chan # "none", limit <- capacity, Limits <- Capacities \cup {0},
                   items <- AbstractItems, closed <- disconnected,
                   call <- [h \in Handles |-> AbstractCall(h)]

\* The channel delivers every accepted message once and in order, accepts none
\* after it was closed or beyond its capacity, and a call that fails has found
\* the reason to at an instant during the call.
ImplementsAbstractChannel == Abstract!Spec

Symmetry ==
  Permutations(Senders) \cup Permutations(Receivers) \cup Permutations(Nodes) \cup Permutations(Values)
=============================================================================
