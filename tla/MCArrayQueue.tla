---------------------------- MODULE MCArrayQueue ----------------------------
(***************************************************************************)
(* Model checking ArrayQueue, and the refinement mapping under which it    *)
(* implements BoundedQueue.                                                *)
(***************************************************************************)
EXTENDS ArrayQueue, Sequences

(***************************************************************************)
(* Pushes without end on a finite graph.  MaxLap alone would end them, and *)
(* a call that is overtaken for ever would never be seen.  The code only   *)
(* compares positions and stamps, so a lap can be taken off all of them at *)
(* once, as soon as no position that is still to be compared lies in lap   *)
(* 0.  Rebase is not a step of the code.                                   *)
(***************************************************************************)
Compared(t) ==
  pc[t] \in {"push_stamp", "push_cas", "push_write", "push_publish", "push_full",
             "pop_stamp", "pop_cas", "pop_read", "pop_release", "pop_empty",
             "empty_tail", "full_head", "size_head", "size_check"}

LapLess(p) == IF p.lap = 0 THEN p ELSE [p EXCEPT !.lap = @ - 1]

Rebase ==
  /\ tail.lap >= MaxLap
  /\ head.lap > 0
  /\ \A i \in Slots : stamp[i].lap > 0
  /\ \A t \in Threads :
       /\ Compared(t) => pos[t].lap > 0
       /\ pc[t] = "size_check" => other[t].lap > 0
  /\ head' = LapLess(head)
  /\ tail' = LapLess(tail)
  /\ stamp' = [i \in Slots |-> LapLess(stamp[i])]
  /\ pos' = [t \in Threads |-> LapLess(pos[t])]
  /\ other' = [t \in Threads |-> LapLess(other[t])]
  /\ UNCHANGED <<value, pc, arg, res>>

\* Every behaviour of Spec in which the tail keeps below MaxLap, and those that
\* go on for ever.
EndlessSpec == Init /\ [][Next \/ Rebase]_vars /\ Fairness

\* The number of positions from head to tail, and the k-th position from p, for
\* distances up to a lap.
Length == IF tail.lap = head.lap THEN tail.index - head.index
                                 ELSE Capacity + tail.index - head.index

Ahead(p, k) ==
  IF p.index + k < Capacity THEN [lap |-> p.lap, index |-> p.index + k]
                            ELSE [lap |-> p.lap + 1, index |-> p.index + k - Capacity]

\* The item at a position between head and tail: in the slot when the slot is
\* published, still with the pusher that claimed the position when it is not.
ItemAt(p) ==
  IF stamp[p.index] = PlusOne(p)
    THEN value[p.index]
    ELSE arg[CHOOSE t \in Writers(p.index) : pos[t] = p]

AbstractItems == [k \in 1 .. Length |-> ItemAt(Ahead(head, k - 1))]

PushPending == {"push_tail", "push_stamp", "push_cas", "push_full"}
PopPending  == {"pop_head", "pop_stamp", "pop_cas", "pop_empty"}

\* A push takes effect when it claims a position, a pop when it claims one, a
\* refusal when it is decided; queries are invisible to the abstract queue.
AbstractCall(t) ==
  CASE pc[t] \in PushPending                      -> [op |-> "push", arg |-> arg[t]]
    [] pc[t] \in {"push_write", "push_publish"}   -> [op |-> "pushed", ret |-> "true"]
    [] pc[t] = "push_ret"                         -> [op |-> "pushed", ret |-> res[t]]
    [] pc[t] \in PopPending                       -> [op |-> "pop"]
    [] pc[t] = "pop_read"                         -> [op |-> "popped", ret |-> value[pos[t].index]]
    [] pc[t] = "pop_release"                      -> [op |-> "popped", ret |-> arg[t]]
    [] pc[t] = "pop_ret"                          -> [op |-> "popped", ret |-> res[t]]
    [] OTHER                                      -> [op |-> "none"]

Abstract == INSTANCE BoundedQueue
              WITH items <- AbstractItems, call <- [t \in Threads |-> AbstractCall(t)]

\* The array queue is a linearizable bounded FIFO: each push and each pop takes
\* effect at one instant of its call, nothing is lost, duplicated or overtaken,
\* and "full" and "empty" are answered only when the queue is.
ImplementsBoundedQueue == Abstract!Spec
=============================================================================
