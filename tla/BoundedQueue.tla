---------------------------- MODULE BoundedQueue ----------------------------
(***************************************************************************)
(* What a bounded first-in first-out queue shared by threads promises:     *)
(* every push and pop takes effect at one instant between its call and its *)
(* return.  A push answers "true" and appends, or "false" and finds the    *)
(* queue full; a pop answers the oldest item, or NULL and finds the queue  *)
(* empty.                                                                  *)
(***************************************************************************)
EXTENDS Integers, Sequences

CONSTANTS Threads, Values, NULL, Capacity

VARIABLES
  items,   \* the queue
  call     \* each thread's call in progress

qvars == <<items, call>>

NoCall        == [op |-> "none"]
PushCall(v)   == [op |-> "push", arg |-> v]
PopCall       == [op |-> "pop"]
PushDone(r)   == [op |-> "pushed", ret |-> r]
PopDone(r)    == [op |-> "popped", ret |-> r]

Init == items = <<>> /\ call = [t \in Threads |-> NoCall]

CallPush(t) ==
  /\ call[t] = NoCall
  /\ \E v \in Values : call' = [call EXCEPT ![t] = PushCall(v)]
  /\ UNCHANGED items

CallPop(t) ==
  /\ call[t] = NoCall
  /\ call' = [call EXCEPT ![t] = PopCall]
  /\ UNCHANGED items

Push(t) ==
  /\ call[t].op = "push"
  /\ Len(items) < Capacity
  /\ items' = Append(items, call[t].arg)
  /\ call' = [call EXCEPT ![t] = PushDone("true")]

PushFull(t) ==
  /\ call[t].op = "push"
  /\ Len(items) = Capacity
  /\ call' = [call EXCEPT ![t] = PushDone("false")]
  /\ UNCHANGED items

Pop(t) ==
  /\ call[t] = PopCall
  /\ items # <<>>
  /\ call' = [call EXCEPT ![t] = PopDone(Head(items))]
  /\ items' = Tail(items)

PopEmpty(t) ==
  /\ call[t] = PopCall
  /\ items = <<>>
  /\ call' = [call EXCEPT ![t] = PopDone(NULL)]
  /\ UNCHANGED items

Return(t) ==
  /\ call[t].op \in {"pushed", "popped"}
  /\ call' = [call EXCEPT ![t] = NoCall]
  /\ UNCHANGED items

Next ==
  \E t \in Threads :
    \/ CallPush(t) \/ CallPop(t)
    \/ Push(t) \/ PushFull(t) \/ Pop(t) \/ PopEmpty(t)
    \/ Return(t)

Spec == Init /\ [][Next]_qvars
=============================================================================
