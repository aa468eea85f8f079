-------------------------- MODULE WorkStealingDeque --------------------------
(***************************************************************************)
(* What a work-stealing deque promises: the owner pushes and pops at one   *)
(* end, thieves steal at the other, and every call takes effect at one     *)
(* instant.  A push may be refused and a steal may give up at any time; a  *)
(* pop answers NULL only when the deque is empty.                          *)
(***************************************************************************)
EXTENDS Integers, Sequences

CONSTANTS Owner, Thieves, Items, NULL

VARIABLES
  deque,   \* the items, the oldest first
  call     \* each thread's call in progress

dvars == <<deque, call>>

NoCall      == [op |-> "none"]
PushCall(x) == [op |-> "push", arg |-> x]
PopCall     == [op |-> "pop"]
StealCall   == [op |-> "steal"]
Pushed(r)   == [op |-> "pushed", ret |-> r]
Taken(r)    == [op |-> "taken", ret |-> r]

Init == deque = <<>> /\ call = [t \in {Owner} \cup Thieves |-> NoCall]

Becomes(t, from, to) == call[t] = from /\ call' = [call EXCEPT ![t] = to]

Call ==
  /\ \/ \E x \in Items : Becomes(Owner, NoCall, PushCall(x))
     \/ Becomes(Owner, NoCall, PopCall)
     \/ \E t \in Thieves : Becomes(t, NoCall, StealCall)
  /\ UNCHANGED deque

Push ==
  \E x \in Items : Becomes(Owner, PushCall(x), Pushed("ok")) /\ deque' = Append(deque, x)

Refuse == \E x \in Items : Becomes(Owner, PushCall(x), Pushed("refused")) /\ UNCHANGED deque

Pop ==
  /\ deque # <<>>
  /\ Becomes(Owner, PopCall, Taken(deque[Len(deque)]))
  /\ deque' = SubSeq(deque, 1, Len(deque) - 1)

PopNothing == deque = <<>> /\ Becomes(Owner, PopCall, Taken(NULL)) /\ UNCHANGED deque

Steal(t) ==
  /\ deque # <<>>
  /\ Becomes(t, StealCall, Taken(Head(deque)))
  /\ deque' = Tail(deque)

GiveUp(t) == Becomes(t, StealCall, Taken(NULL)) /\ UNCHANGED deque

Return(t) ==
  /\ call[t].op \in {"pushed", "taken"}
  /\ call' = [call EXCEPT ![t] = NoCall]
  /\ UNCHANGED deque

Next ==
  \/ Call
  \/ Push \/ Refuse \/ Pop \/ PopNothing
  \/ \E t \in Thieves : Steal(t) \/ GiveUp(t)
  \/ \E t \in {Owner} \cup Thieves : Return(t)

Spec == Init /\ [][Next]_dvars
=============================================================================
