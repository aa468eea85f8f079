--------------------------- MODULE AbstractChannel ---------------------------
(***************************************************************************)
(* What a channel promises the holders of its handles.  Messages come out  *)
(* in the order they were accepted, each once.  A send is accepted only    *)
(* while the channel is open and below its capacity, and refused only when *)
(* one of the two fails (or memory is exhausted, if MallocFails); a        *)
(* receive comes back with nothing only when there is nothing.             *)
(***************************************************************************)
EXTENDS Integers, Sequences

CONSTANTS Handles, Values, MallocFails,
          Limits      \* the capacities a channel may be given, 0 for none

VARIABLES
  open,     \* the channel has been made
  limit,    \* its capacity
  items,    \* the accepted messages nobody has received yet
  closed,   \* one side of the channel has no handle left
  call      \* each handle's call in progress

avars == <<open, limit, items, closed, call>>

NoCall == [op |-> "none"]

Init ==
  /\ open = FALSE /\ limit = 0
  /\ items = <<>> /\ closed = FALSE
  /\ call = [h \in Handles |-> NoCall]

Becomes(h, from, to) == call[h] = from /\ call' = [call EXCEPT ![h] = to]

IsFull == limit > 0 /\ Len(items) >= limit

Open ==
  /\ ~open /\ open' = TRUE
  /\ limit' \in Limits
  /\ UNCHANGED <<items, closed, call>>

Call(h) ==
  /\ open
  /\ \/ \E v \in Values : Becomes(h, NoCall, [op |-> "send", msg |-> v])
     \/ Becomes(h, NoCall, [op |-> "recv"])
  /\ UNCHANGED <<items, closed>>

Accept(h) ==
  \E v \in Values :
    /\ Becomes(h, [op |-> "send", msg |-> v], [op |-> "answer", ret |-> "ok"])
    /\ ~closed /\ ~IsFull
    /\ items' = Append(items, v)
    /\ UNCHANGED closed

Refuse(h) ==
  /\ call[h] \in [op : {"send"}, msg : Values]
  /\ \/ /\ closed \/ IsFull \/ MallocFails
        /\ call' = [call EXCEPT ![h] = [op |-> "refused"]]
     \/ /\ closed
        /\ call' = [call EXCEPT ![h] = [op |-> "answer", ret |-> "disconnected"]]
  /\ UNCHANGED <<items, closed>>

Receive(h) ==
  /\ items # <<>>
  /\ Becomes(h, [op |-> "recv"], [op |-> "answer", ret |-> "ok", msg |-> Head(items)])
  /\ items' = Tail(items)
  /\ UNCHANGED closed

Nothing(h) ==
  /\ items = <<>>
  /\ Becomes(h, [op |-> "recv"], [op |-> "nothing"])
  /\ UNCHANGED <<items, closed>>

\* Why a call failed is looked up after it did.
Explain(h) ==
  /\ \/ closed  /\ call[h].op \in {"refused", "nothing"}
                /\ call' = [call EXCEPT ![h] = [op |-> "answer", ret |-> "disconnected"]]
     \/ ~closed /\ Becomes(h, [op |-> "refused"], [op |-> "answer", ret |-> "full"])
     \/ ~closed /\ Becomes(h, [op |-> "nothing"], [op |-> "answer", ret |-> "empty"])
  /\ UNCHANGED <<items, closed>>

Return(h) ==
  /\ call[h].op = "answer"
  /\ call' = [call EXCEPT ![h] = NoCall]
  /\ UNCHANGED <<items, closed>>

Close == closed' = TRUE /\ UNCHANGED <<items, call>>

\* Messages nobody received go with the last handle.
Discard ==
  /\ closed
  /\ \A h \in Handles : call[h] = NoCall
  /\ items' = <<>>
  /\ UNCHANGED <<closed, call>>

Operation ==
  \/ Close \/ Discard
  \/ \E h \in Handles :
       \/ Call(h) \/ Accept(h) \/ Refuse(h) \/ Receive(h) \/ Nothing(h)
       \/ Explain(h) \/ Return(h)

Next == Open \/ (Operation /\ UNCHANGED <<open, limit>>)

Spec == Init /\ [][Next]_avars
=============================================================================
