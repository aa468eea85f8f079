----------------------------- MODULE ArrayQueue -----------------------------
(***************************************************************************)
(* The bounded multi-producer multi-consumer queue of                      *)
(* chiba/concurrency/array_queue.h, one action per shared-memory access.   *)
(*                                                                         *)
(* The code packs a position into one u64 as { lap, index }: one_lap is a  *)
(* power of two above capacity, the low bits are the index and the high    *)
(* bits the lap.  A position is the record here; that the packed           *)
(* arithmetic is the arithmetic of these records is checked on its own in  *)
(* module ArrayQueueLap.  Memory is sequentially consistent.               *)
(***************************************************************************)
EXTENDS Integers, FiniteSets

CONSTANTS
  Threads,    \* the threads that call the queue
  Values,     \* the pointers a client pushes (never NULL)
  NULL,       \* the null pointer, chiba_arrayqueue_pop's answer for "empty"
  Capacity,   \* queue->capacity
  MaxLap      \* bound: no push is started once the tail has reached this lap

ASSUME CapacityAssumption == Capacity \in Nat \ {0}
ASSUME MaxLapAssumption == MaxLap \in Nat
ASSUME NullAssumption == NULL \notin Values

VARIABLES
  head,     \* queue->head
  tail,     \* queue->tail
  stamp,    \* queue->buffer[i].stamp
  value,    \* queue->buffer[i].value
  pc,       \* where each thread is in its call, "idle" outside of one
  pos,      \* the position a call loaded first: push's tail, pop's head, ...
  other,    \* the second position a query loaded (the head in size)
  arg,      \* the pointer a thread is pushing, or the msg it has popped
  res       \* the answer of the last call

queue  == <<head, tail, stamp, value>>
locals == <<pc, pos, other, arg, res>>
vars   == <<head, tail, stamp, value, pc, pos, other, arg, res>>

Slots == 0 .. Capacity - 1
Position == [lap : Nat, index : Slots]
Stamp    == [lap : Nat, index : 0 .. Capacity]
Origin   == [lap |-> 0, index |-> 0]

-----------------------------------------------------------------------------
(* Arithmetic on positions and stamps.                                     *)

\* stamp + 1.  index + 1 <= Capacity < one_lap, so there is never a carry.
PlusOne(p) == [lap |-> p.lap, index |-> p.index + 1]

\* position + one_lap
PlusLap(p) == [lap |-> p.lap + 1, index |-> p.index]

\* new_tail in push, neww in pop: the next index, or index 0 one lap on.
NextPosition(p) ==
  IF p.index + 1 < Capacity THEN PlusOne(p)
                            ELSE [lap |-> p.lap + 1, index |-> 0]

\* The order of the packed u64 values.
Leq(p, q) == p.lap < q.lap \/ (p.lap = q.lap /\ p.index <= q.index)

\* chiba_arrayqueue_size's answer for the head h and the tail t it loaded.
SizeOf(h, t) ==
  IF h.index < t.index THEN t.index - h.index
  ELSE IF h.index > t.index THEN Capacity - h.index + t.index
  ELSE IF t = h THEN 0 ELSE Capacity

-----------------------------------------------------------------------------
(* chiba_arrayqueue_new                                                    *)

Init ==
  /\ head = Origin
  /\ tail = Origin
  /\ stamp = [i \in Slots |-> [lap |-> 0, index |-> i]]
  /\ value = [i \in Slots |-> NULL]
  /\ pc = [t \in Threads |-> "idle"]
  /\ pos = [t \in Threads |-> Origin]
  /\ other = [t \in Threads |-> Origin]
  /\ arg = [t \in Threads |-> NULL]
  /\ res = [t \in Threads |-> NULL]

Goto(t, from, to) == pc[t] = from /\ pc' = [pc EXCEPT ![t] = to]

Answer(t, from, to, r) == Goto(t, from, to) /\ res' = [res EXCEPT ![t] = r]

-----------------------------------------------------------------------------
(* chiba_arrayqueue_push: push_else with push_helper.                      *)

StartPush(t, v) ==
  /\ tail.lap < MaxLap
  /\ Goto(t, "idle", "push_tail")
  /\ arg' = [arg EXCEPT ![t] = v]
  /\ UNCHANGED <<queue, pos, other, res>>

PushLoadTail(t) ==
  /\ Goto(t, "push_tail", "push_stamp")
  /\ pos' = [pos EXCEPT ![t] = tail]
  /\ UNCHANGED <<queue, other, arg, res>>

\* A plausible mistake: the slot is not inspected.
PushLoadStampSkipped(t) ==
  /\ Goto(t, "push_stamp", "push_cas")
  /\ UNCHANGED <<queue, pos, other, arg, res>>

\* Inspect the slot: try to claim it, suspect that the queue is full, or snooze
\* and reload the tail.
PushLoadStamp(t) ==
  LET s == stamp[pos[t].index] IN
  /\ \/ s = pos[t] /\ Goto(t, "push_stamp", "push_cas")
     \/ s # pos[t] /\ PlusLap(s) = PlusOne(pos[t]) /\ Goto(t, "push_stamp", "push_full")
     \/ s # pos[t] /\ PlusLap(s) # PlusOne(pos[t]) /\ Goto(t, "push_stamp", "push_tail")
  /\ UNCHANGED <<queue, pos, other, arg, res>>

\* A plausible mistake: a store instead of the compare-exchange.
PushClaimStore(t) ==
  /\ Goto(t, "push_cas", "push_write")
  /\ tail' = NextPosition(pos[t])
  /\ UNCHANGED <<head, stamp, value, pos, other, arg, res>>

PushClaim(t) ==
  /\ Goto(t, "push_cas", "push_write")
  /\ tail = pos[t]
  /\ tail' = NextPosition(pos[t])
  /\ UNCHANGED <<head, stamp, value, pos, other, arg, res>>

\* The exchange is a weak one: it may also fail when the tail is as expected.
PushClaimFails(t) ==
  /\ Goto(t, "push_cas", "push_stamp")
  /\ pos' = [pos EXCEPT ![t] = tail]
  /\ UNCHANGED <<queue, other, arg, res>>

PushWrite(t) ==
  /\ Goto(t, "push_write", "push_publish")
  /\ value' = [value EXCEPT ![pos[t].index] = arg[t]]
  /\ UNCHANGED <<head, tail, stamp, pos, other, arg, res>>

PushPublish(t) ==
  /\ Answer(t, "push_publish", "push_ret", "true")
  /\ stamp' = [stamp EXCEPT ![pos[t].index] = PlusOne(pos[t])]
  /\ UNCHANGED <<head, tail, value, pos, other, arg>>

\* A plausible mistake: the old stamp is taken for a full queue.
PushIsFullAtOnce(t) ==
  /\ Answer(t, "push_full", "push_ret", "false")
  /\ UNCHANGED <<queue, pos, other, arg>>

\* push_helper: the head lags one lap behind the tail.
PushIsFull(t) ==
  /\ PlusLap(head) = pos[t]
  /\ Answer(t, "push_full", "push_ret", "false")
  /\ UNCHANGED <<queue, pos, other, arg>>

PushNotFull(t) ==
  /\ PlusLap(head) # pos[t]
  /\ Goto(t, "push_full", "push_tail")
  /\ UNCHANGED <<queue, pos, other, arg, res>>

-----------------------------------------------------------------------------
(* chiba_arrayqueue_pop                                                    *)

StartPop(t) ==
  /\ Goto(t, "idle", "pop_head")
  /\ UNCHANGED <<queue, pos, other, arg, res>>

PopLoadHead(t) ==
  /\ Goto(t, "pop_head", "pop_stamp")
  /\ pos' = [pos EXCEPT ![t] = head]
  /\ UNCHANGED <<queue, other, arg, res>>

PopLoadStamp(t) ==
  LET s == stamp[pos[t].index] IN
  /\ \/ PlusOne(pos[t]) = s /\ Goto(t, "pop_stamp", "pop_cas")
     \/ PlusOne(pos[t]) # s /\ s = pos[t] /\ Goto(t, "pop_stamp", "pop_empty")
     \/ PlusOne(pos[t]) # s /\ s # pos[t] /\ Goto(t, "pop_stamp", "pop_head")
  /\ UNCHANGED <<queue, pos, other, arg, res>>

PopClaim(t) ==
  /\ Goto(t, "pop_cas", "pop_read")
  /\ head = pos[t]
  /\ head' = NextPosition(pos[t])
  /\ UNCHANGED <<tail, stamp, value, pos, other, arg, res>>

PopClaimFails(t) ==
  /\ Goto(t, "pop_cas", "pop_stamp")
  /\ pos' = [pos EXCEPT ![t] = head]
  /\ UNCHANGED <<queue, other, arg, res>>

PopRead(t) ==
  /\ Goto(t, "pop_read", "pop_release")
  /\ arg' = [arg EXCEPT ![t] = value[pos[t].index]]
  /\ UNCHANGED <<queue, pos, other, res>>

\* A plausible mistake: the slot is never released.
PopReleaseForgotten(t) ==
  /\ Answer(t, "pop_release", "pop_ret", arg[t])
  /\ UNCHANGED <<queue, pos, other, arg>>

PopRelease(t) ==
  /\ Answer(t, "pop_release", "pop_ret", arg[t])
  /\ stamp' = [stamp EXCEPT ![pos[t].index] = PlusLap(pos[t])]
  /\ UNCHANGED <<head, tail, value, pos, other, arg>>

\* A plausible mistake: an unpublished slot is taken for an empty queue.
PopIsEmptyAtOnce(t) ==
  /\ Answer(t, "pop_empty", "pop_ret", NULL)
  /\ UNCHANGED <<queue, pos, other, arg>>

PopIsEmpty(t) ==
  /\ tail = pos[t]
  /\ Answer(t, "pop_empty", "pop_ret", NULL)
  /\ UNCHANGED <<queue, pos, other, arg>>

PopNotEmpty(t) ==
  /\ tail # pos[t]
  /\ Goto(t, "pop_empty", "pop_head")
  /\ UNCHANGED <<queue, pos, other, arg, res>>

-----------------------------------------------------------------------------
(* chiba_arrayqueue_is_empty, chiba_arrayqueue_is_full, chiba_arrayqueue_size *)

StartQuery(t) ==
  /\ \E q \in {"empty_head", "full_tail", "size_tail"} : Goto(t, "idle", q)
  /\ UNCHANGED <<queue, pos, other, arg, res>>

EmptyLoadHead(t) ==
  /\ Goto(t, "empty_head", "empty_tail")
  /\ pos' = [pos EXCEPT ![t] = head]
  /\ UNCHANGED <<queue, other, arg, res>>

EmptyLoadTail(t) ==
  /\ Answer(t, "empty_tail", "query_ret", IF tail = pos[t] THEN "true" ELSE "false")
  /\ UNCHANGED <<queue, pos, other, arg>>

FullLoadTail(t) ==
  /\ Goto(t, "full_tail", "full_head")
  /\ pos' = [pos EXCEPT ![t] = tail]
  /\ UNCHANGED <<queue, other, arg, res>>

FullLoadHead(t) ==
  /\ Answer(t, "full_head", "query_ret", IF PlusLap(head) = pos[t] THEN "true" ELSE "false")
  /\ UNCHANGED <<queue, pos, other, arg>>

SizeLoadTail(t) ==
  /\ Goto(t, "size_tail", "size_head")
  /\ pos' = [pos EXCEPT ![t] = tail]
  /\ UNCHANGED <<queue, other, arg, res>>

SizeLoadHead(t) ==
  /\ Goto(t, "size_head", "size_check")
  /\ other' = [other EXCEPT ![t] = head]
  /\ UNCHANGED <<queue, pos, arg, res>>

\* A plausible mistake: the tail is not looked at again.
SizeDoneAtOnce(t) ==
  /\ Goto(t, "size_check", "query_ret")
  /\ UNCHANGED <<queue, pos, other, arg, res>>

\* The tail did not change: SizeOf(other[t], pos[t]) is the answer.
SizeDone(t) ==
  /\ tail = pos[t]
  /\ Goto(t, "size_check", "query_ret")
  /\ UNCHANGED <<queue, pos, other, arg, res>>

SizeRetry(t) ==
  /\ tail # pos[t]
  /\ Goto(t, "size_check", "size_tail")
  /\ UNCHANGED <<queue, pos, other, arg, res>>

\* The call returns; its locals are gone.
Return(t) ==
  /\ \E from \in {"push_ret", "pop_ret", "query_ret"} : Goto(t, from, "idle")
  /\ pos' = [pos EXCEPT ![t] = Origin]
  /\ other' = [other EXCEPT ![t] = Origin]
  /\ arg' = [arg EXCEPT ![t] = NULL]
  /\ res' = [res EXCEPT ![t] = NULL]
  /\ UNCHANGED queue

-----------------------------------------------------------------------------
Start(t) ==
  \/ \E v \in Values : StartPush(t, v)
  \/ StartPop(t)
  \/ StartQuery(t)

PushStep(t) ==
  \/ PushLoadTail(t) \/ PushLoadStamp(t) \/ PushClaim(t) \/ PushClaimFails(t)
  \/ PushWrite(t) \/ PushPublish(t) \/ PushIsFull(t) \/ PushNotFull(t)

PopStep(t) ==
  \/ PopLoadHead(t) \/ PopLoadStamp(t) \/ PopClaim(t) \/ PopClaimFails(t)
  \/ PopRead(t) \/ PopRelease(t) \/ PopIsEmpty(t) \/ PopNotEmpty(t)

QueryStep(t) ==
  \/ EmptyLoadHead(t) \/ EmptyLoadTail(t) \/ FullLoadTail(t) \/ FullLoadHead(t)
  \/ SizeLoadTail(t) \/ SizeLoadHead(t) \/ SizeDone(t) \/ SizeRetry(t)

Step(t) == PushStep(t) \/ PopStep(t) \/ QueryStep(t) \/ Return(t)

Next == \E t \in Threads : Start(t) \/ Step(t)

Spec == Init /\ [][Next]_vars

(***************************************************************************)
(* Every thread keeps being scheduled, and a weak exchange does not fail   *)
(* for ever while the expected value is there (what the hardware grants a  *)
(* load-linked/store-conditional loop).  Nothing is said of an attempt     *)
(* that another thread's exchange has overtaken: a call may lose every     *)
(* race.                                                                   *)
(***************************************************************************)
Fairness ==
  \A t \in Threads :
    /\ WF_vars(Step(t))
    /\ []<><<PushClaimFails(t) /\ tail = pos[t]>>_vars => []<><<PushClaim(t)>>_vars
    /\ []<><<PopClaimFails(t) /\ head = pos[t]>>_vars => []<><<PopClaim(t)>>_vars

-----------------------------------------------------------------------------
(* Properties.                                                             *)

PCs == {"idle",
        "push_tail", "push_stamp", "push_cas", "push_write", "push_publish",
        "push_full", "push_ret",
        "pop_head", "pop_stamp", "pop_cas", "pop_read", "pop_release",
        "pop_empty", "pop_ret",
        "empty_head", "empty_tail", "full_tail", "full_head",
        "size_tail", "size_head", "size_check", "query_ret"}

\* The type invariant of the queue's fields and of the calls' locals.
TypeOK ==
  /\ head \in Position
  /\ tail \in Position
  /\ stamp \in [Slots -> Stamp]
  /\ value \in [Slots -> Values \cup {NULL}]
  /\ pc \in [Threads -> PCs]
  /\ pos \in [Threads -> Position]
  /\ other \in [Threads -> Position]
  /\ arg \in [Threads -> Values \cup {NULL}]
  /\ res \in [Threads -> Values \cup {NULL, "true", "false"}]

IsEmpty == tail = head
IsFull  == tail = PlusLap(head)

Writers(i) == {t \in Threads : pc[t] \in {"push_write", "push_publish"} /\ pos[t].index = i}
Readers(i) == {t \in Threads : pc[t] \in {"pop_read", "pop_release"} /\ pos[t].index = i}

\* slot->value is a plain field: between a push's exchange on the tail and its
\* stamp store, and between a pop's exchange on the head and its stamp store,
\* the slot belongs to that one call and nobody else touches the value.
SlotExclusive ==
  \A i \in Slots : \A t, u \in Writers(i) \cup Readers(i) : t = u

\* The head never passes the tail and the tail is never more than one lap ahead
\* of the head, although each is moved without a look at the other.
TailWithinLap == Leq(head, tail) /\ Leq(tail, PlusLap(head))

\* size() answers from a tail and a head loaded one after the other and from a
\* second look at the tail: the queue did hold the answered number of elements
\* when the head was loaded, whatever was pushed and popped in between.
SizeIsSnapshot ==
  [][ \A t \in Threads :
        SizeDone(t) =>
          SizeOf(other[t], pos[t]) =
            (pos[t].lap - other[t].lap) * Capacity + pos[t].index - other[t].index ]_vars

\* A refusal is never stale: at the step where push answers "full", pop answers
\* NULL, is_empty answers true or is_full answers true, the queue is so, even
\* though the call compared a position it loaded earlier.
RefusalIsTrue ==
  [][ \A t \in Threads :
        /\ PushIsFull(t) => IsFull
        /\ PopIsEmpty(t) => IsEmpty
        /\ EmptyLoadTail(t) /\ res'[t] = "true" => IsEmpty
        /\ FullLoadHead(t) /\ res'[t] = "true" => IsFull ]_vars

\* A call returns, or other threads complete pushes for ever.  The retry loops
\* give no more: size reloads as long as the tail moves, and a push or a pop may
\* lose every race for its exchange.  But whoever waits for a stamp, suspects a
\* full or an empty queue or meets a moved tail does not wait in vain: once the
\* pushes stop, every call comes to its end, and while some call is unfinished
\* one call or another does.
CallsReturn ==
  \A t \in Threads :
    \/ pc[t] # "idle" ~> pc[t] = "idle"
    \/ []<><<\E u \in Threads \ {t} : PushPublish(u)>>_vars

-----------------------------------------------------------------------------
(***************************************************************************)
(* The inductive invariant: what makes the properties above inductive.     *)
(* TailLap(i) and HeadLap(i) count the pushes and the pops that have       *)
(* claimed slot i so far; the stamp of the slot tells how many of them are *)
(* finished.                                                               *)
(***************************************************************************)

TailLap(i) == IF i < tail.index THEN tail.lap + 1 ELSE tail.lap
HeadLap(i) == IF i < head.index THEN head.lap + 1 ELSE head.lap

Writing(t) == pc[t] \in {"push_write", "push_publish"}
Reading(t) == pc[t] \in {"pop_read", "pop_release"}

\* A slot is claimed by pushes and pops in turn, a push first.
ClaimsAlternate ==
  \A i \in Slots : HeadLap(i) <= TailLap(i) /\ TailLap(i) <= HeadLap(i) + 1

\* The stamp { lap, i } waits for the push of that lap, { lap, i + 1 } for the
\* pop of that lap.
StampCountsClaims ==
  \A i \in Slots :
    \/ stamp[i].index = i     /\ stamp[i].lap = HeadLap(i)
    \/ stamp[i].index = i + 1 /\ stamp[i].lap = TailLap(i) - 1

\* The call that owns a slot made the last claim on it and has not stored the
\* stamp yet.
OwnerHoldsSlot(t) ==
  /\ Writing(t) => /\ stamp[pos[t].index] = pos[t]
                   /\ TailLap(pos[t].index) = pos[t].lap + 1
  /\ Reading(t) => /\ stamp[pos[t].index] = PlusOne(pos[t])
                   /\ HeadLap(pos[t].index) = pos[t].lap + 1

OneOwner ==
  \A t, u \in Threads :
    /\ Writing(t) \/ Reading(t)
    /\ Writing(u) \/ Reading(u)
    /\ pos[t].index = pos[u].index
    => t = u

\* Stamps only grow: the stamp that allowed the compare-exchange is still there
\* or has been overtaken.
StampSeen(t) ==
  /\ pc[t] = "push_cas" => Leq(pos[t], stamp[pos[t].index])
  /\ pc[t] = "pop_cas" => Leq(PlusOne(pos[t]), stamp[pos[t].index])

\* Tail and head only grow: a position loaded from one is not ahead of it.
LoadedBehind(t) ==
  /\ pc[t] \in {"push_stamp", "push_cas", "push_full", "full_head",
                "size_head", "size_check"} => Leq(pos[t], tail)
  /\ pc[t] \in {"pop_stamp", "pop_cas", "pop_empty", "empty_tail"} => Leq(pos[t], head)

\* While the tail is what size() loaded, the head it loaded belongs to it.
SizeHeadFits(t) ==
  pc[t] = "size_check" /\ tail = pos[t] =>
    Leq(other[t], pos[t]) /\ Leq(pos[t], PlusLap(other[t]))

ThreadInv(t) == OwnerHoldsSlot(t) /\ StampSeen(t) /\ LoadedBehind(t) /\ SizeHeadFits(t)

IInv ==
  /\ TypeOK
  /\ ClaimsAlternate
  /\ StampCountsClaims
  /\ OneOwner
  /\ \A t \in Threads : ThreadInv(t)
=============================================================================
