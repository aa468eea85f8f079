--------------------------- MODULE SchedulerProofs ---------------------------
(***************************************************************************)
(* Proofs about Scheduler, for any threads and any number of coroutines:   *)
(* every coroutine is in one place, and exit goes to main.                 *)
(***************************************************************************)
EXTENDS Scheduler, TLAPS

Elems(q) == {q[k] : k \in DOMAIN q}
Once(q) == \A k, l \in DOMAIN q : q[k] = q[l] => k = l

ThreadStates == [cur : Ids \cup {NONE}, runners : Seq(Ids), yielders : Seq(Ids),
                 paused : SUBSET Ids, exiting : BOOLEAN]

\* What a thread's state holds, but for the current coroutine, and with it.
Waiting(s) == Elems(s.runners) \cup Elems(s.yielders) \cup s.paused
Owned(s) == Waiting(s) \cup ({s.cur} \ {NONE})

\* Nothing is in two of the queues, or twice in one.
Orderly(s) ==
  /\ s \in ThreadStates
  /\ Once(s.runners) /\ Once(s.yielders)
  /\ Elems(s.runners) \cap Elems(s.yielders) = {}
  /\ s.paused \cap (Elems(s.runners) \cup Elems(s.yielders)) = {}

Clean(s) == Orderly(s) /\ s.cur \notin Waiting(s)

\* Nothing in set B can be the next to run before main does.
Bars(B, s) ==
  /\ B \cap (Elems(s.runners) \cup {s.cur}) = {}
  /\ B # {} => s.exiting

Has(t) == Owned(sched[t])
Moved(t) == {moving[t].id} \ {NONE}

Types ==
  /\ MaxId \in Nat /\ NONE \notin Ids
  /\ sched \in [Threads -> ThreadStates]
  /\ next_id \in 0 .. MaxId
  /\ detached \subseteq Ids /\ finished \subseteq Ids
  /\ moving \in [Threads -> {NotMoving} \cup [op : {"detach", "attach"}, id : Ids]]
  /\ barred \in [Threads -> SUBSET Ids]

\* No coroutine is in two of the places ...
Parted ==
  /\ \A t \in Threads : Clean(sched[t])
  /\ \A t, u \in Threads : t # u => Has(t) \cap Has(u) = {} /\ Moved(t) \cap Moved(u) = {}
  /\ \A t, u \in Threads : Has(t) \cap Moved(u) = {}
  /\ \A t \in Threads : (Has(t) \cup Moved(t)) \cap (detached \cup finished) = {}
  /\ detached \cap finished = {}

\* ... and each that was started is in one.
Complete ==
  \A co : co \in 1 .. next_id <=>
            co \in detached \cup finished \/ \E t \in Threads : co \in Has(t) \cup Moved(t)

Barring == \A t \in Threads : Bars(barred[t], sched[t]) /\ barred[t] \subseteq 1 .. next_id

\* The inductive invariant.
IInv == Types /\ Parted /\ Complete /\ Barring

-----------------------------------------------------------------------------
(* Queues.                                                                 *)

LEMMA AppendFacts ==
  ASSUME NEW q \in Seq(Ids), NEW co \in Ids, Once(q), co \notin Elems(q)
  PROVE  /\ Append(q, co) \in Seq(Ids) /\ Once(Append(q, co))
         /\ Elems(Append(q, co)) = Elems(q) \cup {co}
<1>1. Len(q) \in Nat /\ DOMAIN q = 1 .. Len(q)
  OBVIOUS
<1>2. /\ Append(q, co) \in Seq(Ids) /\ DOMAIN Append(q, co) = 1 .. Len(q) + 1
      /\ \A i \in 1 .. Len(q) : Append(q, co)[i] = q[i]
      /\ Append(q, co)[Len(q) + 1] = co
  BY <1>1
<1>3. Once(Append(q, co))
  BY <1>1, <1>2 DEF Once, Elems
<1>4. Elems(Append(q, co)) = Elems(q) \cup {co}
  BY <1>1, <1>2 DEF Elems
<1> QED BY <1>2, <1>3, <1>4

LEMMA HeadFacts ==
  ASSUME NEW q \in Seq(Ids), Once(q), q # <<>>
  PROVE  /\ Head(q) \in Ids /\ Tail(q) \in Seq(Ids) /\ Once(Tail(q))
         /\ Head(q) \notin Elems(Tail(q)) /\ Elems(q) = Elems(Tail(q)) \cup {Head(q)}
<1>1. Len(q) \in Nat /\ Len(q) > 0 /\ DOMAIN q = 1 .. Len(q)
  OBVIOUS
<1>2. Head(q) = q[1] /\ Head(q) \in Ids /\ Tail(q) \in Seq(Ids) /\ Len(Tail(q)) = Len(q) - 1
  BY <1>1
<1>3. DOMAIN Tail(q) = 1 .. Len(q) - 1 /\ \A i \in 1 .. Len(q) - 1 : Tail(q)[i] = q[i + 1]
  BY <1>1, <1>2
<1>4. Once(Tail(q)) /\ Head(q) \notin Elems(Tail(q))
  BY <1>1, <1>2, <1>3 DEF Once, Elems
<1>5. Elems(q) \subseteq Elems(Tail(q)) \cup {Head(q)}
  <2> SUFFICES ASSUME NEW i \in 1 .. Len(q), i # 1 PROVE q[i] \in Elems(Tail(q))
    BY <1>1, <1>2 DEF Elems
  <2>1. i - 1 \in DOMAIN Tail(q) /\ Tail(q)[i - 1] = q[i]
    BY <1>1, <1>3
  <2> QED BY <2>1 DEF Elems
<1>6. Elems(Tail(q)) \cup {Head(q)} \subseteq Elems(q)
  BY <1>1, <1>2, <1>3 DEF Elems
<1> QED BY <1>2, <1>4, <1>5, <1>6

LEMMA EmptyFacts == <<>> \in Seq(Ids) /\ Once(<<>>) /\ Elems(<<>>) = {}
  BY DEF Once, Elems

LEMMA AddYielderFacts ==
  ASSUME NEW s, Orderly(s), NEW co \in Ids \ Waiting(s)
  PROVE  LET r == AddYielder(s, co) IN
         /\ Orderly(r) /\ Waiting(r) = Waiting(s) \cup {co}
         /\ r.cur = s.cur /\ r.runners = s.runners /\ r.exiting = s.exiting
<1> DEFINE r == AddYielder(s, co)
           q == Append(s.yielders, co)
<1>1. s \in ThreadStates /\ s.yielders \in Seq(Ids) /\ Once(s.yielders) /\ co \notin Elems(s.yielders)
  BY DEF Orderly, Waiting, ThreadStates
<1>2. q \in Seq(Ids) /\ Once(q) /\ Elems(q) = Elems(s.yielders) \cup {co}
  BY <1>1, AppendFacts
<1> HIDE DEF q
<1>3. /\ r \in ThreadStates /\ r.yielders = q
      /\ r.cur = s.cur /\ r.runners = s.runners /\ r.paused = s.paused /\ r.exiting = s.exiting
  BY <1>1, <1>2 DEF AddYielder, ThreadStates, q
<1> HIDE DEF r
<1> QED BY <1>2, <1>3 DEF Orderly, Waiting, r

LEMMA AddRunnerFacts ==
  ASSUME NEW s, Orderly(s), NEW co \in Ids \ Waiting(s)
  PROVE  LET r == AddRunner(s, co) IN
         /\ Orderly(r) /\ Waiting(r) = Waiting(s) \cup {co}
         /\ r.cur = s.cur /\ Elems(r.runners) = Elems(s.runners) \cup {co} /\ r.exiting = s.exiting
<1> DEFINE r == AddRunner(s, co)
           q == Append(s.runners, co)
<1>1. s \in ThreadStates /\ s.runners \in Seq(Ids) /\ Once(s.runners) /\ co \notin Elems(s.runners)
  BY DEF Orderly, Waiting, ThreadStates
<1>2. q \in Seq(Ids) /\ Once(q) /\ Elems(q) = Elems(s.runners) \cup {co}
  BY <1>1, AppendFacts
<1> HIDE DEF q
<1>3. /\ r \in ThreadStates /\ r.runners = q
      /\ r.cur = s.cur /\ r.yielders = s.yielders /\ r.paused = s.paused /\ r.exiting = s.exiting
  BY <1>1, <1>2 DEF AddRunner, ThreadStates, q
<1> HIDE DEF r
<1> QED BY <1>2, <1>3 DEF Orderly, Waiting, r

-----------------------------------------------------------------------------
(* Who is next.                                                            *)

\* The first of the runners, or of the yielders in their place.
LEMMA RunFirstFacts ==
  ASSUME NEW s, Orderly(s), s.runners # <<>>, NONE \notin Ids
  PROVE  LET r == RunFirst(s, s.runners) IN
         /\ Clean(r) /\ Owned(r) = Waiting(s)
         /\ \A B : B \cap Elems(s.runners) = {} /\ (B # {} => s.exiting) => Bars(B, r)
<1> DEFINE r == RunFirst(s, s.runners)
           q == s.runners
<1>1. s \in ThreadStates /\ q \in Seq(Ids) /\ Once(q)
  BY DEF Orderly, ThreadStates
<1>2. /\ Head(q) \in Ids /\ Tail(q) \in Seq(Ids) /\ Once(Tail(q))
      /\ Head(q) \notin Elems(Tail(q)) /\ Elems(q) = Elems(Tail(q)) \cup {Head(q)}
  BY <1>1, HeadFacts
<1>3. /\ r \in ThreadStates /\ r.cur = Head(q) /\ r.runners = Tail(q)
      /\ r.yielders = s.yielders /\ r.paused = s.paused /\ r.exiting = s.exiting
  BY <1>1, <1>2 DEF RunFirst, ThreadStates
<1>4. Orderly(r)
  BY <1>2, <1>3 DEF Orderly
<1>5. r.cur \notin Waiting(r) /\ Owned(r) = Waiting(s)
  BY <1>2, <1>3 DEF Orderly, Waiting, Owned
<1>6. \A B : B \cap Elems(q) = {} /\ (B # {} => s.exiting) => Bars(B, r)
  BY <1>2, <1>3 DEF Bars
<1> QED BY <1>4, <1>5, <1>6 DEF Clean

LEMMA SwitchFacts ==
  ASSUME NEW s, Orderly(s), NEW m \in BOOLEAN, NONE \notin Ids
  PROVE  LET r == Switch(s, m) IN
         /\ Clean(r) /\ Owned(r) = Waiting(s)
         /\ \A B : B \cap Elems(s.runners) = {} /\ (B # {} => s.exiting) =>
              Bars(IF r.cur = NONE THEN {} ELSE B, r)
<1> DEFINE r == Switch(s, m)
           Keeps(x) == /\ Clean(x) /\ Owned(x) = Waiting(s)
                       /\ \A B : B \cap Elems(s.runners) = {} /\ (B # {} => s.exiting) =>
                            Bars(IF x.cur = NONE THEN {} ELSE B, x)
<1>1. s \in ThreadStates
  BY DEF Orderly
<1>2. CASE s.runners # <<>>
  <2>1. r = RunFirst(s, s.runners)
    BY <1>2 DEF Switch
  <2>2. r.cur # NONE
    BY <1>1, <1>2, <2>1, HeadFacts DEF RunFirst, ThreadStates, Orderly
  <2> QED BY <1>2, <2>1, <2>2, RunFirstFacts
<1>3. CASE s.runners = <<>> /\ r = ReturnToMain(s)
  <2> DEFINE x == ReturnToMain(s)
  <2>1. /\ x \in ThreadStates /\ x.cur = NONE
        /\ x.runners = s.runners /\ x.yielders = s.yielders /\ x.paused = s.paused
    BY <1>1 DEF ReturnToMain, ThreadStates
  <2> HIDE DEF x
  <2>2. Waiting(s) \subseteq Ids
    BY <1>1 DEF Waiting, ThreadStates, Elems
  <2>3. Keeps(x)
    BY <2>1, <2>2 DEF Orderly, Waiting, Owned, Clean, Bars
  <2> QED BY <1>3, <2>3 DEF x
<1>4. CASE /\ s.runners = <<>> /\ s.yielders # <<>> /\ ~s.exiting
           /\ r = RunFirst([s EXCEPT !.yielders = <<>>], s.yielders)
  <2> DEFINE y == [s EXCEPT !.yielders = <<>>, !.runners = s.yielders]
             x == RunFirst(y, y.runners)
  <2>1. /\ y \in ThreadStates /\ y.runners = s.yielders /\ y.yielders = <<>>
        /\ y.paused = s.paused /\ y.exiting = s.exiting
    BY <1>1, EmptyFacts DEF ThreadStates
  <2>2. r = x
    BY <1>1, <1>4 DEF RunFirst, ThreadStates
  <2> HIDE DEF y
  <2>3. Orderly(y) /\ Waiting(y) = Waiting(s)
    BY <1>4, <2>1, EmptyFacts DEF Orderly, Waiting
  <2>4. /\ Clean(x) /\ Owned(x) = Waiting(y)
        /\ \A B : B \cap Elems(y.runners) = {} /\ (B # {} => y.exiting) => Bars(B, x)
    BY <1>4, <2>1, <2>3, RunFirstFacts
  <2> HIDE DEF x
  <2>5. \A B : (B # {} => s.exiting) => Bars(B, x)
    BY <1>4, <2>1, <2>4
  <2>6. Keeps(x)
    BY <1>4, <2>3, <2>4, <2>5
  <2> QED BY <2>2, <2>6
<1> QED BY <1>2, <1>3, <1>4 DEF Switch

-----------------------------------------------------------------------------
(* The inductive invariant, by what an action does to the places.           *)

LEMMA InitInv == MaxId \in Nat /\ NONE \notin Ids /\ Init => IInv
<1> SUFFICES ASSUME MaxId \in Nat, NONE \notin Ids, Init PROVE IInv
  OBVIOUS
<1> DEFINE s == [cur |-> NONE, runners |-> <<>>, yielders |-> <<>>, paused |-> {}, exiting |-> FALSE]
<1>1. /\ sched = [t \in Threads |-> s] /\ next_id = 0 /\ detached = {} /\ finished = {}
      /\ moving = [t \in Threads |-> NotMoving] /\ barred = [t \in Threads |-> {}]
  BY DEF Init
<1>2. s \in ThreadStates /\ Orderly(s) /\ Waiting(s) = {} /\ Owned(s) = {}
  BY EmptyFacts DEF ThreadStates, Orderly, Waiting, Owned
<1> HIDE DEF s
<1>3. Types
  BY <1>1, <1>2 DEF Types
<1>4. \A t \in Threads : Has(t) = {} /\ Moved(t) = {} /\ Clean(sched[t])
  BY <1>1, <1>2 DEF Has, Moved, NotMoving, Clean
<1>5. Parted /\ Complete
  BY <1>1, <1>4 DEF Parted, Complete
<1>6. Barring
  BY <1>1 DEF Barring, Bars
<1> QED BY <1>3, <1>5, <1>6 DEF IInv

\* What the invariant says of one thread.
LEMMA ThreadFacts ==
  ASSUME IInv, NEW t \in Threads
  PROVE  /\ sched[t] \in ThreadStates /\ Orderly(sched[t]) /\ Clean(sched[t])
         /\ sched[t].cur # NONE => sched[t].cur \in Ids \ Waiting(sched[t])
         /\ sched[t].cur # NONE => Has(t) = Waiting(sched[t]) \cup {sched[t].cur}
         /\ sched[t].cur = NONE => Has(t) = Waiting(sched[t])
         /\ Has(t) \subseteq 1 .. next_id /\ Has(t) \subseteq Ids
         /\ Bars(barred[t], sched[t])
<1>1. sched[t] \in ThreadStates /\ Clean(sched[t]) /\ Bars(barred[t], sched[t])
  BY DEF IInv, Types, Parted, Barring
<1>2. Has(t) \subseteq 1 .. next_id /\ 1 .. next_id \subseteq Ids
  BY DEF IInv, Complete, Types, Ids
<1>3. sched[t].cur \in Ids \cup {NONE}
  BY <1>1 DEF ThreadStates
<1> QED BY <1>1, <1>2, <1>3 DEF Clean, Has, Owned

\* A step that only rearranges what a thread has.
LEMMA Rearranged ==
  ASSUME IInv, NEW t \in Threads, NEW s, Becomes(t, s),
         UNCHANGED <<next_id, detached, moving, finished>>,
         Clean(s), Owned(s) = Has(t),
         Bars(IF s.cur = NONE THEN {} ELSE barred[t], s)
  PROVE  IInv'
<1>1. /\ sched' = [sched EXCEPT ![t] = s]
      /\ barred' = [barred EXCEPT ![t] = IF s.cur = NONE THEN {} ELSE @]
  BY DEF Becomes
<1>2. Types'
  BY <1>1 DEF IInv, Types, Clean, Orderly
<1>3. \A u \in Threads : Has(u)' = Has(u) /\ Moved(u)' = Moved(u) /\ Clean(sched'[u])
  BY <1>1 DEF IInv, Types, Parted, Has, Moved
<1>4. Parted' /\ Complete'
  BY <1>3 DEF IInv, Parted, Complete
<1>5. Barring'
  BY <1>1 DEF IInv, Types, Barring, Bars
<1> QED BY <1>2, <1>4, <1>5 DEF IInv

LEMMA YieldStep ==
  ASSUME IInv, NEW t \in Threads, Yield(t) PROVE IInv'
<1> DEFINE s == sched[t]
           y == AddYielder(s, s.cur)
           r == Switch(y, FALSE)
<1>1. s.cur # NONE /\ Becomes(t, r) /\ UNCHANGED <<next_id, detached, moving, finished>>
  BY DEF Yield, InCoroutine
<1>2. /\ Orderly(y) /\ Waiting(y) = Waiting(s) \cup {s.cur}
      /\ y.runners = s.runners /\ y.exiting = s.exiting
  BY <1>1, ThreadFacts, AddYielderFacts
<1>3. NONE \notin Ids /\ Has(t) = Waiting(y) /\ Bars(barred[t], s)
  BY <1>1, <1>2, ThreadFacts DEF IInv, Types
<1> HIDE DEF y
<1>4. /\ Clean(r) /\ Owned(r) = Waiting(y)
      /\ \A B : B \cap Elems(y.runners) = {} /\ (B # {} => y.exiting) =>
           Bars(IF r.cur = NONE THEN {} ELSE B, r)
  BY <1>2, <1>3, SwitchFacts
<1> HIDE DEF r
<1>5. Bars(IF r.cur = NONE THEN {} ELSE barred[t], r)
  BY <1>2, <1>3, <1>4 DEF Bars
<1> QED BY <1>1, <1>3, <1>4, <1>5, Rearranged

LEMMA PauseStep ==
  ASSUME IInv, NEW t \in Threads, Pause(t) PROVE IInv'
<1> DEFINE s == sched[t]
           y == [s EXCEPT !.paused = @ \cup {s.cur}]
           r == Switch(y, FALSE)
<1>1. s.cur # NONE /\ Becomes(t, r) /\ UNCHANGED <<next_id, detached, moving, finished>>
  BY DEF Pause, InCoroutine
<1>2. s \in ThreadStates /\ Orderly(s) /\ s.cur \in Ids \ Waiting(s)
  BY <1>1, ThreadFacts
<1>3. /\ y \in ThreadStates /\ y.runners = s.runners /\ y.yielders = s.yielders
      /\ y.paused = s.paused \cup {s.cur} /\ y.exiting = s.exiting
  BY <1>2 DEF ThreadStates
<1> HIDE DEF y
<1>4. Orderly(y) /\ Waiting(y) = Waiting(s) \cup {s.cur}
  BY <1>2, <1>3 DEF Orderly, Waiting
<1>5. NONE \notin Ids /\ Has(t) = Waiting(y) /\ Bars(barred[t], s)
  BY <1>1, <1>4, ThreadFacts DEF IInv, Types
<1>6. /\ Clean(r) /\ Owned(r) = Waiting(y)
      /\ \A B : B \cap Elems(y.runners) = {} /\ (B # {} => y.exiting) =>
           Bars(IF r.cur = NONE THEN {} ELSE B, r)
  BY <1>4, <1>5, SwitchFacts
<1> HIDE DEF r
<1>7. Bars(IF r.cur = NONE THEN {} ELSE barred[t], r)
  BY <1>3, <1>5, <1>6 DEF Bars
<1> QED BY <1>1, <1>5, <1>6, <1>7, Rearranged

LEMMA ResumeMainStep ==
  ASSUME IInv, NEW t \in Threads, ResumeMain(t) PROVE IInv'
<1> DEFINE s == sched[t]
           r == Switch(s, TRUE)
<1>1. s.cur = NONE /\ Becomes(t, r) /\ UNCHANGED <<next_id, detached, moving, finished>>
  BY DEF ResumeMain, InMain
<1>2. NONE \notin Ids /\ Orderly(s) /\ Has(t) = Waiting(s) /\ Bars(barred[t], s)
  BY <1>1, ThreadFacts DEF IInv, Types
<1>3. /\ Clean(r) /\ Owned(r) = Waiting(s)
      /\ \A B : B \cap Elems(s.runners) = {} /\ (B # {} => s.exiting) =>
           Bars(IF r.cur = NONE THEN {} ELSE B, r)
  BY <1>2, SwitchFacts
<1> HIDE DEF r
<1>4. Bars(IF r.cur = NONE THEN {} ELSE barred[t], r)
  BY <1>2, <1>3 DEF Bars
<1> QED BY <1>1, <1>2, <1>3, <1>4, Rearranged

\* A coroutine leaves the set of paused ones.
LEMMA Unpaused ==
  ASSUME NEW s, Clean(s), NEW co \in s.paused
  PROVE  LET r == [s EXCEPT !.paused = @ \ {co}] IN
         /\ Clean(r) /\ Waiting(r) = Waiting(s) \ {co} /\ Waiting(s) = Waiting(r) \cup {co}
         /\ r.cur = s.cur /\ r.runners = s.runners /\ r.exiting = s.exiting
         /\ co \in Ids \ Waiting(r) /\ co # s.cur
<1> DEFINE r == [s EXCEPT !.paused = @ \ {co}]
<1>1. s \in ThreadStates /\ Orderly(s) /\ s.cur \notin Waiting(s)
  BY DEF Clean, Orderly
<1>2. /\ r \in ThreadStates /\ r.runners = s.runners /\ r.yielders = s.yielders
      /\ r.paused = s.paused \ {co} /\ r.exiting = s.exiting /\ r.cur = s.cur /\ co \in Ids
  BY <1>1 DEF ThreadStates
<1> HIDE DEF r
<1> QED BY <1>1, <1>2 DEF Clean, Orderly, Waiting, r

LEMMA ResumeStep ==
  ASSUME IInv, NEW t \in Threads, NEW co \in Ids, Resume(t, co) PROVE IInv'
<1> DEFINE s == sched[t]
           p == [s EXCEPT !.paused = @ \ {co}]
           y == AddYielder(p, co)
           z == AddYielder(y, y.cur)
<1>1. /\ co \in s.paused /\ Becomes(t, IF y.cur = NONE THEN y ELSE Switch(z, FALSE))
      /\ UNCHANGED <<next_id, detached, moving, finished>>
  BY DEF Resume
<1>2. NONE \notin Ids /\ Clean(s) /\ Bars(barred[t], s) /\ s.cur \in Ids \cup {NONE}
  BY ThreadFacts DEF IInv, Types, ThreadStates
<1>3. /\ Clean(p) /\ Waiting(p) = Waiting(s) \ {co} /\ Waiting(s) = Waiting(p) \cup {co}
      /\ p.cur = s.cur /\ p.runners = s.runners /\ p.exiting = s.exiting
      /\ co \in Ids \ Waiting(p) /\ co # s.cur
  BY <1>1, <1>2, Unpaused
<1> HIDE DEF p
<1>4. /\ Orderly(y) /\ Waiting(y) = Waiting(s)
      /\ y.cur = s.cur /\ y.runners = s.runners /\ y.exiting = s.exiting
  BY <1>3, AddYielderFacts DEF Clean
<1> HIDE DEF y
<1>5. CASE y.cur = NONE
  <2>1. Becomes(t, y)
    BY <1>1, <1>5
  <2>2. Owned(y) = Has(t) /\ Clean(y)
    BY <1>2, <1>4, ThreadFacts DEF Owned, Has, Clean
  <2>3. Bars(IF y.cur = NONE THEN {} ELSE barred[t], y)
    BY <1>5 DEF Bars
  <2> QED BY <1>1, <2>1, <2>2, <2>3, Rearranged
<1>6. CASE y.cur # NONE
  <2> DEFINE r == Switch(z, FALSE)
  <2>1. Becomes(t, r)
    BY <1>1, <1>6
  <2>2. y.cur \in Ids \ Waiting(y)
    BY <1>2, <1>4, <1>6 DEF Clean
  <2>3. /\ Orderly(z) /\ Waiting(z) = Waiting(y) \cup {y.cur}
        /\ z.runners = y.runners /\ z.exiting = y.exiting
    BY <1>4, <2>2, AddYielderFacts
  <2> HIDE DEF z
  <2>4. /\ Clean(r) /\ Owned(r) = Waiting(z)
        /\ \A B : B \cap Elems(z.runners) = {} /\ (B # {} => z.exiting) =>
             Bars(IF r.cur = NONE THEN {} ELSE B, r)
    BY <1>2, <2>3, SwitchFacts
  <2> HIDE DEF r
  <2>5. Owned(r) = Has(t)
    BY <1>4, <1>6, <2>3, <2>4, ThreadFacts
  <2>6. Bars(IF r.cur = NONE THEN {} ELSE barred[t], r)
    BY <1>2, <1>4, <2>3, <2>4 DEF Bars
  <2> QED BY <1>1, <2>1, <2>4, <2>5, <2>6, Rearranged
<1> QED BY <1>5, <1>6

LEMMA StartStep ==
  ASSUME IInv, NEW t \in Threads, Start(t) PROVE IInv'
<1> DEFINE s == sched[t]
           new == next_id + 1
           w == IF s.cur = NONE THEN s ELSE AddRunner(s, s.cur)
           r == [w EXCEPT !.cur = new]
<1>1. Becomes(t, r) /\ next_id < MaxId /\ next_id' = new /\ UNCHANGED <<detached, moving, finished>>
  BY DEF Start
<1>2. /\ next_id \in Nat /\ new \in Ids /\ new \notin 1 .. next_id
      /\ 1 .. new = 1 .. next_id \cup {new} /\ 1 .. next_id \subseteq Ids
  BY <1>1 DEF IInv, Types, Ids
<1>3. /\ Orderly(s) /\ Bars(barred[t], s) /\ Has(t) \subseteq 1 .. next_id
      /\ barred[t] \subseteq 1 .. next_id
  BY ThreadFacts DEF IInv, Barring
<1>4. /\ Orderly(w) /\ Waiting(w) = Has(t) /\ w.exiting = s.exiting
      /\ Elems(w.runners) \subseteq Elems(s.runners) \cup {s.cur}
  <2>1. CASE s.cur = NONE
    BY <1>3, <2>1, ThreadFacts
  <2>2. CASE s.cur # NONE
    <3>1. s.cur \in Ids \ Waiting(s) /\ Has(t) = Waiting(s) \cup {s.cur}
      BY <2>2, ThreadFacts
    <3>2. w = AddRunner(s, s.cur)
      BY <2>2
    <3> QED BY <1>3, <3>1, <3>2, AddRunnerFacts
  <2> QED BY <2>1, <2>2
<1> HIDE DEF w
<1>5. /\ r \in ThreadStates /\ r.cur = new /\ r.runners = w.runners /\ r.yielders = w.yielders
      /\ r.paused = w.paused /\ r.exiting = w.exiting
  BY <1>2, <1>4 DEF Orderly, ThreadStates
<1> HIDE DEF r
<1>6. NONE \notin Ids /\ new # NONE
  BY <1>2 DEF IInv, Types
<1>7. Waiting(r) = Has(t)
  BY <1>4, <1>5 DEF Waiting
<1>8. Clean(r) /\ Owned(r) = Has(t) \cup {new}
  BY <1>2, <1>3, <1>4, <1>5, <1>6, <1>7 DEF Clean, Orderly, Owned
<1>9. Bars(barred[t], r)
  BY <1>2, <1>3, <1>4, <1>5 DEF Bars
<1>10. sched' = [sched EXCEPT ![t] = r] /\ UNCHANGED barred
  BY <1>1, <1>5, <1>6 DEF Becomes, IInv, Types
<1>11. Types'
  <2>1. next_id' \in 0 .. MaxId
    BY <1>1, <1>2 DEF IInv, Types
  <2> QED BY <1>1, <1>5, <1>10, <2>1 DEF IInv, Types
<1>12. /\ Has(t)' = Has(t) \cup {new} /\ Clean(sched'[t])
       /\ \A u \in Threads \ {t} : Has(u)' = Has(u) /\ Clean(sched'[u])
       /\ \A u \in Threads : Moved(u)' = Moved(u)
  BY <1>1, <1>8, <1>10 DEF IInv, Types, Parted, Has, Moved
<1>13. /\ new \notin detached \cup finished
       /\ \A u \in Threads : new \notin Has(u) \cup Moved(u)
  BY <1>2 DEF IInv, Complete
<1>14. Parted'
  BY <1>1, <1>12, <1>13 DEF IInv, Parted
<1>15. Complete'
  BY <1>1, <1>2, <1>12 DEF IInv, Complete
<1>16. Barring'
  BY <1>1, <1>2, <1>9, <1>10 DEF IInv, Types, Barring, Bars
<1> QED BY <1>11, <1>14, <1>15, <1>16 DEF IInv

\* A coroutine that finishes leaves what the thread has, and B is barred from now.
LEMMA Finished ==
  ASSUME IInv, NEW t \in Threads, NEW s, NEW B, sched[t].cur # NONE,
         sched' = [sched EXCEPT ![t] = s], barred' = [barred EXCEPT ![t] = B],
         finished' = finished \cup {sched[t].cur},
         UNCHANGED <<next_id, detached, moving>>,
         Clean(s), Owned(s) = Waiting(sched[t]), Bars(B, s), B \subseteq 1 .. next_id
  PROVE  IInv'
<1> DEFINE co == sched[t].cur
<1>1. co \in Ids /\ co \in Has(t) /\ Owned(s) = Has(t) \ {co} /\ 1 .. next_id \subseteq Ids
  BY ThreadFacts DEF IInv, Types, Ids
<1> HIDE DEF co
<1>2. finished' = finished \cup {co}
  BY DEF co
<1>3. Types'
  BY <1>1, <1>2 DEF IInv, Types, Clean, Orderly
<1>4. /\ Has(t)' = Has(t) \ {co} /\ Clean(sched'[t])
      /\ \A u \in Threads \ {t} : Has(u)' = Has(u) /\ Clean(sched'[u])
      /\ \A u \in Threads : Moved(u)' = Moved(u)
  BY <1>1 DEF IInv, Types, Parted, Has, Moved
<1>5. Parted'
  BY <1>1, <1>2, <1>4 DEF IInv, Parted
<1>6. Complete'
  BY <1>1, <1>2, <1>4 DEF IInv, Complete
<1>7. Barring'
  BY DEF IInv, Types, Barring
<1> QED BY <1>3, <1>5, <1>6, <1>7 DEF IInv

LEMMA FinishStep ==
  ASSUME IInv, NEW t \in Threads, Finish(t) PROVE IInv'
<1> DEFINE s == sched[t]
           r == Switch(s, FALSE)
           B == IF r.cur = NONE THEN {} ELSE barred[t]
<1>1. /\ s.cur # NONE /\ Becomes(t, r) /\ finished' = finished \cup {s.cur}
      /\ UNCHANGED <<next_id, detached, moving>>
  BY DEF Finish, InCoroutine
<1>2. NONE \notin Ids /\ Orderly(s) /\ Bars(barred[t], s) /\ barred[t] \subseteq 1 .. next_id
  BY ThreadFacts DEF IInv, Types, Barring
<1>3. /\ Clean(r) /\ Owned(r) = Waiting(s)
      /\ \A A : A \cap Elems(s.runners) = {} /\ (A # {} => s.exiting) =>
           Bars(IF r.cur = NONE THEN {} ELSE A, r)
  BY <1>2, SwitchFacts
<1> HIDE DEF r
<1>4. Bars(B, r) /\ B \subseteq 1 .. next_id
  BY <1>2, <1>3 DEF Bars
<1>5. sched' = [sched EXCEPT ![t] = r] /\ barred' = [barred EXCEPT ![t] = B]
  BY <1>1 DEF Becomes
<1> QED BY <1>1, <1>3, <1>4, <1>5, Finished

\* From exit on the yielders are barred, and they are no runners.
LEMMA ExitStep ==
  ASSUME IInv, NEW t \in Threads, Exit(t) PROVE IInv'
<1> DEFINE s == sched[t]
           e == [s EXCEPT !.exiting = TRUE]
           r == Switch(e, FALSE)
           B == IF r.cur = NONE THEN {} ELSE Elems(s.yielders)
<1>1. /\ s.cur # NONE /\ finished' = finished \cup {s.cur}
      /\ sched' = [sched EXCEPT ![t] = r] /\ barred' = [barred EXCEPT ![t] = B]
      /\ UNCHANGED <<next_id, detached, moving>>
  BY DEF Exit, InCoroutine, Elems
<1>2. NONE \notin Ids /\ Orderly(s) /\ s \in ThreadStates /\ Has(t) \subseteq 1 .. next_id
  BY ThreadFacts DEF IInv, Types
<1>3. /\ e \in ThreadStates /\ e.runners = s.runners /\ e.yielders = s.yielders
      /\ e.paused = s.paused /\ e.exiting
  BY <1>2 DEF ThreadStates
<1> HIDE DEF e
<1>4. Orderly(e) /\ Waiting(e) = Waiting(s)
  BY <1>2, <1>3 DEF Orderly, Waiting
<1>5. /\ Clean(r) /\ Owned(r) = Waiting(e)
      /\ \A A : A \cap Elems(e.runners) = {} /\ (A # {} => e.exiting) =>
           Bars(IF r.cur = NONE THEN {} ELSE A, r)
  BY <1>2, <1>4, SwitchFacts
<1> HIDE DEF r
<1>6. Bars(B, r)
  BY <1>2, <1>3, <1>5 DEF Orderly
<1>7. B \subseteq 1 .. next_id
  BY <1>2 DEF Has, Owned, Waiting
<1> HIDE DEF B
<1> QED BY <1>1, <1>4, <1>5, <1>6, <1>7, Finished

LEMMA DetachStep ==
  ASSUME IInv, NEW t \in Threads, NEW co \in Ids, Detach(t, co) PROVE IInv'
<1> DEFINE s == sched[t]
           r == [s EXCEPT !.paused = @ \ {co}]
<1>1. /\ moving[t] = NotMoving /\ co \in s.paused /\ Becomes(t, r)
      /\ moving' = [moving EXCEPT ![t] = [op |-> "detach", id |-> co]]
      /\ UNCHANGED <<detached, next_id, finished>>
  BY DEF Detach, Free
<1>2. Clean(s) /\ Bars(barred[t], s) /\ NONE \notin Ids
  BY ThreadFacts DEF IInv, Types
<1>3. /\ Clean(r) /\ Waiting(r) = Waiting(s) \ {co} /\ Waiting(s) = Waiting(r) \cup {co}
      /\ r.cur = s.cur /\ r.runners = s.runners /\ r.exiting = s.exiting /\ co # s.cur
  BY <1>1, <1>2, Unpaused
<1> HIDE DEF r
<1>4. Owned(r) = Has(t) \ {co} /\ co \in Has(t)
  BY <1>3 DEF Owned, Has
<1>5. /\ sched' = [sched EXCEPT ![t] = r]
      /\ barred' = [barred EXCEPT ![t] = IF r.cur = NONE THEN {} ELSE @]
  BY <1>1 DEF Becomes
<1>6. Types'
  BY <1>1, <1>3, <1>5 DEF IInv, Types, Clean, Orderly
<1>7. /\ Has(t)' = Has(t) \ {co} /\ Clean(sched'[t])
      /\ \A u \in Threads \ {t} : Has(u)' = Has(u) /\ Clean(sched'[u])
  BY <1>3, <1>4, <1>5 DEF IInv, Types, Parted, Has
<1>8. /\ Moved(t)' = {co} /\ Moved(t) = {}
      /\ \A u \in Threads \ {t} : Moved(u)' = Moved(u)
  BY <1>1, <1>2 DEF IInv, Types, Moved, NotMoving
<1>9. Parted'
  BY <1>1, <1>4, <1>7, <1>8 DEF IInv, Parted
<1>10. Complete'
  BY <1>1, <1>4, <1>7, <1>8 DEF IInv, Complete
<1>11. Barring'
  BY <1>1, <1>2, <1>3, <1>5 DEF IInv, Types, Barring, Bars
<1> QED BY <1>6, <1>9, <1>10, <1>11 DEF IInv

LEMMA AttachInsertStep ==
  ASSUME IInv, NEW t \in Threads, AttachInsert(t) PROVE IInv'
<1> DEFINE s == sched[t]
           co == moving[t].id
           r == [s EXCEPT !.paused = @ \cup {co}]
<1>1. /\ moving[t].op = "attach" /\ Becomes(t, r)
      /\ moving' = [moving EXCEPT ![t] = NotMoving] /\ UNCHANGED <<detached, next_id, finished>>
  BY DEF AttachInsert
<1>2. s \in ThreadStates /\ Clean(s) /\ Bars(barred[t], s) /\ NONE \notin Ids
  BY ThreadFacts DEF IInv, Types
<1>3. co \in Ids /\ Moved(t) = {co} /\ co \notin Has(t)
  <2>1. co \in Ids
    BY <1>1 DEF IInv, Types, NotMoving
  <2> QED BY <1>2, <2>1 DEF Moved, IInv, Parted
<1> HIDE DEF co
<1>4. /\ r \in ThreadStates /\ r.runners = s.runners /\ r.yielders = s.yielders
      /\ r.paused = s.paused \cup {co} /\ r.exiting = s.exiting /\ r.cur = s.cur
  BY <1>2, <1>3 DEF ThreadStates
<1> HIDE DEF r
<1>5. co \notin Waiting(s) /\ co # s.cur
  BY <1>2, <1>3 DEF Has, Owned
<1>6. Clean(r) /\ Owned(r) = Has(t) \cup {co}
  BY <1>2, <1>4, <1>5 DEF Clean, Orderly, Waiting, Owned, Has
<1>7. /\ sched' = [sched EXCEPT ![t] = r]
      /\ barred' = [barred EXCEPT ![t] = IF r.cur = NONE THEN {} ELSE @]
  BY <1>1 DEF Becomes
<1>8. Types'
  BY <1>1, <1>4, <1>7 DEF IInv, Types
<1>9. /\ Has(t)' = Has(t) \cup {co} /\ Clean(sched'[t])
      /\ \A u \in Threads \ {t} : Has(u)' = Has(u) /\ Clean(sched'[u])
  BY <1>6, <1>7 DEF IInv, Types, Parted, Has
<1>10. Moved(t)' = {} /\ \A u \in Threads \ {t} : Moved(u)' = Moved(u)
  BY <1>1 DEF IInv, Types, Moved, NotMoving
<1>11. Parted'
  BY <1>1, <1>3, <1>9, <1>10 DEF IInv, Parted
<1>12. Complete'
  BY <1>1, <1>3, <1>9, <1>10 DEF IInv, Complete
<1>13. Barring'
  BY <1>1, <1>2, <1>4, <1>7 DEF IInv, Types, Barring, Bars
<1> QED BY <1>8, <1>11, <1>12, <1>13 DEF IInv

\* Into and out of the set of detached coroutines.
LEMMA DetachedStep ==
  ASSUME IInv, NEW t \in Threads, DetachInsert(t) \/ \E co \in Ids : Attach(t, co) PROVE IInv'
<1>1. UNCHANGED <<sched, next_id, finished, barred>>
  BY DEF DetachInsert, Attach
<1>2. \A u \in Threads : Has(u)' = Has(u) /\ Clean(sched'[u])
  BY <1>1 DEF IInv, Parted, Has
<1>3. CASE DetachInsert(t)
  <2> DEFINE co == moving[t].id
  <2>1. co \in Ids /\ Moved(t) = {co}
    BY <1>3 DEF DetachInsert, IInv, Types, Moved, NotMoving
  <2> HIDE DEF co
  <2>2. detached' = detached \cup {co} /\ moving' = [moving EXCEPT ![t] = NotMoving]
    BY <1>3 DEF DetachInsert, co
  <2>3. Types'
    BY <1>1, <2>1, <2>2 DEF IInv, Types
  <2>4. Moved(t)' = {} /\ \A u \in Threads \ {t} : Moved(u)' = Moved(u)
    BY <2>2 DEF IInv, Types, Moved, NotMoving
  <2>5. Parted'
    BY <1>1, <1>2, <2>1, <2>2, <2>4 DEF IInv, Parted
  <2>6. Complete'
    BY <1>1, <1>2, <2>1, <2>2, <2>4 DEF IInv, Complete
  <2> QED BY <1>1, <2>3, <2>5, <2>6 DEF IInv, Barring
<1>4. ASSUME NEW co \in Ids, Attach(t, co) PROVE IInv'
  <2>1. /\ moving[t] = NotMoving /\ co \in detached /\ detached' = detached \ {co}
        /\ moving' = [moving EXCEPT ![t] = [op |-> "attach", id |-> co]]
    BY <1>4 DEF Attach, Free
  <2>2. Types'
    BY <1>1, <2>1 DEF IInv, Types
  <2>3. /\ Moved(t)' = {co} /\ Moved(t) = {}
        /\ \A u \in Threads \ {t} : Moved(u)' = Moved(u)
    BY <2>1 DEF IInv, Types, Moved, NotMoving
  <2>4. Parted'
    BY <1>1, <1>2, <2>1, <2>3 DEF IInv, Parted
  <2>5. Complete'
    BY <1>1, <1>2, <2>1, <2>3 DEF IInv, Complete
  <2> QED BY <1>1, <2>2, <2>4, <2>5 DEF IInv, Barring
<1> QED BY <1>3, <1>4

LEMMA StutterStep == IInv /\ UNCHANGED vars => IInv'
  BY DEF vars, IInv, Types, Parted, Complete, Barring, Has, Moved

LEMMA NextInv == IInv /\ [Next]_vars => IInv'
<1> SUFFICES ASSUME IInv, [Next]_vars PROVE IInv'
  OBVIOUS
<1>1. ASSUME NEW t \in Threads, Start(t) \/ Finish(t) \/ Exit(t) PROVE IInv'
  BY <1>1, StartStep, FinishStep, ExitStep
<1>2. ASSUME NEW t \in Threads, Yield(t) \/ Pause(t) \/ ResumeMain(t) PROVE IInv'
  BY <1>2, YieldStep, PauseStep, ResumeMainStep
<1>3. ASSUME NEW t \in Threads, NEW co \in Ids, Resume(t, co) \/ Detach(t, co) \/ Attach(t, co)
      PROVE  IInv'
  BY <1>3, ResumeStep, DetachStep, DetachedStep
<1>4. ASSUME NEW t \in Threads, DetachInsert(t) \/ AttachInsert(t) PROVE IInv'
  BY <1>4, DetachedStep, AttachInsertStep
<1>5. CASE UNCHANGED vars
  BY <1>5, StutterStep
<1> QED BY <1>1, <1>2, <1>3, <1>4, <1>5 DEF Next

\* Each thread owns what it has in queues that share nothing, no two threads own
\* the same coroutine, and what was started is owned, moved, detached or finished.
THEOREM Invariant ==
  ASSUME MaxId \in Nat, NONE \notin Ids PROVE Spec => []IInv
<1>1. Init => IInv BY InitInv
<1>2. IInv /\ [Next]_vars => IInv' BY NextInv
<1> QED BY <1>1, <1>2, PTL DEF Spec

-----------------------------------------------------------------------------
(* The places of a coroutine.                                              *)

QueuePlaces(co) ==
  UNION {{<<t, "runners", k>> : k \in Queued(sched[t].runners, co)}
           \cup {<<t, "yielders", k>> : k \in Queued(sched[t].yielders, co)} : t \in Threads}
CurrentPlaces(co)  == {<<t, "current", 0>> : t \in {u \in Threads : sched[u].cur = co}}
PausedPlaces(co)   == {<<t, "paused", 0>> : t \in {u \in Threads : co \in sched[u].paused}}
MovingPlaces(co)   == {<<t, "moving", 0>> : t \in {u \in Threads : moving[u].id = co}}
DetachedPlaces(co) == {<<NONE, "detached", 0>> : S \in {{co} \cap detached} \ {{}}}
FinishedPlaces(co) == {<<NONE, "finished", 0>> : S \in {{co} \cap finished} \ {{}}}

LEMMA PlacesUnfold ==
  ASSUME NEW co
  PROVE  Places(co) = QueuePlaces(co) \cup CurrentPlaces(co) \cup PausedPlaces(co)
                        \cup MovingPlaces(co) \cup DetachedPlaces(co) \cup FinishedPlaces(co)
  BY DEF Places, QueuePlaces, CurrentPlaces, PausedPlaces, MovingPlaces, DetachedPlaces, FinishedPlaces

LEMMA QueuedFacts ==
  ASSUME NEW q, NEW co, Once(q)
  PROVE  /\ co \notin Elems(q) => Queued(q, co) = {}
         /\ co \in Elems(q) => \E k : Queued(q, co) = {k}
<1>1. ASSUME co \notin Elems(q) PROVE Queued(q, co) = {}
  BY <1>1 DEF Queued, Elems
<1>2. ASSUME co \in Elems(q) PROVE \E k : Queued(q, co) = {k}
  <2>1. PICK k \in DOMAIN q : q[k] = co
    BY <1>2 DEF Elems
  <2>2. Queued(q, co) = {k}
    BY <2>1 DEF Queued, Once
  <2> QED BY <2>2
<1> QED BY <1>1, <1>2

LEMMA NotQueued ==
  ASSUME IInv, NEW co, \A u \in Threads : co \notin Elems(sched[u].runners) \cup Elems(sched[u].yielders)
  PROVE  QueuePlaces(co) = {}
<1>1. \A u \in Threads : Queued(sched[u].runners, co) = {} /\ Queued(sched[u].yielders, co) = {}
  BY ThreadFacts, QueuedFacts DEF Orderly
<1> QED BY <1>1 DEF QueuePlaces

\* Queued once, with one thread.
LEMMA QueuedOnce ==
  ASSUME IInv, NEW co, NEW t \in Threads, co \in Elems(sched[t].runners) \cup Elems(sched[t].yielders),
         \A u \in Threads \ {t} : co \notin Elems(sched[u].runners) \cup Elems(sched[u].yielders)
  PROVE  \E p : QueuePlaces(co) = {p}
<1> DEFINE R(u) == Queued(sched[u].runners, co)
           Y(u) == Queued(sched[u].yielders, co)
           At(u) == {<<u, "runners", k>> : k \in R(u)} \cup {<<u, "yielders", k>> : k \in Y(u)}
<1>1. \A u \in Threads \ {t} : At(u) = {}
  <2>1. \A u \in Threads \ {t} : R(u) = {} /\ Y(u) = {}
    BY ThreadFacts, QueuedFacts DEF Orderly
  <2> QED BY <2>1
<1>2. \E p : At(t) = {p}
  <2>1. Orderly(sched[t])
    BY ThreadFacts
  <2>2. CASE co \in Elems(sched[t].runners)
    <3>1. Y(t) = {} /\ \E k : R(t) = {k}
      BY <2>1, <2>2, QueuedFacts DEF Orderly
    <3>2. PICK k : R(t) = {k}
      BY <3>1
    <3>3. At(t) = {<<t, "runners", k>>}
      BY <3>1, <3>2
    <3> QED BY <3>3
  <2>3. CASE co \in Elems(sched[t].yielders)
    <3>1. R(t) = {} /\ \E k : Y(t) = {k}
      BY <2>1, <2>3, QueuedFacts DEF Orderly
    <3>2. PICK k : Y(t) = {k}
      BY <3>1
    <3>3. At(t) = {<<t, "yielders", k>>}
      BY <3>1, <3>2
    <3> QED BY <3>3
  <2> QED BY <2>2, <2>3
<1>3. QueuePlaces(co) = UNION {At(u) : u \in Threads}
  BY DEF QueuePlaces
<1> HIDE DEF At
<1>4. UNION {At(u) : u \in Threads} = At(t)
  BY <1>1
<1> QED BY <1>2, <1>3, <1>4

LEMMA SinglePlaces ==
  ASSUME NEW co
  PROVE  /\ (\A u \in Threads : sched[u].cur # co) => CurrentPlaces(co) = {}
         /\ (\A u \in Threads : co \notin sched[u].paused) => PausedPlaces(co) = {}
         /\ (\A u \in Threads : moving[u].id # co) => MovingPlaces(co) = {}
         /\ co \notin detached => DetachedPlaces(co) = {}
         /\ co \in detached => DetachedPlaces(co) = {<<NONE, "detached", 0>>}
         /\ co \notin finished => FinishedPlaces(co) = {}
         /\ co \in finished => FinishedPlaces(co) = {<<NONE, "finished", 0>>}
<1>1. (\A u \in Threads : sched[u].cur # co) => CurrentPlaces(co) = {}
  BY DEF CurrentPlaces
<1>2. (\A u \in Threads : co \notin sched[u].paused) => PausedPlaces(co) = {}
  BY DEF PausedPlaces
<1>3. (\A u \in Threads : moving[u].id # co) => MovingPlaces(co) = {}
  BY DEF MovingPlaces
<1>4. /\ co \notin detached => DetachedPlaces(co) = {}
      /\ co \in detached => DetachedPlaces(co) = {<<NONE, "detached", 0>>}
  <2>1. ASSUME co \notin detached PROVE DetachedPlaces(co) = {}
    <3>1. {{co} \cap detached} \ {{}} = {}
      BY <2>1
    <3> QED BY <3>1 DEF DetachedPlaces
  <2>2. ASSUME co \in detached PROVE DetachedPlaces(co) = {<<NONE, "detached", 0>>}
    <3>1. {{co} \cap detached} \ {{}} = {{co}}
      BY <2>2
    <3> QED BY <3>1 DEF DetachedPlaces
  <2> QED BY <2>1, <2>2
<1>5. /\ co \notin finished => FinishedPlaces(co) = {}
      /\ co \in finished => FinishedPlaces(co) = {<<NONE, "finished", 0>>}
  <2>1. ASSUME co \notin finished PROVE FinishedPlaces(co) = {}
    <3>1. {{co} \cap finished} \ {{}} = {}
      BY <2>1
    <3> QED BY <3>1 DEF FinishedPlaces
  <2>2. ASSUME co \in finished PROVE FinishedPlaces(co) = {<<NONE, "finished", 0>>}
    <3>1. {{co} \cap finished} \ {{}} = {{co}}
      BY <2>2
    <3> QED BY <3>1 DEF FinishedPlaces
  <2> QED BY <2>1, <2>2
<1> QED BY <1>1, <1>2, <1>3, <1>4, <1>5

LEMMA OnePlace ==
  ASSUME IInv, NEW co \in 1 .. next_id PROVE \E p \in Places(co) : Places(co) = {p}
<1> USE PlacesUnfold, SinglePlaces
<1>1. co # NONE /\ (co \in detached \cup finished \/ \E t \in Threads : co \in Has(t) \cup Moved(t))
  BY DEF IInv, Types, Complete, Ids
<1>2. \A u \in Threads :
        /\ co \notin Has(u) => /\ co \notin Elems(sched[u].runners) \cup Elems(sched[u].yielders)
                               /\ co \notin sched[u].paused /\ co # sched[u].cur
        /\ co \notin Moved(u) => co # moving[u].id
  BY <1>1 DEF Has, Moved, Owned, Waiting
<1> SUFFICES \E p : Places(co) = {p}
  OBVIOUS
<1>3. CASE co \in detached \cup finished
  <2>1. \A u \in Threads : co \notin Has(u) /\ co \notin Moved(u)
    BY <1>3 DEF IInv, Parted
  <2>2. /\ QueuePlaces(co) = {} /\ CurrentPlaces(co) = {} /\ PausedPlaces(co) = {}
        /\ MovingPlaces(co) = {}
    BY <1>2, <2>1, NotQueued
  <2>3. \/ co \in detached /\ co \notin finished
        \/ co \in finished /\ co \notin detached
    BY <1>3 DEF IInv, Parted
  <2> QED BY <2>2, <2>3
<1>4. ASSUME NEW t \in Threads, co \in Moved(t) PROVE \E p : Places(co) = {p}
  <2>1. /\ co \notin detached \cup finished /\ \A u \in Threads : co \notin Has(u)
        /\ \A u \in Threads \ {t} : co \notin Moved(u)
    BY <1>4 DEF IInv, Parted
  <2>2. QueuePlaces(co) = {} /\ CurrentPlaces(co) = {} /\ PausedPlaces(co) = {}
    BY <1>2, <2>1, NotQueued
  <2>3. {u \in Threads : moving[u].id = co} = {t}
    BY <1>2, <1>4, <2>1 DEF Moved
  <2>4. MovingPlaces(co) = {<<t, "moving", 0>>}
    BY <2>3 DEF MovingPlaces
  <2> QED BY <2>1, <2>2, <2>4
<1>5. ASSUME NEW t \in Threads, co \in Has(t) PROVE \E p : Places(co) = {p}
  <2>1. /\ co \notin detached \cup finished /\ \A u \in Threads : co \notin Moved(u)
        /\ \A u \in Threads \ {t} : co \notin Has(u)
    BY <1>5 DEF IInv, Parted
  <2>2. MovingPlaces(co) = {} /\ DetachedPlaces(co) = {} /\ FinishedPlaces(co) = {}
    BY <1>2, <2>1
  <2>3. Clean(sched[t]) /\ Orderly(sched[t])
    BY ThreadFacts
  <2>4. CASE co \in Elems(sched[t].runners) \cup Elems(sched[t].yielders)
    <3>1. co # sched[t].cur /\ co \notin sched[t].paused
      BY <2>3, <2>4 DEF Clean, Orderly, Waiting
    <3>2. CurrentPlaces(co) = {} /\ PausedPlaces(co) = {}
      BY <1>2, <2>1, <3>1
    <3>3. \E p : QueuePlaces(co) = {p}
      BY <1>2, <2>1, <2>4, QueuedOnce
    <3> QED BY <2>2, <3>2, <3>3
  <2>5. CASE co \in sched[t].paused
    <3>1. co # sched[t].cur /\ co \notin Elems(sched[t].runners) \cup Elems(sched[t].yielders)
      BY <2>3, <2>5 DEF Clean, Orderly, Waiting
    <3>2. CurrentPlaces(co) = {} /\ QueuePlaces(co) = {}
      BY <1>2, <2>1, <3>1, NotQueued
    <3>3. {u \in Threads : co \in sched[u].paused} = {t}
      BY <1>2, <2>1, <2>5
    <3>4. PausedPlaces(co) = {<<t, "paused", 0>>}
      BY <3>3 DEF PausedPlaces
    <3> QED BY <2>2, <3>2, <3>4
  <2>6. CASE co = sched[t].cur
    <3>1. co \notin sched[t].paused /\ co \notin Elems(sched[t].runners) \cup Elems(sched[t].yielders)
      BY <2>3, <2>6 DEF Clean, Waiting
    <3>2. PausedPlaces(co) = {} /\ QueuePlaces(co) = {}
      BY <1>2, <2>1, <3>1, NotQueued
    <3>3. {u \in Threads : sched[u].cur = co} = {t}
      BY <1>2, <2>1, <2>6
    <3>4. CurrentPlaces(co) = {<<t, "current", 0>>}
      BY <3>3 DEF CurrentPlaces
    <3> QED BY <2>2, <3>2, <3>4
  <2> QED BY <1>5, <2>4, <2>5, <2>6 DEF Has, Owned, Waiting
<1> QED BY <1>1, <1>3, <1>4, <1>5

\* No coroutine is lost, queued twice, on two threads or run after it finished,
\* for any number of threads and coroutines and any order of calls.
THEOREM CoroutinesAreInOnePlace ==
  ASSUME MaxId \in Nat, NONE \notin Ids PROVE Spec => []InOnePlace
<1>1. IInv => InOnePlace
  BY OnePlace DEF InOnePlace
<1> QED BY <1>1, Invariant, PTL

\* After exit, main runs before any coroutine that had yielded does.
THEOREM ExitLeadsToMain ==
  ASSUME MaxId \in Nat, NONE \notin Ids PROVE Spec => []ExitGoesToMain
<1>1. IInv => ExitGoesToMain
  BY DEF IInv, Barring, Bars, ExitGoesToMain
<1> QED BY <1>1, Invariant, PTL
=============================================================================
