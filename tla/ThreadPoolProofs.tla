-------------------------- MODULE ThreadPoolProofs --------------------------
(***************************************************************************)
(* Proofs about ThreadPool, for any pools, workers, callers and jobs: jobs *)
(* are run once and lost to a full queue only, wait returns when they have *)
(* finished, and drop frees a pool when its workers are gone, whatever     *)
(* other pools do to the flag all pools share; about Semaphore, on which   *)
(* the workers wait: it is the counting semaphore ThreadPool takes it for; *)
(* and about Arc, the pointers that threads share an object with, for any  *)
(* finite number of them.                                                  *)
(***************************************************************************)
EXTENDS ThreadPool, Semaphore, Arc, FiniteSetTheorems, TLAPS

WorkersOf(p) == {w \in Workers : PoolOf(w) = p}

AlivePCs   == {"loop", "sem", "awake", "begin", "pull", "pull_post", "run", "end", "exit"}
WorkingPCs == {"pull", "pull_post", "run", "end"}

AliveAt(p)   == {w \in WorkersOf(p) : pc[w] \in AlivePCs}
WorkingAt(p) == {w \in WorkersOf(p) : pc[w] \in WorkingPCs}

\* The counters count the workers.
CountsWorkers ==
  \A p \in Pools : alive[p] = Cardinality(AliveAt(p)) /\ working[p] = Cardinality(WorkingAt(p))

\* A pool is handed out when all its workers have come up, and freed when all have
\* left.
Stages ==
  \A w \in Workers :
    /\ state[PoolOf(w)] = "none" => pc[w] = "none"
    /\ state[PoolOf(w)] = "starting" => pc[w] # "none"
    /\ state[PoolOf(w)] \in {"ready", "dropping", "freed"} => pc[w] \notin {"none", "init"}
    /\ state[PoolOf(w)] = "freed" => pc[w] \in {"unlock", "dead"}

\* A call finds its pool in the state it needs; new and drop have it for themselves.
Calling ==
  /\ \A c \in Callers :
       /\ call[c] # "idle" => target[c] \in Pools
       /\ call[c] = "new" => state[target[c]] = "starting"
       /\ call[c] = "drop" => state[target[c]] = "dropping"
       /\ call[c] \in {"add", "wait", "asleep"} => state[target[c]] = "ready"
  /\ \A c, d \in Callers :
       call[c] \in {"new", "drop"} /\ call[d] # "idle" /\ target[c] = target[d] => c = d

HoldsJob == \A w \in Workers : job[w] # NONE <=> pc[w] \in {"pull_post", "run"}

\* Every job is in one place, and belongs to the pool it was added to.
Places ==
  /\ \A p \in Pools : IsInjective(jobs[p]) /\ Queued(p) \subseteq added[p] /\ Queued(p) \cap finished = {}
  /\ \A w \in Workers : job[w] # NONE => /\ job[w] \in added[PoolOf(w)]
                                         /\ job[w] \notin Queued(PoolOf(w)) \cup finished
  /\ \A v, w \in Workers : job[v] = job[w] /\ job[v] # NONE => v = w
  /\ \A p, q \in Pools : p # q => added[p] \cap added[q] = {}
  /\ \A j \in finished : \E p \in Pools : j \in added[p]
  /\ \A p \in Pools : state[p] # "freed" =>
       \A j \in added[p] :
         \/ j \in Queued(p) \cup finished \cup lost
         \/ \E w \in WorkersOf(p) : job[w] = j

\* The inductive invariant.
IInv == TypeOK /\ CountsWorkers /\ Stages /\ Calling /\ HoldsJob /\ Places

-----------------------------------------------------------------------------
(* Queues and finite sets.                                                 *)

LEMMA PopFacts ==
  ASSUME NEW s \in Seq(Jobs), s # <<>>, IsInjective(s)
  PROVE  /\ Head(s) \in Jobs /\ Tail(s) \in Seq(Jobs) /\ IsInjective(Tail(s))
         /\ ToSet(s) = ToSet(Tail(s)) \cup {Head(s)} /\ Head(s) \notin ToSet(Tail(s))
<1>1. Len(s) \in Nat /\ Len(s) > 0 /\ DOMAIN s = 1 .. Len(s)
  OBVIOUS
<1>2. Head(s) = s[1] /\ Head(s) \in Jobs /\ Tail(s) \in Seq(Jobs) /\ Len(Tail(s)) = Len(s) - 1
  BY <1>1
<1>3. DOMAIN Tail(s) = 1 .. Len(s) - 1 /\ \A i \in 1 .. Len(s) - 1 : Tail(s)[i] = s[i + 1]
  BY <1>1, <1>2
<1>4. IsInjective(Tail(s)) /\ Head(s) \notin ToSet(Tail(s))
  BY <1>1, <1>2, <1>3 DEF IsInjective, ToSet
<1>5. ToSet(s) = ToSet(Tail(s)) \cup {Head(s)}
  <2>1. ToSet(s) \subseteq ToSet(Tail(s)) \cup {Head(s)}
    <3> SUFFICES ASSUME NEW i \in 1 .. Len(s), i # 1 PROVE s[i] \in ToSet(Tail(s))
      BY <1>1, <1>2 DEF ToSet
    <3>1. i - 1 \in DOMAIN Tail(s) /\ Tail(s)[i - 1] = s[i]
      BY <1>1, <1>3
    <3> QED BY <3>1 DEF ToSet
  <2>2. ToSet(Tail(s)) \cup {Head(s)} \subseteq ToSet(s)
    BY <1>1, <1>2, <1>3 DEF ToSet
  <2> QED BY <2>1, <2>2
<1> QED BY <1>2, <1>4, <1>5

LEMMA PushFacts ==
  ASSUME NEW s \in Seq(Jobs), NEW j \in Jobs, IsInjective(s), j \notin ToSet(s)
  PROVE  /\ Append(s, j) \in Seq(Jobs) /\ IsInjective(Append(s, j))
         /\ ToSet(Append(s, j)) = ToSet(s) \cup {j}
<1>1. Len(s) \in Nat /\ DOMAIN s = 1 .. Len(s)
  OBVIOUS
<1>2. /\ Append(s, j) \in Seq(Jobs) /\ DOMAIN Append(s, j) = 1 .. Len(s) + 1
      /\ \A i \in 1 .. Len(s) : Append(s, j)[i] = s[i]
      /\ Append(s, j)[Len(s) + 1] = j
  BY <1>1
<1>3. IsInjective(Append(s, j))
  BY <1>1, <1>2 DEF IsInjective, ToSet
<1>4. ToSet(Append(s, j)) = ToSet(s) \cup {j}
  BY <1>1, <1>2 DEF ToSet
<1> QED BY <1>2, <1>3, <1>4

LEMMA WorkersFinite ==
  ASSUME NEW p \in Pools
  PROVE  IsFiniteSet(WorkersOf(p)) /\ Cardinality(WorkersOf(p)) = NumThreads
<1> DEFINE f == [i \in 0 .. NumThreads - 1 |-> <<p, i>>]
<1>1. NumThreads \in Nat \ {0}
  BY NumThreadsAssumption
<1>2. ExistsBijection(0 .. NumThreads - 1, WorkersOf(p))
  <2>1. f \in [0 .. NumThreads - 1 -> WorkersOf(p)]
    BY DEF WorkersOf, Workers, PoolOf
  <2>2. \A i, k \in 0 .. NumThreads - 1 : f[i] = f[k] => i = k
    OBVIOUS
  <2>3. \A w \in WorkersOf(p) : \E i \in 0 .. NumThreads - 1 : f[i] = w
    BY DEF WorkersOf, Workers, PoolOf
  <2> HIDE DEF f
  <2> QED BY <2>1, <2>2, <2>3 DEF ExistsBijection, Bijection, Injection, Surjection, IsInjective
<1>3. IsFiniteSet(0 .. NumThreads - 1) /\ Cardinality(0 .. NumThreads - 1) = NumThreads
  BY <1>1, FS_Interval
<1> QED BY <1>2, <1>3, FS_Bijection

LEMMA SetsFinite ==
  ASSUME NEW p \in Pools
  PROVE  /\ IsFiniteSet(AliveAt(p)) /\ Cardinality(AliveAt(p)) \in Nat
         /\ IsFiniteSet(WorkingAt(p)) /\ Cardinality(WorkingAt(p)) \in Nat
  BY WorkersFinite, FS_Subset, FS_CardinalityType DEF AliveAt, WorkingAt

-----------------------------------------------------------------------------
LEMMA InitInv == Init => IInv
<1> SUFFICES ASSUME Init PROVE IInv
  OBVIOUS
<1>1. \A p \in Pools : AliveAt(p) = {} /\ WorkingAt(p) = {}
  BY DEF Init, AliveAt, WorkingAt, AlivePCs, WorkingPCs, WorkersOf
<1>2. TypeOK
  <2>1. <<>> \in Seq(Jobs)
    OBVIOUS
  <2>2. jobs \in [Pools -> Seq(Jobs)]
    BY <2>1 DEF Init
  <2>3. added \in [Pools -> SUBSET Jobs] /\ others \in 0 .. MaxOthers
    BY QueueAssumption DEF Init
  <2> QED BY <2>2, <2>3 DEF Init, TypeOK
<1>3. CountsWorkers
  BY <1>1, FS_EmptySet DEF Init, CountsWorkers
<1>4. Stages /\ Calling /\ HoldsJob
  BY DEF Init, Stages, Calling, HoldsJob, Workers, PoolOf
<1>5. Places
  BY DEF Init, Places, Queued, ToSet, IsInjective
<1> QED BY <1>2, <1>3, <1>4, <1>5 DEF IInv

LEMMA TypeStep ==
  ASSUME IInv, Next PROVE TypeOK'
<1> USE DEF Goto, GotoCall, pools, workers, callers, history, Post, MayCall
<1>0. TypeOK /\ QueueCapacity \in Nat \ {0}
  BY QueueAssumption DEF IInv
<1>1. ASSUME NEW w \in Workers, WorkerStep(w) PROVE TypeOK'
  <2> PoolOf(w) \in Pools
    BY DEF Workers, PoolOf
  <2>1. CASE Up(w) BY <1>0, <2>1 DEF Up, TypeOK
  <2>2. CASE Loop(w) BY <1>0, <2>2 DEF Loop, TypeOK
  <2>3. CASE SemWait(w) BY <1>0, <2>3 DEF SemWait, TypeOK
  <2>4. CASE Awake(w) BY <1>0, <2>4 DEF Awake, TypeOK
  <2>5. CASE BeginWork(w) BY <1>0, <2>5 DEF BeginWork, TypeOK
  <2>6. CASE Pull(w)
    <3>1. jobs[PoolOf(w)] # <<>> =>
            Head(jobs[PoolOf(w)]) \in Jobs /\ Tail(jobs[PoolOf(w)]) \in Seq(Jobs)
      BY <1>0, PopFacts DEF IInv, Places, TypeOK
    <3>2. CASE jobs[PoolOf(w)] = <<>>
      BY <1>0, <2>6, <3>2 DEF Pull, TypeOK
    <3>3. CASE jobs[PoolOf(w)] # <<>>
      <4> DEFINE s == jobs[PoolOf(w)]
      <4>1. PICK j \in Jobs, q \in Seq(Jobs) : j = Head(s) /\ q = Tail(s)
        BY <3>1, <3>3
      <4>2. job' = [job EXCEPT ![w] = j] /\ jobs' = [jobs EXCEPT ![PoolOf(w)] = q]
        BY <2>6, <3>3, <4>1 DEF Pull
      <4>3. jobs' \in [Pools -> Seq(Jobs)] /\ job' \in [Workers -> Jobs \cup {NONE}]
        BY <1>0, <4>2 DEF TypeOK
      <4> QED BY <1>0, <2>6, <4>3 DEF Pull, TypeOK
    <3> QED BY <3>2, <3>3
  <2>7. CASE PullPost(w) BY <1>0, <2>7 DEF PullPost, TypeOK
  <2>8. CASE Run(w)
    <3>1. job[w] \in Jobs
      BY <1>0, <2>8 DEF Run, IInv, HoldsJob, TypeOK
    <3> QED BY <1>0, <2>8, <3>1 DEF Run, TypeOK
  <2>9. CASE EndWork(w)
    <3>1. working[PoolOf(w)] - 1 \in Nat
      <4>1. w \in WorkingAt(PoolOf(w))
        BY <2>9 DEF EndWork, WorkingAt, WorkingPCs, WorkersOf
      <4>2. Cardinality(WorkingAt(PoolOf(w))) # 0
        BY <4>1, SetsFinite, FS_EmptySet
      <4> QED BY <4>2, SetsFinite DEF IInv, CountsWorkers
    <3>2. call' \in [Callers -> {"idle", "new", "add", "wait", "asleep", "drop"}]
      <4>1. UNCHANGED call \/ \E c \in Asleep(PoolOf(w)) : call' = [call EXCEPT ![c] = "wait"]
        BY <2>9 DEF EndWork, Signal
      <4>2. call \in [Callers -> {"idle", "new", "add", "wait", "asleep", "drop"}]
        BY <1>0 DEF TypeOK
      <4> QED BY <4>1, <4>2 DEF Asleep
    <3> QED BY <1>0, <2>9, <3>1, <3>2 DEF EndWork, TypeOK
  <2>10. CASE Exit(w)
    <3>1. alive[PoolOf(w)] - 1 \in Nat
      <4>1. w \in AliveAt(PoolOf(w))
        BY <2>10 DEF Exit, AliveAt, AlivePCs, WorkersOf
      <4>2. Cardinality(AliveAt(PoolOf(w))) # 0
        BY <4>1, SetsFinite, FS_EmptySet
      <4> QED BY <4>2, SetsFinite DEF IInv, CountsWorkers
    <3> QED BY <1>0, <2>10, <3>1 DEF Exit, TypeOK
  <2>11. CASE Unlock(w) BY <1>0, <2>11 DEF Unlock, TypeOK
  <2> QED BY <1>1, <2>1, <2>2, <2>3, <2>4, <2>5, <2>6, <2>7, <2>8, <2>9, <2>10, <2>11 DEF WorkerStep
<1>2. ASSUME NEW c \in Callers, NEW p \in Pools,
             \/ New(c, p) \/ Wait(c, p) \/ Pause(c, p) \/ Drop(c, p)
             \/ \E j \in Jobs : AddWork(c, p, j)
      PROVE  TypeOK'
  <2>1. CASE New(c, p) BY <1>0, <2>1 DEF New, TypeOK
  <2>2. CASE Wait(c, p) BY <1>0, <2>2 DEF Wait, TypeOK
  <2>3. CASE Pause(c, p) BY <1>0, <2>3 DEF Pause, TypeOK
  <2>4. CASE Drop(c, p) BY <1>0, <2>4 DEF Drop, TypeOK
  <2>5. ASSUME NEW j \in Jobs, AddWork(c, p, j) PROVE TypeOK'
    <3>1. Append(jobs[p], j) \in Seq(Jobs)
      BY <1>0 DEF TypeOK
    <3>2. jobs' \in [Pools -> Seq(Jobs)] /\ lost' \subseteq Jobs
      BY <1>0, <2>5, <3>1 DEF AddWork, TypeOK
    <3> QED BY <1>0, <2>5, <3>2 DEF AddWork, TypeOK
  <2> QED BY <1>2, <2>1, <2>2, <2>3, <2>4, <2>5
<1>3. ASSUME NEW c \in Callers, CallStep(c) \/ WakeSpuriously(c) PROVE TypeOK'
  <2>0. call[c] # "idle" => target[c] \in Pools
    BY DEF IInv, Calling
  <2>1. CASE NewReturns(c) BY <1>0, <2>0, <2>1 DEF NewReturns, TypeOK
  <2>2. CASE AddPost(c) BY <1>0, <2>0, <2>2 DEF AddPost, TypeOK
  <2>3. CASE WaitSleeps(c) BY <1>0, <2>0, <2>3 DEF WaitSleeps, TypeOK
  <2>4. CASE WaitReturns(c) BY <1>0, <2>0, <2>4 DEF WaitReturns, TypeOK
  <2>5. CASE DropPost(c) BY <1>0, <2>0, <2>5 DEF DropPost, TypeOK
  <2>6. CASE DropFree(c) BY <1>0, <2>0, <2>6 DEF DropFree, TypeOK
  <2>7. CASE WakeSpuriously(c) BY <1>0, <2>0, <2>7 DEF WakeSpuriously, TypeOK
  <2> QED BY <1>3, <2>1, <2>2, <2>3, <2>4, <2>5, <2>6, <2>7 DEF CallStep
<1>4. CASE OtherPool
  BY <1>0, <1>4, QueueAssumption DEF OtherPool, TypeOK
<1> QED BY <1>1, <1>2, <1>3, <1>4 DEF Next, Begin

-----------------------------------------------------------------------------
(* The counters.                                                           *)

\* How the sets of workers change when one of them goes on, and their sizes.
LEMMA Moves ==
  ASSUME TypeOK, NEW w \in Workers, NEW to, pc' = [pc EXCEPT ![w] = to], NEW p \in Pools
  PROVE  /\ p # PoolOf(w) => AliveAt(p)' = AliveAt(p) /\ WorkingAt(p)' = WorkingAt(p)
         /\ p = PoolOf(w) =>
              /\ AliveAt(p)' = IF to \in AlivePCs THEN AliveAt(p) \cup {w} ELSE AliveAt(p) \ {w}
              /\ WorkingAt(p)' = IF to \in WorkingPCs THEN WorkingAt(p) \cup {w} ELSE WorkingAt(p) \ {w}
<1>1. \A v \in Workers : pc'[v] = IF v = w THEN to ELSE pc[v]
  BY DEF TypeOK
<1> QED BY <1>1 DEF AliveAt, WorkingAt, WorkersOf

LEMMA Counts ==
  ASSUME TypeOK, NEW w \in Workers, NEW to, pc' = [pc EXCEPT ![w] = to], NEW p, p = PoolOf(w)
  PROVE  /\ Cardinality(AliveAt(p)') = Cardinality(AliveAt(p))
               + (IF to \in AlivePCs THEN 1 ELSE 0) - (IF pc[w] \in AlivePCs THEN 1 ELSE 0)
         /\ Cardinality(WorkingAt(p)') = Cardinality(WorkingAt(p))
               + (IF to \in WorkingPCs THEN 1 ELSE 0) - (IF pc[w] \in WorkingPCs THEN 1 ELSE 0)
<1>1. p \in Pools
  BY DEF Workers, PoolOf
<1>2. (w \in AliveAt(p) <=> pc[w] \in AlivePCs) /\ (w \in WorkingAt(p) <=> pc[w] \in WorkingPCs)
  BY DEF AliveAt, WorkingAt, WorkersOf
<1>3. \A S : IsFiniteSet(S) =>
        /\ Cardinality(S) \in Nat
        /\ Cardinality(S \cup {w}) = Cardinality(S) + (IF w \in S THEN 0 ELSE 1)
        /\ Cardinality(S \ {w}) = Cardinality(S) - (IF w \in S THEN 1 ELSE 0)
  BY FS_CardinalityType, FS_AddElement, FS_RemoveElement
<1>4. IsFiniteSet(AliveAt(p)) /\ IsFiniteSet(WorkingAt(p))
  BY <1>1, SetsFinite
<1>5. /\ AliveAt(p)' = IF to \in AlivePCs THEN AliveAt(p) \cup {w} ELSE AliveAt(p) \ {w}
      /\ WorkingAt(p)' = IF to \in WorkingPCs THEN WorkingAt(p) \cup {w} ELSE WorkingAt(p) \ {w}
  BY <1>1, Moves
<1>6. Cardinality(AliveAt(p)') = Cardinality(AliveAt(p))
               + (IF to \in AlivePCs THEN 1 ELSE 0) - (IF pc[w] \in AlivePCs THEN 1 ELSE 0)
  <2> DEFINE A == AliveAt(p)
  <2>1. /\ IsFiniteSet(A) /\ (w \in A <=> pc[w] \in AlivePCs)
        /\ AliveAt(p)' = IF to \in AlivePCs THEN A \cup {w} ELSE A \ {w}
    BY <1>2, <1>4, <1>5
  <2>2. /\ Cardinality(A) \in Nat
        /\ Cardinality(A \cup {w}) = Cardinality(A) + (IF w \in A THEN 0 ELSE 1)
        /\ Cardinality(A \ {w}) = Cardinality(A) - (IF w \in A THEN 1 ELSE 0)
    BY <1>3, <2>1
  <2> HIDE DEF A
  <2>3. CASE to \in AlivePCs
    BY <2>1, <2>2, <2>3 DEF A
  <2>4. CASE to \notin AlivePCs
    BY <2>1, <2>2, <2>4 DEF A
  <2> QED BY <2>3, <2>4
<1>7. Cardinality(WorkingAt(p)') = Cardinality(WorkingAt(p))
               + (IF to \in WorkingPCs THEN 1 ELSE 0) - (IF pc[w] \in WorkingPCs THEN 1 ELSE 0)
  <2> DEFINE A == WorkingAt(p)
  <2>1. /\ IsFiniteSet(A) /\ (w \in A <=> pc[w] \in WorkingPCs)
        /\ WorkingAt(p)' = IF to \in WorkingPCs THEN A \cup {w} ELSE A \ {w}
    BY <1>2, <1>4, <1>5
  <2>2. /\ Cardinality(A) \in Nat
        /\ Cardinality(A \cup {w}) = Cardinality(A) + (IF w \in A THEN 0 ELSE 1)
        /\ Cardinality(A \ {w}) = Cardinality(A) - (IF w \in A THEN 1 ELSE 0)
    BY <1>3, <2>1
  <2> HIDE DEF A
  <2>3. CASE to \in WorkingPCs
    BY <2>1, <2>2, <2>3 DEF A
  <2>4. CASE to \notin WorkingPCs
    BY <2>1, <2>2, <2>4 DEF A
  <2> QED BY <2>3, <2>4
<1> QED BY <1>6, <1>7

\* A step of a worker, by where it leads, and what it does to the counters.
Counted(w, to, da, dw) ==
  /\ pc' = [pc EXCEPT ![w] = to]
  /\ alive' = [alive EXCEPT ![PoolOf(w)] = @ + da]
  /\ working' = [working EXCEPT ![PoolOf(w)] = @ + dw]
  /\ da = (IF to \in AlivePCs THEN 1 ELSE 0) - (IF pc[w] \in AlivePCs THEN 1 ELSE 0)
  /\ dw = (IF to \in WorkingPCs THEN 1 ELSE 0) - (IF pc[w] \in WorkingPCs THEN 1 ELSE 0)

LEMMA CountedStep ==
  ASSUME TypeOK, CountsWorkers, NEW w \in Workers, NEW to, NEW da \in Int, NEW dw \in Int,
         Counted(w, to, da, dw)
  PROVE  CountsWorkers'
<1> SUFFICES ASSUME NEW p \in Pools
             PROVE  alive'[p] = Cardinality(AliveAt(p)') /\ working'[p] = Cardinality(WorkingAt(p)')
  BY DEF CountsWorkers
<1>1. pc' = [pc EXCEPT ![w] = to] /\ PoolOf(w) \in Pools
  BY DEF Counted, Workers, PoolOf
<1>2. CASE p # PoolOf(w)
  <2>1. AliveAt(p)' = AliveAt(p) /\ WorkingAt(p)' = WorkingAt(p)
    BY <1>1, <1>2, Moves
  <2>2. alive'[p] = alive[p] /\ working'[p] = working[p]
    BY <1>2 DEF Counted, TypeOK
  <2> QED BY <2>1, <2>2 DEF CountsWorkers
<1>3. CASE p = PoolOf(w)
  <2>1. alive'[p] = alive[p] + da /\ working'[p] = working[p] + dw
    BY <1>3 DEF Counted, TypeOK
  <2>2. /\ Cardinality(AliveAt(p)') = Cardinality(AliveAt(p))
               + (IF to \in AlivePCs THEN 1 ELSE 0) - (IF pc[w] \in AlivePCs THEN 1 ELSE 0)
        /\ Cardinality(WorkingAt(p)') = Cardinality(WorkingAt(p))
               + (IF to \in WorkingPCs THEN 1 ELSE 0) - (IF pc[w] \in WorkingPCs THEN 1 ELSE 0)
    BY <1>1, <1>3, Counts
  <2>3. Cardinality(AliveAt(p)) \in Nat /\ Cardinality(WorkingAt(p)) \in Nat
    BY SetsFinite
  <2> QED BY <2>1, <2>2, <2>3 DEF CountsWorkers, Counted
<1> QED BY <1>2, <1>3

LEMMA CountsStep ==
  ASSUME IInv, Next PROVE CountsWorkers'
<1>0. TypeOK /\ CountsWorkers
  BY DEF IInv
<1>1. ASSUME NEW w \in Workers, WorkerStep(w) PROVE CountsWorkers'
  <2> USE DEF Goto, pools, AlivePCs, WorkingPCs
  <2>0. /\ PoolOf(w) \in Pools /\ alive \in [Pools -> Nat] /\ working \in [Pools -> Nat]
        /\ alive = [alive EXCEPT ![PoolOf(w)] = @ + 0]
        /\ working = [working EXCEPT ![PoolOf(w)] = @ + 0]
    BY <1>0 DEF Workers, PoolOf, TypeOK
  <2>1. CASE Up(w)
    <3>1. Counted(w, "loop", 1, 0)
      BY <2>0, <2>1 DEF Up, Counted
    <3> QED BY <1>0, <3>1, CountedStep
  <2>2. CASE Loop(w)
    <3>1. Counted(w, IF keepalive THEN "sem" ELSE "exit", 0, 0)
      BY <2>0, <2>2 DEF Loop, Counted
    <3> QED BY <1>0, <3>1, CountedStep
  <2>3. CASE SemWait(w)
    <3>1. Counted(w, "awake", 0, 0)
      BY <2>0, <2>3 DEF SemWait, Counted
    <3> QED BY <1>0, <3>1, CountedStep
  <2>4. CASE Awake(w)
    <3>1. Counted(w, IF keepalive THEN "begin" ELSE "loop", 0, 0)
      BY <2>0, <2>4 DEF Awake, Counted
    <3> QED BY <1>0, <3>1, CountedStep
  <2>5. CASE BeginWork(w)
    <3>1. Counted(w, "pull", 0, 1)
      BY <2>0, <2>5 DEF BeginWork, Counted
    <3> QED BY <1>0, <3>1, CountedStep
  <2>6. CASE Pull(w)
    <3>1. Counted(w, IF jobs[PoolOf(w)] = <<>> THEN "end" ELSE "pull_post", 0, 0)
      BY <2>0, <2>6 DEF Pull, Counted
    <3> QED BY <1>0, <3>1, CountedStep
  <2>7. CASE PullPost(w)
    <3>1. Counted(w, "run", 0, 0)
      BY <2>0, <2>7 DEF PullPost, Counted
    <3> QED BY <1>0, <3>1, CountedStep
  <2>8. CASE Run(w)
    <3>1. Counted(w, "end", 0, 0)
      BY <2>0, <2>8 DEF Run, Counted
    <3> QED BY <1>0, <3>1, CountedStep
  <2>9. CASE EndWork(w)
    <3>1. working[PoolOf(w)] - 1 = working[PoolOf(w)] + -1
      BY <2>0
    <3>2. working' = [working EXCEPT ![PoolOf(w)] = @ + -1]
      BY <2>9, <3>1 DEF EndWork
    <3>3. pc[w] = "end" /\ pc' = [pc EXCEPT ![w] = "loop"] /\ alive' = alive
      BY <2>9 DEF EndWork
    <3>4. Counted(w, "loop", 0, -1)
      BY <2>0, <3>2, <3>3 DEF Counted
    <3> QED BY <1>0, <3>4, CountedStep
  <2>10. CASE Exit(w)
    <3>1. alive[PoolOf(w)] - 1 = alive[PoolOf(w)] + -1
      BY <2>0
    <3>2. alive' = [alive EXCEPT ![PoolOf(w)] = @ + -1]
      BY <2>10, <3>1 DEF Exit
    <3>3. pc[w] = "exit" /\ pc' = [pc EXCEPT ![w] = "unlock"] /\ working' = working
      BY <2>10 DEF Exit
    <3>4. Counted(w, "unlock", -1, 0)
      BY <2>0, <3>2, <3>3 DEF Counted
    <3> QED BY <1>0, <3>4, CountedStep
  <2>11. CASE Unlock(w)
    <3>1. Counted(w, "dead", 0, 0)
      BY <2>0, <2>11 DEF Unlock, Counted
    <3> QED BY <1>0, <3>1, CountedStep
  <2> QED BY <1>1, <2>1, <2>2, <2>3, <2>4, <2>5, <2>6, <2>7, <2>8, <2>9, <2>10, <2>11 DEF WorkerStep
<1>2. CASE UNCHANGED <<pc, alive, working>>
  BY <1>0, <1>2 DEF CountsWorkers, AliveAt, WorkingAt
<1>3. ASSUME NEW c \in Callers, NEW p \in Pools, New(c, p) PROVE CountsWorkers'
  <2>1. \A w \in Workers : pc'[w] # pc[w] => pc[w] = "none" /\ pc'[w] = "init"
    BY <1>3 DEF New, IInv, Stages
  <2>2. \A q \in Pools : AliveAt(q)' = AliveAt(q) /\ WorkingAt(q)' = WorkingAt(q)
    BY <2>1 DEF AliveAt, WorkingAt, WorkersOf, AlivePCs, WorkingPCs
  <2> QED BY <1>0, <1>3, <2>2 DEF New, CountsWorkers
<1>4. ASSUME NEW c \in Callers, NEW p \in Pools,
             Wait(c, p) \/ Pause(c, p) \/ Drop(c, p) \/ \E j \in Jobs : AddWork(c, p, j)
      PROVE  UNCHANGED <<pc, alive, working>>
  BY <1>4 DEF Wait, Pause, Drop, AddWork, pools, workers
<1>5. ASSUME NEW c \in Callers, CallStep(c) \/ WakeSpuriously(c)
      PROVE  UNCHANGED <<pc, alive, working>>
  BY <1>5 DEF CallStep, WakeSpuriously, NewReturns, AddPost, WaitSleeps, WaitReturns, DropPost, DropFree,
              pools, workers
<1>6. OtherPool => UNCHANGED <<pc, alive, working>>
  BY DEF OtherPool, pools, workers
<1> QED BY <1>1, <1>2, <1>3, <1>4, <1>5, <1>6 DEF Next, Begin

-----------------------------------------------------------------------------
(* The life of a pool and of the calls.                                    *)

LEMMA AllOrNone ==
  ASSUME IInv, NEW p \in Pools
  PROVE  /\ alive[p] = NumThreads => \A w \in WorkersOf(p) : pc[w] \in AlivePCs
         /\ alive[p] = 0 => \A w \in WorkersOf(p) : pc[w] \notin AlivePCs
         /\ working[p] = 0 => \A w \in WorkersOf(p) : pc[w] \notin WorkingPCs
<1>1. alive[p] = Cardinality(AliveAt(p)) /\ working[p] = Cardinality(WorkingAt(p))
  BY DEF IInv, CountsWorkers
<1>2. alive[p] = NumThreads => AliveAt(p) = WorkersOf(p)
  BY <1>1, WorkersFinite, FS_Subset DEF AliveAt
<1>3. (alive[p] = 0 => AliveAt(p) = {}) /\ (working[p] = 0 => WorkingAt(p) = {})
  BY <1>1, SetsFinite, FS_EmptySet
<1> QED BY <1>2, <1>3 DEF AliveAt, WorkingAt

LEMMA StagesStep ==
  ASSUME IInv, Next PROVE Stages'
<1>0. TypeOK /\ Stages
  BY DEF IInv
<1>1. ASSUME NEW w \in Workers, WorkerStep(w) PROVE Stages'
  <2>1. state' = state
    BY <1>1 DEF WorkerStep, Up, Loop, SemWait, Awake, BeginWork, Pull, PullPost, Run, EndWork, Exit, Unlock, pools
  <2>2. \A v \in Workers : v # w => pc'[v] = pc[v]
    BY <1>0, <1>1 DEF WorkerStep, Up, Loop, SemWait, Awake, BeginWork, Pull, PullPost, Run, EndWork, Exit,
                      Unlock, Goto, TypeOK
  <2>3. /\ pc[w] \notin {"none", "dead"} /\ pc'[w] \notin {"none", "init"}
        /\ pc[w] = "unlock" => pc'[w] = "dead"
    BY <1>0, <1>1 DEF WorkerStep, Up, Loop, SemWait, Awake, BeginWork, Pull, PullPost, Run, EndWork, Exit,
                      Unlock, Goto, TypeOK
  <2> QED BY <1>0, <2>1, <2>2, <2>3 DEF Stages
<1>2. CASE UNCHANGED <<pc, state>>
  BY <1>0, <1>2 DEF Stages
<1>3. ASSUME NEW c \in Callers, NEW p \in Pools, New(c, p) PROVE Stages'
  <2>1. \A w \in Workers : /\ PoolOf(w) = p => pc'[w] = "init" /\ state'[PoolOf(w)] = "starting"
                           /\ PoolOf(w) # p => pc'[w] = pc[w] /\ state'[PoolOf(w)] = state[PoolOf(w)]
    BY <1>0, <1>3 DEF New, TypeOK, Workers, PoolOf
  <2> QED BY <1>0, <2>1 DEF Stages
<1>4. ASSUME NEW c \in Callers, NEW p \in Pools, Drop(c, p) PROVE Stages'
  <2>1. state[p] = "ready" /\ state' = [state EXCEPT ![p] = "dropping"] /\ pc' = pc
    BY <1>4 DEF Drop, MayCall, workers
  <2> QED BY <1>0, <2>1 DEF Stages, TypeOK
<1>5. ASSUME NEW c \in Callers, NewReturns(c) PROVE Stages'
  <2> DEFINE p == target[c]
  <2>1. p \in Pools /\ alive[p] = NumThreads /\ state' = [state EXCEPT ![p] = "ready"] /\ pc' = pc
    BY <1>5 DEF NewReturns, GotoCall, workers, IInv, Calling
  <2>2. \A w \in WorkersOf(p) : pc[w] \in AlivePCs
    BY <2>1, AllOrNone
  <2> HIDE DEF p
  <2>3. \A w \in Workers : /\ PoolOf(w) = p => state'[PoolOf(w)] = "ready"
                           /\ PoolOf(w) # p => state'[PoolOf(w)] = state[PoolOf(w)]
    BY <1>0, <2>1 DEF TypeOK, Workers, PoolOf
  <2> QED BY <1>0, <2>1, <2>2, <2>3 DEF Stages, WorkersOf, AlivePCs
<1>6. ASSUME NEW c \in Callers, DropFree(c) PROVE Stages'
  <2> DEFINE p == target[c]
  <2>1. /\ p \in Pools /\ alive[p] = 0 /\ state[p] = "dropping"
        /\ state' = [state EXCEPT ![p] = "freed"] /\ pc' = pc
    BY <1>6 DEF DropFree, GotoCall, workers, IInv, Calling
  <2>2. \A w \in WorkersOf(p) : pc[w] \in {"unlock", "dead"}
    <3>1. \A w \in WorkersOf(p) : pc[w] \notin AlivePCs /\ pc[w] \notin {"none", "init"}
      BY <1>0, <2>1, AllOrNone DEF Stages, WorkersOf
    <3> QED BY <1>0, <3>1 DEF TypeOK, WorkersOf, AlivePCs
  <2> HIDE DEF p
  <2>3. \A w \in Workers : /\ PoolOf(w) = p => state'[PoolOf(w)] = "freed"
                           /\ PoolOf(w) # p => state'[PoolOf(w)] = state[PoolOf(w)]
    BY <1>0, <2>1 DEF TypeOK, Workers, PoolOf
  <2> QED BY <1>0, <2>1, <2>2, <2>3 DEF Stages, WorkersOf
<1>7. ASSUME NEW c \in Callers, NEW p \in Pools,
             Wait(c, p) \/ Pause(c, p) \/ \E j \in Jobs : AddWork(c, p, j)
      PROVE  UNCHANGED <<pc, state>>
  BY <1>7 DEF Wait, Pause, AddWork, pools, workers
<1>8. ASSUME NEW c \in Callers,
             AddPost(c) \/ WaitSleeps(c) \/ WaitReturns(c) \/ DropPost(c) \/ WakeSpuriously(c)
      PROVE  UNCHANGED <<pc, state>>
  BY <1>8 DEF AddPost, WaitSleeps, WaitReturns, DropPost, WakeSpuriously, pools, workers
<1>9. OtherPool => UNCHANGED <<pc, state>>
  BY DEF OtherPool, pools, workers
<1> QED BY <1>1, <1>2, <1>3, <1>4, <1>5, <1>6, <1>7, <1>8, <1>9 DEF Next, Begin, CallStep

LEMMA CallingStep ==
  ASSUME IInv, Next PROVE Calling'
<1>0. /\ call \in [Callers -> {"idle", "new", "add", "wait", "asleep", "drop"}]
      /\ target \in [Callers -> Pools \cup {NONE}]
      /\ state \in [Pools -> {"none", "starting", "ready", "dropping", "freed"}]
      /\ Calling
  BY DEF IInv, TypeOK
<1> USE DEF GotoCall
<1>1. ASSUME NEW w \in Workers, WorkerStep(w) PROVE Calling'
  <2>1. UNCHANGED <<state, target>>
    BY <1>1 DEF WorkerStep, Up, Loop, SemWait, Awake, BeginWork, Pull, PullPost, Run, EndWork, Exit, Unlock,
                pools, callers
  <2>2. \A c \in Callers : call'[c] # call[c] => call[c] = "asleep" /\ call'[c] = "wait"
    BY <1>0, <1>1 DEF WorkerStep, Up, Loop, SemWait, Awake, BeginWork, Pull, PullPost, Run, EndWork, Exit, Unlock,
                      callers, Signal, Asleep
  <2> QED BY <1>0, <2>1, <2>2 DEF Calling
<1>2. ASSUME NEW c \in Callers, NEW p \in Pools, New(c, p) PROVE Calling'
  BY <1>0, <1>2 DEF New, Calling
<1>3. ASSUME NEW c \in Callers, NEW p \in Pools,
             Wait(c, p) \/ Pause(c, p) \/ \E j \in Jobs : AddWork(c, p, j)
      PROVE  Calling'
  <2>1. CASE Wait(c, p)
    BY <1>0, <2>1 DEF Wait, MayCall, pools, Calling
  <2>2. CASE Pause(c, p)
    BY <1>0, <2>2 DEF Pause, pools, callers, Calling
  <2>3. ASSUME NEW j \in Jobs, AddWork(c, p, j) PROVE Calling'
    BY <1>0, <2>3 DEF AddWork, MayCall, Calling
  <2> QED BY <1>3, <2>1, <2>2, <2>3
<1>4. ASSUME NEW c \in Callers, NEW p \in Pools, Drop(c, p) PROVE Calling'
  BY <1>0, <1>4 DEF Drop, MayCall, Calling
<1>5. ASSUME NEW c \in Callers, NewReturns(c) PROVE Calling'
  BY <1>0, <1>5 DEF NewReturns, Calling
<1>6. ASSUME NEW c \in Callers, DropFree(c) PROVE Calling'
  BY <1>0, <1>6 DEF DropFree, Calling
<1>7. ASSUME NEW c \in Callers,
             AddPost(c) \/ WaitSleeps(c) \/ WaitReturns(c) \/ DropPost(c) \/ WakeSpuriously(c)
      PROVE  Calling'
  <2>1. CASE AddPost(c) \/ WaitReturns(c)
    BY <1>0, <2>1 DEF AddPost, WaitReturns, pools, Calling
  <2>2. CASE WaitSleeps(c) \/ WakeSpuriously(c)
    BY <1>0, <2>2 DEF WaitSleeps, WakeSpuriously, pools, Calling
  <2>3. CASE DropPost(c)
    BY <1>0, <2>3 DEF DropPost, callers, Calling
  <2> QED BY <1>7, <2>1, <2>2, <2>3
<1>8. OtherPool => Calling'
  BY <1>0 DEF OtherPool, pools, callers, Calling
<1> QED BY <1>1, <1>2, <1>3, <1>4, <1>5, <1>6, <1>7, <1>8 DEF Next, Begin, CallStep

-----------------------------------------------------------------------------
(* The jobs.                                                               *)

LEMMA HoldsJobStep ==
  ASSUME IInv, Next PROVE HoldsJob'
<1>0. /\ pc \in [Workers -> {"none", "init", "loop", "sem", "awake", "begin", "pull", "pull_post",
                             "run", "end", "exit", "unlock", "dead"}]
      /\ job \in [Workers -> Jobs \cup {NONE}] /\ HoldsJob
  BY DEF IInv, TypeOK
<1>1. ASSUME NEW w \in Workers, WorkerStep(w) PROVE HoldsJob'
  <2>1. CASE Pull(w)
    <3>1. PoolOf(w) \in Pools
      BY DEF Workers, PoolOf
    <3>2. jobs[PoolOf(w)] # <<>> => Head(jobs[PoolOf(w)]) \in Jobs
      BY <3>1, PopFacts DEF IInv, TypeOK, Places
    <3>3. CASE jobs[PoolOf(w)] = <<>>
      BY <1>0, <2>1, <3>3 DEF Pull, Goto, HoldsJob
    <3>4. CASE jobs[PoolOf(w)] # <<>>
      <4> DEFINE h == Head(jobs[PoolOf(w)])
      <4>1. job' = [job EXCEPT ![w] = h] /\ pc' = [pc EXCEPT ![w] = "pull_post"] /\ h # NONE
        BY <2>1, <3>2, <3>4, QueueAssumption DEF Pull, Goto
      <4> HIDE DEF h
      <4> QED BY <1>0, <4>1 DEF HoldsJob
    <3> QED BY <3>3, <3>4
  <2>2. CASE Run(w)
    BY <1>0, <2>2 DEF Run, Goto, HoldsJob
  <2>3. CASE ~Pull(w) /\ ~Run(w)
    <3>1. /\ job' = job /\ \A v \in Workers : v # w => pc'[v] = pc[v]
          /\ pc[w] \in {"pull_post", "run"} <=> pc'[w] \in {"pull_post", "run"}
      BY <1>0, <1>1, <2>3 DEF WorkerStep, Up, Loop, SemWait, Awake, BeginWork, PullPost, EndWork, Exit, Unlock,
                              Goto
    <3> QED BY <1>0, <3>1 DEF HoldsJob
  <2> QED BY <2>1, <2>2, <2>3
<1>2. CASE UNCHANGED <<pc, job>>
  BY <1>0, <1>2 DEF HoldsJob
<1>3. ASSUME NEW c \in Callers, NEW p \in Pools, New(c, p) PROVE HoldsJob'
  <2>1. \A w \in Workers : pc'[w] # pc[w] => pc[w] = "none" /\ pc'[w] = "init"
    BY <1>3 DEF New, IInv, Stages
  <2> QED BY <1>0, <1>3, <2>1 DEF New, HoldsJob
<1>4. ASSUME NEW c \in Callers, NEW p \in Pools,
             Wait(c, p) \/ Pause(c, p) \/ Drop(c, p) \/ \E j \in Jobs : AddWork(c, p, j)
      PROVE  UNCHANGED <<pc, job>>
  BY <1>4 DEF Wait, Pause, Drop, AddWork, workers
<1>5. ASSUME NEW c \in Callers, CallStep(c) \/ WakeSpuriously(c)
      PROVE  UNCHANGED <<pc, job>>
  BY <1>5 DEF CallStep, WakeSpuriously, NewReturns, AddPost, WaitSleeps, WaitReturns, DropPost, DropFree, workers
<1>6. OtherPool => UNCHANGED <<pc, job>>
  BY DEF OtherPool, workers
<1> QED BY <1>1, <1>2, <1>3, <1>4, <1>5, <1>6 DEF Next, Begin

\* What no step but four does.
LEMMA PlacesStay ==
  ASSUME Places, UNCHANGED <<jobs, job, added, lost, finished>>,
         \A p \in Pools : state[p] = "freed" => state'[p] = "freed"
  PROVE  Places'
  BY DEF Places, Queued, WorkersOf

LEMMA PlacesPull ==
  ASSUME IInv, NEW w \in Workers, Pull(w) PROVE Places'
<1> DEFINE p == PoolOf(w)
<1>0. /\ p \in Pools /\ Places
      /\ jobs \in [Pools -> Seq(Jobs)] /\ job \in [Workers -> Jobs \cup {NONE}]
      /\ UNCHANGED <<state, added, lost, finished>> /\ job[w] = NONE
  BY DEF IInv, TypeOK, Workers, PoolOf, Pull, history, Goto, HoldsJob
<1>1. CASE jobs[p] = <<>>
  <2>1. UNCHANGED <<jobs, job>>
    BY <1>1 DEF Pull
  <2> QED BY <1>0, <2>1, PlacesStay
<1>2. CASE jobs[p] # <<>>
  <2> DEFINE s == jobs[p]
             h == Head(s)
  <2>1. /\ h \in Jobs /\ Tail(s) \in Seq(Jobs) /\ IsInjective(Tail(s))
        /\ ToSet(s) = ToSet(Tail(s)) \cup {h} /\ h \notin ToSet(Tail(s))
    BY <1>0, <1>2, PopFacts DEF Places
  <2>2. job' = [job EXCEPT ![w] = h] /\ jobs' = [jobs EXCEPT ![p] = Tail(s)]
    BY <1>2 DEF Pull
  <2>3. h # NONE
    BY <2>1, QueueAssumption
  <2>4. PICK q : q = Tail(s)
    OBVIOUS
  <2>5. \A r \in Pools : jobs'[r] = IF r = p THEN q ELSE jobs[r]
    BY <1>0, <2>2, <2>4
  <2>6. \A v \in Workers : job'[v] = IF v = w THEN h ELSE job[v]
    BY <1>0, <2>2
  <2>7. \A r \in Pools : /\ r # p => Queued(r)' = Queued(r)
                         /\ r = p => Queued(r) = Queued(r)' \cup {h} /\ h \notin Queued(r)'
    BY <2>1, <2>4, <2>5 DEF Queued
  <2>8. \A r \in Pools : IsInjective(jobs'[r])
    BY <1>0, <2>1, <2>4, <2>5 DEF Places
  <2>9. h \in Queued(p) /\ h \in added[p] /\ h \notin finished
    BY <1>0, <2>7 DEF Places
  <2>10. \A v \in Workers : job[v] # h
    <3> SUFFICES ASSUME NEW v \in Workers, job[v] = h PROVE FALSE
      OBVIOUS
    <3>1. h \in added[PoolOf(v)] /\ h \notin Queued(PoolOf(v)) /\ PoolOf(v) \in Pools
      BY <1>0, <2>3 DEF Places, Workers, PoolOf
    <3> QED BY <1>0, <2>9, <3>1 DEF Places
  <2> HIDE DEF p, h, s
  <2>11. /\ \A r \in Pools : Queued(r)' \subseteq added[r] /\ Queued(r)' \cap finished = {}
         /\ \A v, u \in Workers : job'[v] = job'[u] /\ job'[v] # NONE => v = u
    <3> SUFFICES ASSUME NEW v \in Workers, NEW u \in Workers, job'[v] = job'[u], job'[v] # NONE PROVE v = u
      BY <1>0, <2>7 DEF Places
    <3> QED BY <1>0, <2>6, <2>10 DEF Places
  <2>12. \A v \in Workers : job'[v] # NONE => /\ job'[v] \in added[PoolOf(v)]
                                              /\ job'[v] \notin Queued(PoolOf(v))' \cup finished
    <3> SUFFICES ASSUME NEW v \in Workers, job'[v] # NONE
                 PROVE  job'[v] \in added[PoolOf(v)] /\ job'[v] \notin Queued(PoolOf(v))' \cup finished
      OBVIOUS
    <3>1. PoolOf(v) \in Pools /\ PoolOf(w) = p
      BY DEF Workers, PoolOf, p
    <3>2. CASE v = w
      BY <2>6, <2>7, <2>9, <3>1, <3>2
    <3>3. CASE v # w
      BY <1>0, <2>6, <2>7, <3>1, <3>3 DEF Places
    <3> QED BY <3>2, <3>3
  <2>13. ASSUME NEW r \in Pools, state'[r] # "freed", NEW j \in added[r]
         PROVE  \/ j \in Queued(r)' \cup finished \cup lost
                \/ \E v \in WorkersOf(r) : job'[v] = j
    <3>1. CASE r = p /\ j = h
      BY <2>6, <3>1 DEF WorkersOf, p
    <3>2. CASE ~(r = p /\ j = h)
      <4>1. \/ j \in Queued(r) \cup finished \cup lost
            \/ \E v \in WorkersOf(r) : job[v] = j
        BY <1>0, <2>13 DEF Places
      <4>2. j \in Jobs
        BY <2>13 DEF IInv, TypeOK
      <4> QED BY <1>0, <2>6, <2>7, <3>2, <4>1, <4>2, QueueAssumption DEF WorkersOf
    <3> QED BY <3>1, <3>2
  <2> QED BY <1>0, <2>8, <2>11, <2>12, <2>13 DEF Places
<1> QED BY <1>1, <1>2

LEMMA PlacesRun ==
  ASSUME IInv, NEW w \in Workers, Run(w) PROVE Places'
<1>0. /\ Places /\ job \in [Workers -> Jobs \cup {NONE}] /\ PoolOf(w) \in Pools
      /\ UNCHANGED <<jobs, added, lost, state>>
      /\ job' = [job EXCEPT ![w] = NONE] /\ finished' = finished \cup {job[w]} /\ job[w] # NONE
  BY DEF IInv, TypeOK, Workers, PoolOf, Run, Goto, HoldsJob, pools
<1>1. \A v \in Workers : job'[v] = IF v = w THEN NONE ELSE job[v]
  BY <1>0
<1>2. /\ job[w] \in added[PoolOf(w)] /\ job[w] \notin Queued(PoolOf(w))
      /\ \A v \in Workers : job[v] = job[w] => v = w
  BY <1>0 DEF Places
<1>3. \A r \in Pools : job[w] \notin Queued(r) /\ Queued(r)' = Queued(r)
  BY <1>0, <1>2 DEF Places, Queued
<1>4. \A r \in Pools : IsInjective(jobs'[r]) /\ Queued(r)' \subseteq added'[r] /\ Queued(r)' \cap finished' = {}
  BY <1>0, <1>3 DEF Places
<1>5. \A v \in Workers : job'[v] # NONE => /\ job'[v] \in added'[PoolOf(v)]
                                           /\ job'[v] \notin Queued(PoolOf(v))' \cup finished'
  <2> SUFFICES ASSUME NEW v \in Workers, v # w, job[v] # NONE
               PROVE  job[v] \in added[PoolOf(v)] /\ job[v] \notin Queued(PoolOf(v)) \cup finished'
    BY <1>0, <1>1, <1>3 DEF Workers, PoolOf
  <2> QED BY <1>0, <1>2 DEF Places
<1>6. /\ \A v, u \in Workers : job'[v] = job'[u] /\ job'[v] # NONE => v = u
      /\ \A p, q \in Pools : p # q => added'[p] \cap added'[q] = {}
  BY <1>0, <1>1 DEF Places
<1>7. \A j \in finished' : \E p \in Pools : j \in added'[p]
  BY <1>0, <1>2 DEF Places
<1>8. ASSUME NEW r \in Pools, state'[r] # "freed", NEW j \in added'[r]
      PROVE  \/ j \in Queued(r)' \cup finished' \cup lost'
             \/ \E v \in WorkersOf(r) : job'[v] = j
  <2>1. \/ j \in Queued(r) \cup finished \cup lost
        \/ \E v \in WorkersOf(r) : job[v] = j
    BY <1>0, <1>8 DEF Places
  <2> QED BY <1>0, <1>1, <1>3, <2>1 DEF WorkersOf
<1> QED BY <1>4, <1>5, <1>6, <1>7, <1>8 DEF Places

LEMMA PlacesAdd ==
  ASSUME IInv, NEW c \in Callers, NEW p \in Pools, NEW j \in Jobs, AddWork(c, p, j) PROVE Places'
<1>0. /\ Places /\ jobs \in [Pools -> Seq(Jobs)] /\ added \in [Pools -> SUBSET Jobs]
      /\ UNCHANGED <<state, job, finished>> /\ \A q \in Pools : j \notin added[q]
      /\ added' = [added EXCEPT ![p] = @ \cup {j}]
  BY DEF IInv, TypeOK, AddWork, workers
<1>1. \A r \in Pools : j \notin Queued(r) /\ added'[r] = IF r = p THEN added[r] \cup {j} ELSE added[r]
  BY <1>0 DEF Places
<1>2. j \notin finished /\ \A w \in Workers : job[w] # NONE => job[w] # j
  BY <1>0 DEF Places, Workers, PoolOf
<1>3. /\ \A r \in Pools : IsInjective(jobs'[r])
      /\ \A r \in Pools : Queued(r)' \subseteq Queued(r) \cup {j} /\ Queued(r) \subseteq Queued(r)'
      /\ \A r \in Pools : r # p => Queued(r)' = Queued(r)
      /\ lost \subseteq lost' /\ j \in Queued(p)' \cup lost'
  <2>1. CASE Len(jobs[p]) < QueueCapacity
    <3> DEFINE s == jobs[p]
    <3>1. /\ Append(s, j) \in Seq(Jobs) /\ IsInjective(Append(s, j))
          /\ ToSet(Append(s, j)) = ToSet(s) \cup {j}
      BY <1>0, <1>1, PushFacts DEF Places, Queued
    <3>2. PICK q : q = Append(s, j)
      OBVIOUS
    <3>3. (\A r \in Pools : jobs'[r] = IF r = p THEN q ELSE jobs[r]) /\ lost' = lost
      BY <1>0, <2>1, <3>2 DEF AddWork
    <3>4. \A r \in Pools : Queued(r)' = IF r = p THEN Queued(r) \cup {j} ELSE Queued(r)
      BY <3>1, <3>2, <3>3 DEF Queued
    <3>5. \A r \in Pools : IsInjective(jobs'[r])
      BY <1>0, <3>1, <3>2, <3>3 DEF Places
    <3> HIDE DEF s
    <3> QED BY <3>3, <3>4, <3>5
  <2>2. CASE ~(Len(jobs[p]) < QueueCapacity)
    <3>1. jobs' = jobs /\ lost' = lost \cup {j}
      BY <2>2 DEF AddWork
    <3> QED BY <1>0, <3>1 DEF Places, Queued
  <2> QED BY <2>1, <2>2
<1>4. \A r \in Pools : Queued(r)' \subseteq added'[r] /\ Queued(r)' \cap finished' = {}
  BY <1>0, <1>1, <1>2, <1>3 DEF Places
<1>5. ASSUME NEW w \in Workers, job'[w] # NONE
      PROVE  job'[w] \in added'[PoolOf(w)] /\ job'[w] \notin Queued(PoolOf(w))' \cup finished'
  <2>1. PoolOf(w) \in Pools
    BY DEF Workers, PoolOf
  <2>2. job[w] \in added[PoolOf(w)] /\ job[w] \notin Queued(PoolOf(w)) \cup finished /\ job[w] # j
    BY <1>0, <1>2, <1>5 DEF Places
  <2> QED BY <1>0, <1>1, <1>3, <2>1, <2>2
<1>6. /\ \A v, w \in Workers : job'[v] = job'[w] /\ job'[v] # NONE => v = w
      /\ \A q, r \in Pools : q # r => added'[q] \cap added'[r] = {}
      /\ \A i \in finished' : \E q \in Pools : i \in added'[q]
  BY <1>0, <1>1 DEF Places
<1>7. ASSUME NEW r \in Pools, state'[r] # "freed", NEW i \in added'[r]
      PROVE  \/ i \in Queued(r)' \cup finished' \cup lost'
             \/ \E w \in WorkersOf(r) : job'[w] = i
  <2>1. CASE i = j
    BY <1>0, <1>1, <1>3, <1>7, <2>1
  <2>2. CASE i # j
    <3>1. i \in added[r]
      BY <1>1, <1>7, <2>2
    <3>2. \/ i \in Queued(r) \cup finished \cup lost
          \/ \E w \in WorkersOf(r) : job[w] = i
      BY <1>0, <1>7, <3>1 DEF Places
    <3> QED BY <1>0, <1>3, <3>2
  <2> QED BY <2>1, <2>2
<1> QED BY <1>3, <1>4, <1>5, <1>6, <1>7 DEF Places

LEMMA PlacesFree ==
  ASSUME IInv, NEW c \in Callers, DropFree(c) PROVE Places'
<1> DEFINE p == target[c]
<1>0. /\ Places /\ p \in Pools /\ jobs \in [Pools -> Seq(Jobs)]
      /\ state \in [Pools -> {"none", "starting", "ready", "dropping", "freed"}]
      /\ state' = [state EXCEPT ![p] = "freed"] /\ jobs' = [jobs EXCEPT ![p] = <<>>]
      /\ UNCHANGED <<job, added, lost, finished>>
  BY DEF IInv, TypeOK, Calling, DropFree, GotoCall, workers, history
<1> HIDE DEF p
<1>1. ToSet(<<>>) = {} /\ IsInjective(<<>>)
  BY DEF ToSet, IsInjective
<1>2. \A r \in Pools : /\ r = p => jobs'[r] = <<>> /\ state'[r] = "freed"
                       /\ r # p => jobs'[r] = jobs[r] /\ state'[r] = state[r]
  BY <1>0
<1>3. \A r \in Pools : /\ IsInjective(jobs'[r]) /\ Queued(r)' \subseteq Queued(r)
                       /\ r # p => Queued(r)' = Queued(r)
  BY <1>0, <1>1, <1>2 DEF Places, Queued
<1>4. \A w \in Workers : PoolOf(w) \in Pools
  BY DEF Workers, PoolOf
<1> QED BY <1>0, <1>2, <1>3, <1>4 DEF Places

LEMMA PlacesStep ==
  ASSUME IInv, Next PROVE Places'
<1>0. Places /\ Calling /\ state \in [Pools -> {"none", "starting", "ready", "dropping", "freed"}]
  BY DEF IInv, TypeOK
<1> DEFINE Stays == /\ UNCHANGED <<jobs, job, added, lost, finished>>
                    /\ \A p \in Pools : state[p] = "freed" => state'[p] = "freed"
<1>1. ASSUME NEW w \in Workers, WorkerStep(w), ~Pull(w), ~Run(w) PROVE Stays
  BY <1>1 DEF WorkerStep, Up, Loop, SemWait, Awake, BeginWork, PullPost, EndWork, Exit, Unlock, pools, history
<1>2. ASSUME NEW c \in Callers, NEW p \in Pools, New(c, p) \/ Wait(c, p) \/ Pause(c, p) \/ Drop(c, p)
      PROVE  Stays
  BY <1>0, <1>2 DEF New, Wait, Pause, Drop, MayCall, pools, workers, history
<1>3. ASSUME NEW c \in Callers,
             \/ AddPost(c) \/ WaitSleeps(c) \/ WaitReturns(c) \/ DropPost(c) \/ WakeSpuriously(c)
      PROVE  Stays
  BY <1>3 DEF AddPost, WaitSleeps, WaitReturns, DropPost, WakeSpuriously, pools, workers, history
<1>4. ASSUME NEW c \in Callers, NewReturns(c) PROVE Stays
  BY <1>0, <1>4 DEF NewReturns, GotoCall, Calling, workers, history
<1>5. OtherPool => Stays
  BY DEF OtherPool, pools, workers
<1>6. Stays => Places'
  BY <1>0, PlacesStay
<1> HIDE DEF Stays
<1> QED BY <1>1, <1>2, <1>3, <1>4, <1>5, <1>6, PlacesPull, PlacesRun, PlacesAdd, PlacesFree
        DEF Next, Begin, CallStep

-----------------------------------------------------------------------------
LEMMA InvStep == IInv /\ [Next]_vars => IInv'
<1> SUFFICES ASSUME IInv, [Next]_vars PROVE IInv'
  OBVIOUS
<1>1. CASE Next
  BY <1>1, TypeStep, CountsStep, StagesStep, CallingStep, HoldsJobStep, PlacesStep DEF IInv
<1>2. CASE UNCHANGED vars
  <2> USE <1>2 DEF vars, IInv
  <2>1. TypeOK' /\ HoldsJob'
    BY DEF TypeOK, HoldsJob
  <2>2. CountsWorkers' /\ Stages'
    BY DEF CountsWorkers, AliveAt, WorkingAt, Stages
  <2>3. Calling'
    BY DEF Calling
  <2>4. Places'
    BY PlacesStay
  <2> QED BY <2>1, <2>2, <2>3, <2>4
<1> QED BY <1>1, <1>2

\* The inductive invariant of the thread pools: the counters count the workers, a
\* pool goes through its life in order, and every job is in one place.
THEOREM Invariant == Spec => []IInv
  BY InitInv, InvStep, PTL DEF Spec

\* No job is run twice or by two workers, and none is lost but to a full queue.
THEOREM JobsAreAccounted == Spec => []JobsAccounted
<1>1. IInv => JobsAccounted
  <2> SUFFICES ASSUME IInv PROVE JobsAccounted
    OBVIOUS
  <2>1. TypeOK /\ Places
    BY DEF IInv
  <2>2. \A p \in Pools : InHand(p) = {job[w] : w \in WorkersOf(p)} \ {NONE}
    BY DEF InHand, WorkersOf
  <2>3. ASSUME NEW p \in Pools
        PROVE  Queued(p) \cap InHand(p) = {} /\ InHand(p) \cap finished = {}
    BY <2>1, <2>2 DEF Places, WorkersOf
  <2>4. ASSUME NEW p \in Pools, state[p] # "freed"
        PROVE  added[p] \subseteq Queued(p) \cup InHand(p) \cup finished \cup lost
    <3> SUFFICES ASSUME NEW j \in added[p], j \notin Queued(p) \cup finished \cup lost
                 PROVE  j \in InHand(p)
      OBVIOUS
    <3>1. PICK w \in WorkersOf(p) : job[w] = j
      BY <2>1, <2>4 DEF Places
    <3>2. j # NONE
      BY <2>1, QueueAssumption DEF TypeOK
    <3> QED BY <2>2, <3>1, <3>2
  <2> QED BY <2>1, <2>3, <2>4 DEF JobsAccounted, Places
<1> QED BY <1>1, Invariant, PTL

\* When drop frees a pool its workers have nothing left to do but an unlock.
THEOREM FreedPoolsAreLeft == Spec => []FreedFindsWorkersGone
<1>1. IInv => FreedFindsWorkersGone
  BY DEF IInv, Stages, HoldsJob, FreedFindsWorkersGone
<1> QED BY <1>1, Invariant, PTL

\* When wait returns, all jobs that were not lost at once have finished.
THEOREM WaitsForTheJobs == Spec => WaitMeansFinished
<1> DEFINE A == \A c \in Callers : WaitReturns(c) => added[target[c]] \subseteq finished \cup lost
<1>1. IInv /\ [Next]_vars => [A]_vars
  <2> SUFFICES ASSUME IInv, NEW c \in Callers, WaitReturns(c)
               PROVE  added[target[c]] \subseteq finished \cup lost
    OBVIOUS
  <2> DEFINE p == target[c]
  <2>1. p \in Pools /\ state[p] = "ready"
    BY DEF IInv, Calling, WaitReturns
  <2>2. jobs[p] = <<>> /\ working[p] = 0
    BY <2>1 DEF WaitReturns, Busy, IInv, TypeOK
  <2> HIDE DEF p
  <2>3. \A w \in WorkersOf(p) : job[w] = NONE
    <3>1. \A w \in WorkersOf(p) : pc[w] \notin WorkingPCs
      BY <2>1, <2>2, AllOrNone
    <3> QED BY <3>1 DEF WorkingPCs, IInv, HoldsJob, WorkersOf
  <2>4. Queued(p) = {}
    BY <2>2 DEF Queued, ToSet
  <2>5. ASSUME NEW j \in added[p] PROVE j \in finished \cup lost
    <3>1. j # NONE
      BY <2>1, QueueAssumption DEF IInv, TypeOK
    <3> QED BY <2>1, <2>3, <2>4, <3>1 DEF IInv, Places
  <2> QED BY <2>5 DEF p
<1> QED BY <1>1, Invariant, PTL DEF Spec, WaitMeansFinished

-----------------------------------------------------------------------------
(* The semaphore the workers wait on, for any finite number of threads.    *)

USE ThreadsAssumption, MaxValueAssumption

LEMMA SemTypeStep == SemTypeOK /\ [SemNext]_semvars => SemTypeOK'
<1> SUFFICES ASSUME SemTypeOK, [SemNext]_semvars PROVE SemTypeOK'
  OBVIOUS
<1>1. ASSUME NEW t \in Threads,
             CallWait(t) \/ Take(t) \/ Sleep(t) \/ SpuriousWakeup(t) \/ SemPost(t) \/ SemPostAll(t)
      PROVE  SemTypeOK'
  BY <1>1 DEF SemTypeOK, CallWait, Take, Sleep, SpuriousWakeup, SemPost, SemPostAll, Sleepers
<1>2. CASE UNCHANGED semvars
  BY <1>2 DEF SemTypeOK, semvars
<1> QED BY <1>1, <1>2 DEF SemNext

LEMMA WokenFinite == IsFiniteSet(Woken) /\ Cardinality(Woken) \in Nat
  BY FS_Subset, FS_CardinalityType DEF Woken

\* Each step keeps at least as many threads woken as there are permits.
LEMMA WakeupStep == SemTypeOK /\ NoLostWakeup /\ [SemNext]_semvars => NoLostWakeup'
<1> SUFFICES ASSUME SemTypeOK, NoLostWakeup, [SemNext]_semvars, Sleepers' # {}
             PROVE  value' <= Cardinality(Woken')
  BY DEF NoLostWakeup
<1>0. IsFiniteSet(Woken) /\ Cardinality(Woken) \in Nat /\ value \in Nat
  BY WokenFinite DEF SemTypeOK
<1>1. ASSUME NEW t \in Threads, CallWait(t) PROVE value' <= Cardinality(Woken')
  <2>1. Woken' = Woken /\ Sleepers' = Sleepers /\ value' = value
    BY <1>1 DEF CallWait, Woken, Sleepers, SemTypeOK
  <2> QED BY <2>1 DEF NoLostWakeup
<1>2. ASSUME NEW t \in Threads, Take(t) PROVE value' <= Cardinality(Woken')
  <2>1. /\ Woken' = Woken \ {t} /\ Sleepers' = Sleepers
        /\ value' = value - 1 /\ value # 0
    BY <1>2 DEF Take, Woken, Sleepers, SemTypeOK
  <2>2. CASE t \in Woken
    <3>1. Cardinality(Woken') = Cardinality(Woken) - 1
      BY <1>0, <2>1, <2>2, FS_RemoveElement
    <3> QED BY <1>0, <2>1, <3>1 DEF NoLostWakeup
  <2>3. CASE t \notin Woken
    <3>1. Woken' = Woken
      BY <2>1, <2>3
    <3> QED BY <1>0, <2>1, <3>1 DEF NoLostWakeup
  <2> QED BY <2>2, <2>3
<1>3. ASSUME NEW t \in Threads, Sleep(t) PROVE value' <= Cardinality(Woken')
  <2>1. value' = 0 /\ Woken' = Woken \ {t}
    BY <1>3 DEF Sleep, Woken, SemTypeOK
  <2>2. Cardinality(Woken') \in Nat
    BY <1>0, <2>1, FS_RemoveElement, FS_CardinalityType
  <2> QED BY <2>1, <2>2
<1>4. ASSUME NEW t \in Threads, SpuriousWakeup(t) PROVE value' <= Cardinality(Woken')
  <2>1. Woken' = Woken \cup {t} /\ t \notin Woken /\ Sleepers # {} /\ value' = value
    BY <1>4 DEF SpuriousWakeup, Woken, Sleepers, SemTypeOK
  <2>2. Cardinality(Woken') = Cardinality(Woken) + 1
    BY <1>0, <2>1, FS_AddElement
  <2> QED BY <1>0, <2>1, <2>2 DEF NoLostWakeup
<1>5. ASSUME NEW t \in Threads, SemPost(t) PROVE value' <= Cardinality(Woken')
  <2>1. PICK u \in Sleepers : place' = [place EXCEPT ![u] = "woken"]
    BY <1>5 DEF SemPost, Sleepers
  <2>2. Woken' = Woken \cup {u} /\ u \notin Woken /\ Sleepers # {} /\ value' = value + 1
    BY <1>5, <2>1 DEF SemPost, Woken, Sleepers, SemTypeOK
  <2>3. Cardinality(Woken') = Cardinality(Woken) + 1
    BY <1>0, <2>2, FS_AddElement
  <2> QED BY <1>0, <2>2, <2>3 DEF NoLostWakeup
<1>6. ASSUME NEW t \in Threads, SemPostAll(t) PROVE value' <= Cardinality(Woken')
  <2>1. Sleepers' = {}
    BY <1>6 DEF SemPostAll, Sleepers, SemTypeOK
  <2> QED BY <2>1
<1>7. CASE UNCHANGED semvars
  <2>1. Woken' = Woken /\ Sleepers' = Sleepers /\ value' = value
    BY <1>7 DEF semvars, Woken, Sleepers
  <2> QED BY <2>1 DEF NoLostWakeup
<1> QED BY <1>1, <1>2, <1>3, <1>4, <1>5, <1>6, <1>7 DEF SemNext

\* The semaphore never loses a wakeup: no permit lies unused because everybody
\* who wants it sleeps.
THEOREM NoWakeupIsLost == SemSpec => []NoLostWakeup
<1>1. SemInit => SemTypeOK /\ NoLostWakeup
  BY DEF SemInit, SemTypeOK, NoLostWakeup, Sleepers
<1> QED BY <1>1, SemTypeStep, WakeupStep, PTL DEF SemSpec

-----------------------------------------------------------------------------
(* The refinement, but for the fairness.                                   *)

\* A thread waits from its call on: it takes a permit in the step in which it
\* finds the value above zero.
LEMMA StepSimulation == SemTypeOK /\ [SemNext]_semvars => [Abstract!Next]_(Abstract!svars)
<1> DEFINE waiting == {t \in Threads : place[t] # "out"}
<1> SUFFICES ASSUME SemTypeOK, [SemNext]_semvars PROVE [Abstract!Next]_<<value, waiting>>
  BY DEF Abstract!svars
<1>1. ASSUME NEW t \in Threads, CallWait(t) PROVE Abstract!Request(t)
  BY <1>1 DEF CallWait, SemTypeOK, Abstract!Request
<1>2. ASSUME NEW t \in Threads, Take(t) PROVE Abstract!Acquire(t)
  BY <1>2 DEF Take, SemTypeOK, Abstract!Acquire
<1>3. ASSUME NEW t \in Threads, Sleep(t) \/ SpuriousWakeup(t) PROVE UNCHANGED <<value, waiting>>
  BY <1>3 DEF Sleep, SpuriousWakeup, SemTypeOK
<1>4. ASSUME NEW t \in Threads, SemPost(t) \/ SemPostAll(t) PROVE Abstract!Release
  BY <1>4 DEF SemPost, SemPostAll, Sleepers, SemTypeOK, Abstract!Release
<1>5. CASE UNCHANGED semvars
  BY <1>5 DEF semvars
<1> QED BY <1>1, <1>2, <1>3, <1>4, <1>5 DEF SemNext, Abstract!Next

\* The condition variable makes a counting semaphore, for any finite number of
\* threads: each permit goes to one waiting thread, whatever is woken when.
THEOREM CountsPermits == SemSpec => Abstract!Init /\ [][Abstract!Next]_(Abstract!svars)
<1>1. SemInit => SemTypeOK /\ Abstract!Init
  BY DEF SemInit, SemTypeOK, Abstract!Init
<1>2. SemTypeOK /\ [SemNext]_semvars => SemTypeOK'
  BY SemTypeStep
<1>3. SemTypeOK /\ [SemNext]_semvars => [Abstract!Next]_(Abstract!svars)
  BY StepSimulation
<1> QED BY <1>1, <1>2, <1>3, PTL DEF SemSpec

-----------------------------------------------------------------------------
(* Shared and weak pointers.                                               *)

USE PointersAssumption

\* The properties that are invariants follow from the inductive invariant.
LEMMA ArcInvImplies == ArcInv => StrongKeepsObject /\ NoUseAfterFree /\ GoneIsReleased
<1> SUFFICES ASSUME ArcInv PROVE StrongKeepsObject /\ NoUseAfterFree /\ GoneIsReleased
  OBVIOUS
<1>1. StrongKeepsObject
  <2> SUFFICES ASSUME NEW p \in Pointers, kind[p] = "strong" PROVE drops = 0
    BY DEF StrongKeepsObject
  <2>1. block = "live" /\ p \in Strong
    BY DEF ArcInv, Strong
  <2>2. Cardinality(Strong) # 0 /\ Cardinality(Strong) \in Nat
    BY <2>1, FS_Subset, FS_EmptySet, FS_CardinalityType DEF Strong
  <2> QED BY <2>1, <2>2 DEF ArcInv, CountsPointers, OneDropper
<1>2. NoUseAfterFree
  BY DEF ArcInv, NoUseAfterFree
<1>3. GoneIsReleased
  <2> SUFFICES ASSUME block # "none", \A p \in Pointers : kind[p] = "null"
               PROVE  block = "freed" /\ drops = 1
    BY DEF GoneIsReleased
  <2>1. Strong = {} /\ Weak = {} /\ Dropping = {} /\ Cardinality({}) = 0
    BY FS_EmptySet DEF Strong, Weak, Dropping
  <2>2. ASSUME block = "live" PROVE FALSE
    <3>1. strong_count = 0 /\ weak_count = 0
      BY <2>1, <2>2 DEF ArcInv, CountsPointers, OwnWeak
    <3> QED BY <2>2, <3>1 DEF ArcInv, LastFrees
  <2> QED BY <2>2 DEF ArcInv, ArcTypeOK
<1> QED BY <1>1, <1>2, <1>3

LEMMA Cards ==
  /\ IsFiniteSet(Strong) /\ Cardinality(Strong) \in Nat
  /\ IsFiniteSet(Weak) /\ Cardinality(Weak) \in Nat
  /\ OwnWeak \in {0, 1}
  BY FS_Subset, FS_CardinalityType DEF Strong, Weak, OwnWeak

LEMMA Empty == Cardinality({}) = 0
  BY FS_EmptySet

LEMMA Nonempty ==
  /\ \A p \in Strong : Cardinality(Strong) > 0
  /\ \A p \in Weak : Cardinality(Weak) > 0
  BY Cards, FS_EmptySet

\* How the sets of pointers change when one pointer changes its state.
LEMMA ArcMoves ==
  ASSUME ArcTypeOK, NEW p \in Pointers, NEW to, kind' = [kind EXCEPT ![p] = to]
  PROVE  /\ Strong' = IF to = "strong" THEN Strong \cup {p} ELSE Strong \ {p}
         /\ Weak' = IF to = "weak" THEN Weak \cup {p} ELSE Weak \ {p}
         /\ Dropping' = IF to \in {"drop_data", "dec_weak"} THEN Dropping \cup {p}
                                                           ELSE Dropping \ {p}
  BY DEF ArcTypeOK, Strong, Weak, Dropping

\* ... and how many they are then.
LEMMA ArcCounts ==
  ASSUME ArcTypeOK, NEW p \in Pointers, NEW to, kind' = [kind EXCEPT ![p] = to]
  PROVE  /\ Cardinality(Strong') = Cardinality(Strong)
                 + (IF to = "strong" THEN 1 ELSE 0) - (IF kind[p] = "strong" THEN 1 ELSE 0)
         /\ Cardinality(Weak') = Cardinality(Weak)
                 + (IF to = "weak" THEN 1 ELSE 0) - (IF kind[p] = "weak" THEN 1 ELSE 0)
<1>1. /\ p \in Strong <=> kind[p] = "strong"
      /\ p \in Weak <=> kind[p] = "weak"
  BY DEF Strong, Weak
<1>2. /\ Cardinality(Strong \cup {p}) = IF p \in Strong THEN Cardinality(Strong)
                                                        ELSE Cardinality(Strong) + 1
      /\ Cardinality(Strong \ {p}) = IF p \in Strong THEN Cardinality(Strong) - 1
                                                     ELSE Cardinality(Strong)
      /\ Cardinality(Weak \cup {p}) = IF p \in Weak THEN Cardinality(Weak)
                                                    ELSE Cardinality(Weak) + 1
      /\ Cardinality(Weak \ {p}) = IF p \in Weak THEN Cardinality(Weak) - 1
                                                 ELSE Cardinality(Weak)
  BY Cards, FS_AddElement, FS_RemoveElement
<1>3. CASE to = "strong"
  <2>1. Strong' = Strong \cup {p} /\ Weak' = Weak \ {p}
    BY <1>3, ArcMoves
  <2> QED BY <1>1, <1>2, <1>3, <2>1, Cards
<1>4. CASE to = "weak"
  <2>1. Strong' = Strong \ {p} /\ Weak' = Weak \cup {p}
    BY <1>4, ArcMoves
  <2> QED BY <1>1, <1>2, <1>4, <2>1, Cards
<1>5. CASE to # "strong" /\ to # "weak"
  <2>1. Strong' = Strong \ {p} /\ Weak' = Weak \ {p}
    BY <1>5, ArcMoves
  <2> QED BY <1>1, <1>2, <1>5, <2>1, Cards
<1> QED BY <1>3, <1>4, <1>5

LEMMA ArcTypeStep == ArcInv /\ [ArcNext]_arcvars => ArcTypeOK'
<1> SUFFICES ASSUME ArcInv, ArcTypeOK, [ArcNext]_arcvars PROVE ArcTypeOK'
  BY DEF ArcInv
<1> USE DEF ArcTypeOK, Becomes
<1>1. ASSUME NEW p \in Pointers, Step(p) PROVE ArcTypeOK'
  <2>1. CASE NewShared(p) BY <2>1 DEF NewShared
  <2>2. CASE IncLoad(p) \/ IncCas(p) \/ IncCasFails(p)
    BY <2>2 DEF IncLoad, IncCas, IncCasFails, GiveUp
  <2>3. CASE SharedDrop(p) BY <2>3 DEF SharedDrop
  <2>4. CASE DropData(p) BY <2>4 DEF DropData, ArcInv, OneDropper
  <2>5. CASE DecWeak(p) BY <2>5 DEF DecWeak
  <2>6. CASE Free(p) BY <2>6 DEF Free
  <2>7. CASE \E q \in Pointers : CloneOrUpgrade(p, q) \/ MakeWeak(p, q)
    BY <2>7 DEF CloneOrUpgrade, MakeWeak
  <2> QED BY <1>1, <2>1, <2>2, <2>3, <2>4, <2>5, <2>6, <2>7 DEF Step
<1>2. CASE UNCHANGED arcvars
  BY <1>2 DEF arcvars
<1> QED BY <1>1, <1>2 DEF ArcNext

-----------------------------------------------------------------------------
(* The inductive invariant, one lemma per action.                          *)

LEMMA ArcInitInv == ArcInit => ArcInv
<1> SUFFICES ASSUME ArcInit PROVE ArcInv
  OBVIOUS
<1>1. Dropping = {}
  BY DEF ArcInit, Dropping
<1> QED BY <1>1 DEF ArcInit, ArcInv, ArcTypeOK, CountsPointers, OneDropper, LastFrees, SourceHeld

LEMMA NewStep ==
  ASSUME ArcInv, ArcTypeOK', NEW p \in Pointers, NewShared(p) PROVE ArcInv'
<1>1. /\ kind' = [kind EXCEPT ![p] = "strong"] /\ block = "none" /\ block' = "live"
      /\ strong_count' = 1 /\ weak_count' = 1 /\ UNCHANGED <<drops, source, old_count>>
      /\ ArcTypeOK /\ \A q \in Pointers : kind[q] = "null"
  BY DEF NewShared, Becomes, ArcInv
<1>2. Strong = {} /\ Weak = {} /\ Dropping' = {}
  BY <1>1 DEF Strong, Weak, Dropping, ArcTypeOK
<1>3. CountsPointers'
  <2>1. Cardinality(Strong') = 1 /\ Cardinality(Weak') = 0
    <3>1. /\ Cardinality(Strong') = Cardinality(Strong) + 1 - 0
          /\ Cardinality(Weak') = Cardinality(Weak) + 0 - 0
      BY <1>1, ArcCounts
    <3> QED BY <1>2, <3>1, Empty
  <2> QED BY <1>1, <2>1 DEF CountsPointers, OwnWeak
<1>4. OneDropper'
  BY <1>1, <1>2 DEF ArcInv, OneDropper, ArcTypeOK
<1>5. LastFrees'
  BY <1>1 DEF LastFrees, ArcTypeOK
<1>6. SourceHeld'
  BY <1>1 DEF ArcInv, SourceHeld, ArcTypeOK
<1> QED BY <1>1, <1>3, <1>4, <1>5, <1>6 DEF ArcInv

\* A pointer variable that is null or about to get its value, while the counts,
\* the object and the block stay as they are.
LEMMA CloneStep ==
  ASSUME ArcInv, ArcTypeOK', NEW q \in Pointers,
         \/ \E p \in Pointers : CloneOrUpgrade(q, p)
         \/ IncLoad(q)
         \/ IncCasFails(q)
  PROVE  ArcInv'
<1>1. PICK to \in {"null", "inc_load", "inc_cas"} :
        /\ kind' = [kind EXCEPT ![q] = to]
        /\ UNCHANGED <<block, strong_count, weak_count, drops>>
        /\ kind[q] \in {"null", "inc_load", "inc_cas"}
        /\ \A u \in Pointers \ {q} : source'[u] = source[u] /\ old_count'[u] = old_count[u]
        /\ to = "null" => source'[q] = NoSource
        /\ to # "null" => source'[q] \in Pointers /\ kind[source'[q]] \in {"strong", "weak"}
        /\ to = "inc_cas" => old_count'[q] = strong_count /\ strong_count # 0
  <2>1. CASE \E p \in Pointers : CloneOrUpgrade(q, p)
    BY <2>1 DEF CloneOrUpgrade, Becomes, ArcInv, ArcTypeOK
  <2>2. CASE GiveUp(q, "inc_load") \/ GiveUp(q, "inc_cas")
    BY <2>2 DEF GiveUp, Becomes, ArcInv, ArcTypeOK
  <2>3. CASE IncLoad(q) /\ ~GiveUp(q, "inc_load")
    BY <2>3 DEF IncLoad, Becomes, ArcInv, ArcTypeOK, SourceHeld
  <2>4. CASE IncCasFails(q) /\ ~GiveUp(q, "inc_cas")
    <3>1. kind' = [kind EXCEPT ![q] = "inc_cas"] /\ kind[q] = "inc_cas"
      BY <2>4 DEF IncCasFails, ArcInv, ArcTypeOK
    <3> QED BY <2>4, <3>1 DEF IncCasFails, ArcInv, ArcTypeOK, SourceHeld
  <2> QED BY <2>1, <2>2, <2>3, <2>4 DEF IncLoad, IncCasFails
<1>2. ArcTypeOK /\ Strong' = Strong /\ Weak' = Weak /\ Dropping' = Dropping
  BY <1>1, ArcMoves DEF ArcInv, Strong, Weak, Dropping
<1>3. CountsPointers'
  BY <1>1, <1>2 DEF ArcInv, CountsPointers, OwnWeak
<1>4. OneDropper'
  BY <1>1, <1>2 DEF ArcInv, OneDropper, ArcTypeOK
<1>5. to # "null" => \A u \in Pointers : kind[u] # "free"
  BY <1>1 DEF ArcInv, LastFrees
<1>6. LastFrees'
  BY <1>1, <1>5 DEF ArcInv, LastFrees, ArcTypeOK
<1>7. strong_count >= 0 /\ (to # "null" => block = "live")
  BY <1>1, Cards DEF ArcInv, CountsPointers, ArcTypeOK
<1>8. SourceHeld'
  <2> SUFFICES ASSUME NEW u \in Pointers
               PROVE  /\ kind'[u] \in {"inc_load", "inc_cas"} =>
                           source'[u] \in Pointers /\ kind'[source'[u]] \in {"strong", "weak"}
                      /\ kind'[u] \notin {"inc_load", "inc_cas"} => source'[u] = NoSource
                      /\ kind'[u] = "inc_cas" => old_count'[u] > 0
    BY DEF SourceHeld
  <2>1. \A v \in Pointers : kind[v] \in {"strong", "weak"} => kind'[v] = kind[v]
    BY <1>1, <1>2 DEF ArcTypeOK
  <2>2. CASE u = q
    BY <1>1, <1>2, <1>7, <2>1, <2>2 DEF ArcTypeOK
  <2>3. CASE u # q
    BY <1>1, <1>2, <2>1, <2>3 DEF ArcInv, SourceHeld, ArcTypeOK
  <2> QED BY <2>2, <2>3
<1>9. block' # "live" => \A u \in Pointers : kind'[u] = "null"
  BY <1>1, <1>2, <1>7 DEF ArcInv, ArcTypeOK
<1> QED BY <1>1, <1>3, <1>4, <1>6, <1>8, <1>9 DEF ArcInv

LEMMA IncCasStep ==
  ASSUME ArcInv, ArcTypeOK', NEW q \in Pointers, IncCas(q) PROVE ArcInv'
<1>1. /\ kind[q] = "inc_cas" /\ kind' = [kind EXCEPT ![q] = "strong"]
      /\ strong_count > 0 /\ strong_count' = strong_count + 1
      /\ UNCHANGED <<block, weak_count, drops>> /\ block = "live"
      /\ source' = [source EXCEPT ![q] = NoSource] /\ old_count' = [old_count EXCEPT ![q] = 0]
      /\ ArcTypeOK
  BY DEF IncCas, Becomes, ArcInv, SourceHeld
<1>2. Dropping = {} /\ Dropping' = {}
  <2>1. Dropping = {}
    BY <1>1 DEF ArcInv, OneDropper
  <2> QED BY <1>1, <2>1, ArcMoves
<1>3. CountsPointers'
  <2>1. Cardinality(Strong') = Cardinality(Strong) + 1 /\ Cardinality(Weak') = Cardinality(Weak)
    <3>1. /\ Cardinality(Strong') = Cardinality(Strong) + 1 - 0
          /\ Cardinality(Weak') = Cardinality(Weak) + 0 - 0
      BY <1>1, ArcCounts
    <3> QED BY <3>1, Cards
  <2>2. OwnWeak = 1 /\ OwnWeak' = 1
    BY <1>1 DEF OwnWeak, ArcTypeOK
  <2> QED BY <1>1, <2>1, <2>2 DEF ArcInv, CountsPointers
<1>4. OneDropper'
  BY <1>1, <1>2 DEF ArcInv, OneDropper, ArcTypeOK
<1>5. LastFrees'
  BY <1>1 DEF ArcInv, LastFrees, ArcTypeOK
<1>6. SourceHeld'
  BY <1>1 DEF ArcInv, SourceHeld, ArcTypeOK
<1> QED BY <1>1, <1>3, <1>4, <1>5, <1>6 DEF ArcInv

LEMMA MakeWeakStep ==
  ASSUME ArcInv, ArcTypeOK', NEW q \in Pointers, NEW p \in Pointers, MakeWeak(q, p) PROVE ArcInv'
<1>1. /\ kind[q] = "null" /\ kind' = [kind EXCEPT ![q] = "weak"]
      /\ weak_count' = weak_count + 1 /\ kind[p] \in {"strong", "weak"}
      /\ UNCHANGED <<block, strong_count, drops, source, old_count>>
      /\ ArcTypeOK /\ block = "live"
  BY DEF MakeWeak, Becomes, ArcInv
<1>2. Dropping' = Dropping
  BY <1>1, ArcMoves DEF Dropping
<1>3. CountsPointers'
  <2>1. Cardinality(Strong') = Cardinality(Strong) /\ Cardinality(Weak') = Cardinality(Weak) + 1
    <3>1. /\ Cardinality(Strong') = Cardinality(Strong) + 0 - 0
          /\ Cardinality(Weak') = Cardinality(Weak) + 1 - 0
      BY <1>1, ArcCounts
    <3> QED BY <3>1, Cards
  <2>2. OwnWeak' = OwnWeak
    BY <1>1, <1>2 DEF OwnWeak
  <2> QED BY <1>1, <2>1, <2>2, Cards DEF ArcInv, CountsPointers
<1>4. OneDropper'
  BY <1>1, <1>2 DEF ArcInv, OneDropper, ArcTypeOK
<1>5. (\A u \in Pointers : kind[u] # "free") /\ weak_count # 0
  BY <1>1 DEF ArcInv, LastFrees
<1>6. weak_count' # 0
  BY <1>1, <1>5, Cards DEF ArcInv, CountsPointers, ArcTypeOK
<1>7. LastFrees'
  BY <1>1, <1>5, <1>6 DEF LastFrees, ArcTypeOK
<1>8. SourceHeld'
  BY <1>1 DEF ArcInv, SourceHeld, ArcTypeOK
<1> QED BY <1>1, <1>3, <1>4, <1>7, <1>8 DEF ArcInv

LEMMA SharedDropStep ==
  ASSUME ArcInv, ArcTypeOK', NEW p \in Pointers, SharedDrop(p) PROVE ArcInv'
<1> DEFINE to == IF strong_count = 1 THEN "drop_data" ELSE "null"
<1>1. /\ kind[p] = "strong" /\ kind' = [kind EXCEPT ![p] = to]
      /\ strong_count' = strong_count - 1
      /\ UNCHANGED <<block, weak_count, drops, source, old_count>>
      /\ ArcTypeOK /\ block = "live" /\ ~Lent(p)
  BY DEF SharedDrop, Becomes, ArcInv
<1>2. strong_count > 0 /\ strong_count = Cardinality(Strong) /\ drops = 0 /\ Dropping = {}
  <2>1. p \in Strong
    BY <1>1 DEF Strong
  <2> QED BY <1>1, <2>1, Nonempty DEF ArcInv, CountsPointers, OneDropper
<1>3. Dropping' = IF strong_count = 1 THEN {p} ELSE {}
  BY <1>1, <1>2, ArcMoves
<1>4. CountsPointers'
  <2>1. Cardinality(Strong') = Cardinality(Strong) - 1 /\ Cardinality(Weak') = Cardinality(Weak)
    <3>0. to # "strong" /\ to # "weak"
      OBVIOUS
    <3>1. /\ Cardinality(Strong') = Cardinality(Strong) + 0 - 1
          /\ Cardinality(Weak') = Cardinality(Weak) + 0 - 0
      <4> HIDE DEF to
      <4> QED BY <1>1, <3>0, ArcCounts
    <3> QED BY <3>1, Cards
  <2>2. OwnWeak = 1 /\ OwnWeak' = 1
    BY <1>1, <1>2, <1>3 DEF OwnWeak, ArcTypeOK
  <2> QED BY <1>1, <1>2, <2>1, <2>2 DEF ArcInv, CountsPointers
<1>5. OneDropper'
  BY <1>1, <1>2, <1>3 DEF ArcInv, OneDropper, ArcTypeOK, Dropping
<1>6. LastFrees'
  BY <1>1 DEF ArcInv, LastFrees, ArcTypeOK
<1>7. SourceHeld'
  BY <1>1 DEF ArcInv, SourceHeld, ArcTypeOK, Lent
<1> QED BY <1>1, <1>4, <1>5, <1>6, <1>7 DEF ArcInv

LEMMA DropDataStep ==
  ASSUME ArcInv, ArcTypeOK', NEW p \in Pointers, DropData(p) PROVE ArcInv'
<1>1. /\ kind[p] = "drop_data" /\ kind' = [kind EXCEPT ![p] = "dec_weak"]
      /\ drops' = drops + 1
      /\ UNCHANGED <<block, strong_count, weak_count, source, old_count>>
      /\ ArcTypeOK /\ block = "live"
  BY DEF DropData, Becomes, ArcInv
<1>2. /\ Strong' = Strong /\ Weak' = Weak /\ Dropping' = Dropping
      /\ p \in Dropping /\ drops = 0 /\ strong_count = 0
  <2>1. p \in Dropping /\ p \notin Strong /\ p \notin Weak
    BY <1>1 DEF Dropping, Strong, Weak
  <2>2. Strong' = Strong \ {p} /\ Weak' = Weak \ {p} /\ Dropping' = Dropping \cup {p}
    BY <1>1, ArcMoves
  <2> QED BY <1>1, <2>1, <2>2 DEF ArcInv, OneDropper
<1>3. CountsPointers'
  BY <1>1, <1>2 DEF ArcInv, CountsPointers, OwnWeak
<1>4. OneDropper'
  BY <1>1, <1>2 DEF ArcInv, OneDropper, ArcTypeOK, Dropping
<1>5. LastFrees'
  BY <1>1 DEF ArcInv, LastFrees, ArcTypeOK
<1>6. SourceHeld'
  BY <1>1 DEF ArcInv, SourceHeld, ArcTypeOK
<1> QED BY <1>1, <1>3, <1>4, <1>5, <1>6 DEF ArcInv

LEMMA DecWeakStep ==
  ASSUME ArcInv, ArcTypeOK', NEW p \in Pointers, DecWeak(p) PROVE ArcInv'
<1> DEFINE to == IF weak_count = 1 THEN "free" ELSE "null"
<1>1. /\ kind[p] = "dec_weak" \/ (kind[p] = "weak" /\ ~Lent(p))
      /\ kind' = [kind EXCEPT ![p] = to]
      /\ weak_count' = weak_count - 1
      /\ UNCHANGED <<block, strong_count, drops, source, old_count>>
      /\ ArcTypeOK /\ block = "live"
  BY DEF DecWeak, ArcInv
<1>2. /\ Strong' = Strong
      /\ Cardinality(Weak') = Cardinality(Weak) - (IF kind[p] = "weak" THEN 1 ELSE 0)
      /\ Dropping' = Dropping \ {p}
  <2>1. /\ Cardinality(Weak') = Cardinality(Weak) + 0 - (IF kind[p] = "weak" THEN 1 ELSE 0)
        /\ Strong' = Strong \ {p} /\ Dropping' = Dropping \ {p}
    <3>1. to # "weak" /\ to # "strong" /\ to \notin {"drop_data", "dec_weak"}
      OBVIOUS
    <3> QED BY <1>1, <3>1, ArcMoves, ArcCounts
  <2>2. p \notin Strong
    BY <1>1 DEF Strong
  <2> QED BY <2>1, <2>2, Cards
<1>3. /\ weak_count > 0 /\ (\A u \in Pointers : kind[u] # "free")
      /\ strong_count = Cardinality(Strong) /\ weak_count = Cardinality(Weak) + OwnWeak
  <2>1. kind[p] = "weak" => p \in Weak
    BY DEF Weak
  <2>2. kind[p] = "dec_weak" => OwnWeak = 1
    BY DEF OwnWeak, Dropping
  <2>3. strong_count = Cardinality(Strong) /\ weak_count = Cardinality(Weak) + OwnWeak
    BY <1>1 DEF ArcInv, CountsPointers
  <2>4. weak_count > 0
    BY <1>1, <2>1, <2>2, <2>3, Nonempty, Cards
  <2> QED BY <1>1, <2>3, <2>4 DEF ArcInv, LastFrees
<1>4. kind[p] = "dec_weak" => Dropping = {p} /\ strong_count = 0 /\ drops = 1
  BY DEF ArcInv, OneDropper, Dropping
<1>5. CountsPointers'
  <2>1. CASE kind[p] = "weak"
    <3>1. OwnWeak' = OwnWeak
      BY <1>1, <1>2, <2>1 DEF OwnWeak, Dropping
    <3> QED BY <1>1, <1>2, <1>3, <2>1, <3>1, Cards DEF CountsPointers
  <2>2. CASE kind[p] = "dec_weak"
    <3>1. OwnWeak = 1 /\ OwnWeak' = 0
      BY <1>1, <1>2, <1>4, <2>2 DEF OwnWeak
    <3> QED BY <1>1, <1>2, <1>3, <2>2, <3>1, Cards DEF CountsPointers
  <2> QED BY <1>1, <2>1, <2>2
<1>6. OneDropper'
  <2>1. \A u \in Pointers : kind'[u] \in {"drop_data", "dec_weak"} => kind'[u] = kind[u]
    BY <1>1 DEF ArcTypeOK
  <2>2. kind[p] = "weak" => Dropping' = Dropping
    BY <1>2 DEF Dropping
  <2> QED BY <1>1, <1>2, <1>4, <2>1, <2>2 DEF ArcInv, OneDropper
<1>7. weak_count = 1 => \A u \in Pointers \ {p} : kind[u] = "null"
  <2> SUFFICES ASSUME weak_count = 1, NEW u \in Pointers \ {p} PROVE kind[u] = "null"
    OBVIOUS
  <2>1. kind[p] = "weak" => OwnWeak = 0
    <3>1. kind[p] = "weak" => p \in Weak
      BY DEF Weak
    <3> QED BY <1>3, <3>1, Nonempty, Cards
  <2>2. strong_count = 0 /\ Dropping \subseteq {p}
    BY <1>1, <1>3, <1>4, <2>1, Cards DEF OwnWeak
  <2>3. Strong = {}
    BY <1>3, <2>2, Cards, FS_EmptySet
  <2>4. Weak \ {p} = {}
    <3>1. kind[p] = "dec_weak" => OwnWeak = 1
      BY DEF OwnWeak, Dropping
    <3>2. Cardinality(Weak) = IF kind[p] = "weak" THEN 1 ELSE 0
      BY <1>1, <1>3, <2>1, <3>1, Cards
    <3>3. /\ IsFiniteSet(Weak \ {p})
          /\ Cardinality(Weak \ {p}) = IF p \in Weak THEN Cardinality(Weak) - 1
                                                      ELSE Cardinality(Weak)
      BY Cards, FS_RemoveElement
    <3>4. Cardinality(Weak \ {p}) = 0
      BY <3>2, <3>3 DEF Weak
    <3> QED BY <3>3, <3>4, FS_EmptySet
  <2>5. kind[u] \notin {"strong", "weak", "drop_data", "dec_weak", "free"}
    BY <1>3, <2>2, <2>3, <2>4 DEF Strong, Weak, Dropping
  <2>6. kind[u] \notin {"inc_load", "inc_cas"}
    <3> SUFFICES ASSUME kind[u] \in {"inc_load", "inc_cas"} PROVE FALSE
      OBVIOUS
    <3>1. source[u] \in Pointers /\ kind[source[u]] \in {"strong", "weak"}
      BY DEF ArcInv, SourceHeld
    <3>2. source[u] = p
      BY <2>3, <2>4, <3>1 DEF Strong, Weak
    <3> QED BY <1>1, <3>1, <3>2 DEF Lent
  <2> QED BY <1>1, <2>5, <2>6 DEF ArcTypeOK
<1>8. LastFrees'
  <2>1. CASE weak_count = 1
    BY <1>1, <1>7, <2>1 DEF LastFrees, ArcTypeOK
  <2>2. CASE weak_count # 1
    BY <1>1, <1>3, <2>2 DEF LastFrees, ArcTypeOK
  <2> QED BY <2>1, <2>2
<1>9. SourceHeld'
  BY <1>1 DEF ArcInv, SourceHeld, ArcTypeOK, Lent
<1> QED BY <1>1, <1>5, <1>6, <1>8, <1>9 DEF ArcInv

LEMMA FreeStep ==
  ASSUME ArcInv, ArcTypeOK', NEW p \in Pointers, Free(p) PROVE ArcInv'
<1>1. /\ kind[p] = "free" /\ kind' = [kind EXCEPT ![p] = "null"] /\ block = "live" /\ block' = "freed"
      /\ UNCHANGED <<strong_count, weak_count, drops, source, old_count>> /\ ArcTypeOK
  BY DEF Free, Becomes, ArcInv
<1>2. weak_count = 0 /\ \A u \in Pointers : kind'[u] = "null"
  BY <1>1 DEF ArcInv, LastFrees, ArcTypeOK
<1>3. strong_count = 0 /\ Dropping = {}
  BY <1>1, <1>2, Cards DEF ArcInv, CountsPointers, OwnWeak, ArcTypeOK
<1>4. drops = 1
  BY <1>1, <1>3 DEF ArcInv, OneDropper
<1>5. SourceHeld' /\ LastFrees' /\ CountsPointers'
  BY <1>1, <1>2 DEF ArcInv, SourceHeld, LastFrees, CountsPointers, ArcTypeOK
<1>6. OneDropper'
  BY <1>1, <1>2, <1>3, <1>4 DEF OneDropper, Dropping
<1> QED BY <1>1, <1>2, <1>3, <1>4, <1>5, <1>6 DEF ArcInv

\* The invariant is inductive.
LEMMA ArcInvStep == ArcInv /\ [ArcNext]_arcvars => ArcInv'
<1> SUFFICES ASSUME ArcInv, [ArcNext]_arcvars PROVE ArcInv'
  OBVIOUS
<1>1. ArcTypeOK'
  BY ArcTypeStep
<1>2. CASE UNCHANGED arcvars
  BY <1>2 DEF arcvars, ArcInv, ArcTypeOK, CountsPointers, OneDropper, LastFrees, SourceHeld,
              Strong, Weak, Dropping, OwnWeak
<1>3. ASSUME NEW p \in Pointers, Step(p) PROVE ArcInv'
  BY <1>1, <1>3, NewStep, CloneStep, IncCasStep, MakeWeakStep, SharedDropStep,
     DropDataStep, DecWeakStep, FreeStep DEF Step
<1> QED BY <1>2, <1>3 DEF ArcNext

\* The counters count the pointers, in every reachable state.
THEOREM ArcInvariant == ArcSpec => []ArcInv
  BY ArcInitInv, ArcInvStep, PTL DEF ArcSpec

\* An owner of a strong pointer has the object.
THEOREM StrongPointersKeepTheObject == ArcSpec => []StrongKeepsObject
  BY ArcInvariant, ArcInvImplies, PTL

\* Nobody touches a freed control block.
THEOREM PointersAreSafe == ArcSpec => []NoUseAfterFree
  BY ArcInvariant, ArcInvImplies, PTL

\* When the last pointer is gone the object was dropped once and the block is freed.
THEOREM NothingIsLeftBehind == ArcSpec => []GoneIsReleased
  BY ArcInvariant, ArcInvImplies, PTL

\* No step takes the strong count from zero to anything else.
THEOREM ExpiredStaysExpired == ArcSpec => ExpiredForEver
<1>1. ArcInv /\ [ArcNext]_arcvars => [block = "live" /\ strong_count = 0 => strong_count' = 0]_arcvars
  <2> SUFFICES ASSUME ArcInv, ArcNext, block = "live", strong_count = 0 PROVE strong_count' = 0
    OBVIOUS
  <2>1. PICK p \in Pointers : Step(p)
    BY DEF ArcNext
  <2>2. kind[p] # "strong"
    BY Nonempty DEF ArcInv, CountsPointers, Strong
  <2>3. ~NewShared(p) /\ ~SharedDrop(p)
    BY <2>2 DEF NewShared, SharedDrop, Becomes
  <2>4. ~IncCas(p)
    BY DEF IncCas, Becomes, ArcInv, SourceHeld
  <2> QED BY <2>1, <2>3, <2>4 DEF Step, IncLoad, IncCasFails, GiveUp, DropData, DecWeak, Free,
                                  CloneOrUpgrade, MakeWeak
<1> QED BY <1>1, ArcInvariant, PTL DEF ArcSpec, ExpiredForEver
=============================================================================
