----------------------------- MODULE ThreadPool -----------------------------
(***************************************************************************)
(* Thread pools: thread_pool.c, the job queue of thread_pool_jobqueue.h,   *)
(* and the threads that call the pools.                                    *)
(*                                                                         *)
(* The array queue below the job queue appears as the first-in first-out   *)
(* queue that module ArrayQueue is shown to implement, the semaphore as    *)
(* the counting semaphore that module Semaphore is shown to implement.  A  *)
(* section under thcount_lock is one step, except for the last one of a    *)
(* worker, whose unlock comes after the decrement that lets drop free the  *)
(* pool.                                                                   *)
(***************************************************************************)
EXTENDS Integers, FiniteSets, Sequences, SequencesExt

CONSTANTS
  Pools,
  NumThreads,      \* get_cpu_count()
  Callers,         \* the client threads
  Waiters,         \* those of them that call chiba_thread_pool_wait
  Jobs,            \* each is added at most once
  Calls,           \* the entry points the clients use besides chiba_thread_pool_new
  QueueCapacity,   \* 65536 in jobqueue_new
  MaxSem,          \* bound: drop does not post beyond this semaphore value
  MaxOthers,       \* bound: as many calls of new and drop for other pools
  NONE

ASSUME NumThreadsAssumption == NumThreads \in Nat \ {0}
ASSUME CallsAssumption == Calls \subseteq {"add_work", "wait", "pause", "drop"}
ASSUME QueueAssumption == QueueCapacity \in Nat \ {0} /\ MaxSem \in Nat \ {0} /\ MaxOthers \in Nat /\ NONE \notin Jobs
ASSUME WaitersAssumption == Waiters \subseteq Callers

\* A worker is the pool it serves and its id.
Workers == Pools \X (0 .. NumThreads - 1)
PoolOf(w) == w[1]

VARIABLES
  keepalive,   \* threads_keepalive, one flag for all pools
  killed,      \* the process was terminated by a signal
  state,       \* each pool: "none", "starting", "ready", "dropping", "freed"
  alive,       \* pool->num_threads_alive
  working,     \* pool->num_threads_working
  lock,        \* the worker that holds pool->thcount_lock across steps, or NONE
  jobs,        \* pool->jobqueue->jobs
  sem,         \* pool->jobqueue->has_jobs
  pc,          \* where each worker is in thread_do
  job,         \* job_p of each worker
  call,        \* where each caller is in its call, "idle" outside of one
  target,      \* the pool a caller's call is about
  added,       \* the jobs chiba_thread_pool_add_work was called with, by pool
  lost,        \* those of them that found the queue full
  others,      \* the calls of new and drop for pools besides Pools
  finished     \* the jobs whose function has returned

pools   == <<state, alive, working, lock, jobs, sem>>
workers == <<pc, job>>
callers == <<call, target>>
history == <<added, lost, others, finished>>
vars    == <<keepalive, killed, state, alive, working, lock, jobs, sem, pc, job,
             call, target, added, lost, others, finished>>

Init ==
  /\ keepalive = FALSE /\ killed = FALSE
  /\ state = [p \in Pools |-> "none"]
  /\ alive = [p \in Pools |-> 0]
  /\ working = [p \in Pools |-> 0]
  /\ lock = [p \in Pools |-> NONE]
  /\ jobs = [p \in Pools |-> <<>>]
  /\ sem = [p \in Pools |-> 0]
  /\ pc = [w \in Workers |-> "none"]
  /\ job = [w \in Workers |-> NONE]
  /\ call = [c \in Callers |-> "idle"]
  /\ target = [c \in Callers |-> NONE]
  /\ added = [p \in Pools |-> {}]
  /\ finished = {} /\ lost = {} /\ others = 0

Goto(w, from, to) == pc[w] = from /\ pc' = [pc EXCEPT ![w] = to]
GotoCall(c, from, to) == call[c] = from /\ call' = [call EXCEPT ![c] = to]

Post(p) == sem' = [sem EXCEPT ![p] = @ + 1]
Unlocked(p) == lock[p] = NONE

-----------------------------------------------------------------------------
(* A worker: thread_do.                                                    *)

Up(w) ==
  /\ Unlocked(PoolOf(w))
  /\ Goto(w, "init", "loop")
  /\ alive' = [alive EXCEPT ![PoolOf(w)] = @ + 1]
  /\ UNCHANGED <<keepalive, killed, state, working, lock, jobs, sem, job, callers, history>>

Loop(w) ==
  /\ Goto(w, "loop", IF keepalive THEN "sem" ELSE "exit")
  /\ UNCHANGED <<keepalive, killed, pools, job, callers, history>>

SemWait(w) ==
  /\ sem[PoolOf(w)] > 0
  /\ Goto(w, "sem", "awake")
  /\ sem' = [sem EXCEPT ![PoolOf(w)] = @ - 1]
  /\ UNCHANGED <<keepalive, killed, state, alive, working, lock, jobs, job, callers, history>>

Awake(w) ==
  /\ Goto(w, "awake", IF keepalive THEN "begin" ELSE "loop")
  /\ UNCHANGED <<keepalive, killed, pools, job, callers, history>>

BeginWork(w) ==
  /\ Unlocked(PoolOf(w))
  /\ Goto(w, "begin", "pull")
  /\ working' = [working EXCEPT ![PoolOf(w)] = @ + 1]
  /\ UNCHANGED <<keepalive, killed, state, alive, lock, jobs, sem, job, callers, history>>

\* A plausible mistake: the job stays in the queue.
PullPeeks(w) ==
  /\ \/ /\ jobs[PoolOf(w)] = <<>>
        /\ Goto(w, "pull", "end")
        /\ UNCHANGED job
     \/ /\ jobs[PoolOf(w)] # <<>>
        /\ Goto(w, "pull", "pull_post")
        /\ job' = [job EXCEPT ![w] = Head(jobs[PoolOf(w)])]
  /\ UNCHANGED <<keepalive, killed, pools, callers, history>>

\* jobqueue_pull pops a job, and posts the semaphore once more when it got one.
Pull(w) ==
  /\ \/ /\ jobs[PoolOf(w)] = <<>>
        /\ Goto(w, "pull", "end")
        /\ UNCHANGED <<jobs, job>>
     \/ /\ jobs[PoolOf(w)] # <<>>
        /\ Goto(w, "pull", "pull_post")
        /\ job' = [job EXCEPT ![w] = Head(jobs[PoolOf(w)])]
        /\ jobs' = [jobs EXCEPT ![PoolOf(w)] = Tail(@)]
  /\ UNCHANGED <<keepalive, killed, state, alive, working, lock, sem, callers, history>>

PullPost(w) ==
  /\ Goto(w, "pull_post", "run")
  /\ Post(PoolOf(w))
  /\ UNCHANGED <<keepalive, killed, state, alive, working, lock, jobs, job, callers, history>>

\* The job's function returns.
Run(w) ==
  /\ Goto(w, "run", "end")
  /\ finished' = finished \cup {job[w]}
  /\ job' = [job EXCEPT ![w] = NONE]
  /\ UNCHANGED <<keepalive, killed, pools, callers, added, lost, others>>

Asleep(p) == {c \in Callers : call[c] = "asleep" /\ target[c] = p}

\* A plausible mistake: nobody is told.
SignalForgotten(p) == UNCHANGED call

\* pthread_cond_signal on threads_all_idle
Signal(p) ==
  IF Asleep(p) = {} THEN UNCHANGED call
  ELSE \E c \in Asleep(p) : call' = [call EXCEPT ![c] = "wait"]

EndWork(w) ==
  LET p == PoolOf(w) IN
  /\ Unlocked(p)
  /\ Goto(w, "end", "loop")
  /\ working' = [working EXCEPT ![p] = @ - 1]
  /\ IF working[p] = 1 THEN Signal(p) ELSE UNCHANGED call
  /\ UNCHANGED <<keepalive, killed, state, alive, lock, jobs, sem, job, target, history>>

Exit(w) ==
  /\ Unlocked(PoolOf(w))
  /\ Goto(w, "exit", "unlock")
  /\ lock' = [lock EXCEPT ![PoolOf(w)] = w]
  /\ alive' = [alive EXCEPT ![PoolOf(w)] = @ - 1]
  /\ UNCHANGED <<keepalive, killed, state, working, jobs, sem, job, callers, history>>

Unlock(w) ==
  /\ Goto(w, "unlock", "dead")
  /\ lock' = [lock EXCEPT ![PoolOf(w)] = NONE]
  /\ UNCHANGED <<keepalive, killed, state, alive, working, jobs, sem, job, callers, history>>

-----------------------------------------------------------------------------
(* chiba_thread_pool_new: the flag is set, the threads are created, and the *)
(* caller spins until they are all up.                                      *)

New(c, p) ==
  /\ state[p] = "none"
  /\ GotoCall(c, "idle", "new")
  /\ target' = [target EXCEPT ![c] = p]
  /\ keepalive' = TRUE
  /\ state' = [state EXCEPT ![p] = "starting"]
  /\ pc' = [w \in Workers |-> IF PoolOf(w) = p THEN "init" ELSE pc[w]]
  /\ UNCHANGED <<killed, alive, working, lock, jobs, sem, job, history>>

NewReturns(c) ==
  /\ GotoCall(c, "new", "idle")
  /\ alive[target[c]] = NumThreads
  /\ state' = [state EXCEPT ![target[c]] = "ready"]
  /\ target' = [target EXCEPT ![c] = NONE]
  /\ UNCHANGED <<keepalive, killed, alive, working, lock, jobs, sem, workers, history>>

\* A client calls a pool it has got from new and nobody is dropping.
MayCall(c, p, entry) == entry \in Calls /\ state[p] = "ready"

-----------------------------------------------------------------------------
(* chiba_thread_pool_add_work with jobqueue_push, which ignores the answer  *)
(* of the array queue.                                                      *)

AddWork(c, p, j) ==
  /\ MayCall(c, p, "add_work")
  /\ \A q \in Pools : j \notin added[q]
  /\ GotoCall(c, "idle", "add")
  /\ target' = [target EXCEPT ![c] = p]
  /\ IF Len(jobs[p]) < QueueCapacity
       THEN jobs' = [jobs EXCEPT ![p] = Append(@, j)] /\ UNCHANGED lost
       ELSE lost' = lost \cup {j} /\ UNCHANGED jobs
  /\ added' = [added EXCEPT ![p] = @ \cup {j}]
  /\ UNCHANGED <<keepalive, killed, state, alive, working, lock, sem, workers, others, finished>>

\* A plausible mistake: the job is queued and nobody is told.
AddPostForgotten(c) ==
  /\ GotoCall(c, "add", "idle")
  /\ target' = [target EXCEPT ![c] = NONE]
  /\ UNCHANGED <<keepalive, killed, pools, workers, history>>

AddPost(c) ==
  /\ GotoCall(c, "add", "idle")
  /\ Post(target[c])
  /\ target' = [target EXCEPT ![c] = NONE]
  /\ UNCHANGED <<keepalive, killed, state, alive, working, lock, jobs, workers, history>>

-----------------------------------------------------------------------------
(* chiba_thread_pool_wait.  jobqueue_is_empty answers whether the queue     *)
(* holds jobs.                                                              *)

Wait(c, p) ==
  /\ MayCall(c, p, "wait") /\ c \in Waiters
  /\ GotoCall(c, "idle", "wait")
  /\ target' = [target EXCEPT ![c] = p]
  /\ UNCHANGED <<keepalive, killed, pools, workers, history>>

\* A plausible mistake: only the queue is looked at.
BusyQueueOnly(p) == jobs[p] # <<>>

Busy(p) == jobs[p] # <<>> \/ working[p] > 0

WaitSleeps(c) ==
  /\ call[c] = "wait" /\ Unlocked(target[c]) /\ Busy(target[c])
  /\ call' = [call EXCEPT ![c] = "asleep"]
  /\ UNCHANGED <<keepalive, killed, pools, workers, target, history>>

WaitReturns(c) ==
  /\ call[c] = "wait" /\ Unlocked(target[c]) /\ ~Busy(target[c])
  /\ call' = [call EXCEPT ![c] = "idle"]
  /\ target' = [target EXCEPT ![c] = NONE]
  /\ UNCHANGED <<keepalive, killed, pools, workers, history>>

\* pthread_cond_wait may return without a signal.
WakeSpuriously(c) ==
  /\ GotoCall(c, "asleep", "wait")
  /\ UNCHANGED <<keepalive, killed, pools, workers, target, history>>

-----------------------------------------------------------------------------
(* chiba_thread_pool_pause.  No handler is registered for SIGUSR1, whose    *)
(* default action terminates the process.                                   *)

Pause(c, p) ==
  /\ MayCall(c, p, "pause")
  /\ call[c] = "idle"
  /\ killed' = (alive[p] > 0)
  /\ UNCHANGED <<keepalive, pools, workers, callers, history>>

-----------------------------------------------------------------------------
(* chiba_thread_pool_drop, by a client that knows of no other call in       *)
(* progress on the pool.                                                    *)

Drop(c, p) ==
  /\ MayCall(c, p, "drop")
  /\ \A d \in Callers : target[d] # p
  /\ GotoCall(c, "idle", "drop")
  /\ target' = [target EXCEPT ![c] = p]
  /\ keepalive' = FALSE
  /\ state' = [state EXCEPT ![p] = "dropping"]
  /\ UNCHANGED <<killed, alive, working, lock, jobs, sem, workers, history>>

\* A plausible mistake: the sleeping workers are not woken.
DropPostForgotten(c) ==
  /\ call[c] = "drop" /\ alive[target[c]] > 0
  /\ UNCHANGED vars

\* Both polling loops: chiba_sem_post_all, again and again.
DropPost(c) ==
  /\ call[c] = "drop" /\ alive[target[c]] > 0
  /\ sem[target[c]] < MaxSem
  /\ Post(target[c])
  /\ UNCHANGED <<keepalive, killed, state, alive, working, lock, jobs, workers, callers, history>>

\* A plausible mistake: the pool is freed while a last thread is alive.
DropFreeAtOnce(c) ==
  /\ GotoCall(c, "drop", "idle")
  /\ alive[target[c]] <= 1
  /\ state' = [state EXCEPT ![target[c]] = "freed"]
  /\ jobs' = [jobs EXCEPT ![target[c]] = <<>>]
  /\ target' = [target EXCEPT ![c] = NONE]
  /\ UNCHANGED <<keepalive, killed, alive, working, lock, sem, workers, history>>

\* Everything is freed, jobs that are still queued are forgotten.
DropFree(c) ==
  /\ GotoCall(c, "drop", "idle")
  /\ alive[target[c]] = 0
  /\ state' = [state EXCEPT ![target[c]] = "freed"]
  /\ jobs' = [jobs EXCEPT ![target[c]] = <<>>]
  /\ target' = [target EXCEPT ![c] = NONE]
  /\ UNCHANGED <<keepalive, killed, alive, working, lock, sem, workers, history>>

-----------------------------------------------------------------------------
\* Elsewhere in the process another pool is made, then dropped, and so on: the flag
\* is that of all pools.
OtherPool ==
  /\ others < MaxOthers
  /\ others' = others + 1
  /\ keepalive' = (others % 2 = 0)
  /\ UNCHANGED <<killed, pools, workers, callers, added, lost, finished>>

WorkerStep(w) ==
  \/ Up(w) \/ Loop(w) \/ SemWait(w) \/ Awake(w) \/ BeginWork(w)
  \/ Pull(w) \/ PullPost(w) \/ Run(w) \/ EndWork(w) \/ Exit(w) \/ Unlock(w)

Begin(c) ==
  \E p \in Pools :
    \/ New(c, p) \/ Wait(c, p) \/ Pause(c, p) \/ Drop(c, p)
    \/ \E j \in Jobs : AddWork(c, p, j)

CallStep(c) ==
  \/ NewReturns(c) \/ AddPost(c) \/ WaitSleeps(c) \/ WaitReturns(c)
  \/ DropPost(c) \/ DropFree(c)

Next ==
  /\ ~killed
  /\ \/ \E w \in Workers : WorkerStep(w)
     \/ \E c \in Callers : Begin(c) \/ CallStep(c) \/ WakeSpuriously(c)
     \/ OtherPool

Spec == Init /\ [][Next]_vars

\* Threads in the program's code keep being scheduled and jobs return.  A worker
\* at the semaphore or at a lock gets it in the end when it is free again and
\* again.
FairSpec ==
  /\ Spec
  /\ \A w \in Workers : WF_vars(~killed /\ WorkerStep(w))
  /\ \A c \in Callers : WF_vars(~killed /\ CallStep(c))

-----------------------------------------------------------------------------
(* Properties.                                                             *)

\* The type invariant of the pools, the workers and the calls.
TypeOK ==
  /\ keepalive \in BOOLEAN /\ killed \in BOOLEAN
  /\ state \in [Pools -> {"none", "starting", "ready", "dropping", "freed"}]
  /\ alive \in [Pools -> Nat] /\ working \in [Pools -> Nat] /\ sem \in [Pools -> Nat]
  /\ lock \in [Pools -> Workers \cup {NONE}]
  /\ jobs \in [Pools -> Seq(Jobs)]
  /\ pc \in [Workers -> {"none", "init", "loop", "sem", "awake", "begin", "pull", "pull_post",
                         "run", "end", "exit", "unlock", "dead"}]
  /\ job \in [Workers -> Jobs \cup {NONE}]
  /\ call \in [Callers -> {"idle", "new", "add", "wait", "asleep", "drop"}]
  /\ target \in [Callers -> Pools \cup {NONE}]
  /\ added \in [Pools -> SUBSET Jobs] /\ lost \subseteq Jobs /\ finished \subseteq Jobs
  /\ others \in 0 .. MaxOthers

Working(w) == pc[w] \in {"pull", "pull_post", "run", "end"}
Queued(p) == ToSet(jobs[p])
InHand(p) == {job[w] : w \in {v \in Workers : PoolOf(v) = p}} \ {NONE}

\* Everything has its type, and a job that was added to a pool which still exists is
\* in one place: in the queue, with the one worker that runs it, or finished.  None
\* is run twice or handed to two workers, and none is lost but those that found the
\* queue full, whatever other pools do.
JobsAccounted ==
  /\ TypeOK
  /\ \A v, w \in Workers : job[v] = job[w] /\ job[v] # NONE => v = w
  /\ \A p \in Pools : state[p] # "freed" =>
       /\ added[p] \subseteq Queued(p) \cup InHand(p) \cup finished \cup lost
       /\ Queued(p) \cap InHand(p) = {}
       /\ (Queued(p) \cup InHand(p)) \cap finished = {}

\* When wait returns, every job added to the pool so far has finished or was lost at
\* once.
WaitMeansFinished ==
  [][ \A c \in Callers : WaitReturns(c) => added[target[c]] \subseteq finished \cup lost ]_vars

\* The comment on num_threads_alive says that it counts the threads currently
\* alive, and drop frees the pool when it is zero.  When it does, every worker is
\* out of its loop for good, without a job, and has at most its unlock left: an
\* unlock of a mutex that is freed by then.
FreedFindsWorkersGone ==
  \A w \in Workers : state[PoolOf(w)] = "freed" => pc[w] \in {"unlock", "dead"} /\ job[w] = NONE

\* Another pool was dropped: workers of this one may have left its service.
OtherDropped == others > 1

\* Every added job that was not lost is run, however the posts, the spare posts and
\* the workers interleave, unless its pool or another one is dropped or the process
\* is killed first.
JobsAreRun ==
  \A j \in Jobs, p \in Pools :
    j \in added[p] ~> j \in finished \cup lost \/ state[p] # "ready" \/ OtherDropped \/ killed

\* A call to wait returns, once all jobs have finished at the latest, unless another
\* pool is dropped.
WaitsReturn ==
  \A c \in Callers : call[c] \in {"wait", "asleep"} ~> call[c] = "idle" \/ OtherDropped \/ killed

\* Drop brings every worker out of its loop, whatever it is doing, and new returns
\* with every worker up, unless another pool is made or dropped.
NewAndDropReturn ==
  \A c \in Callers : call[c] \in {"new", "drop"} ~> call[c] = "idle" \/ others > 0 \/ killed
=============================================================================
