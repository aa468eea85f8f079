# Chiba in TLA+

Chiba (`src/chiba`) is a C runtime: lock-free queues, channels, reference-counted
pointers, a thread pool, stackful coroutines and a scheduler for them.  This
directory holds TLA+ models of its components, the TLC configurations that check
them on small instances, and proofs that TLAPS checks for every value of the
constants.

Line numbers below are those of the files under `src/chiba`.

## 1. The system

| Component | Source | State | Operations | Used by |
|---|---|---|---|---|
| Array queue | `concurrency/array_queue.h` | `head`, `tail`, a stamp and a value per slot | new, push, pop, is_empty, is_full, size | the thread pool's job queue |
| Work-stealing deque | `concurrency/dequeue.h` | `top`, `bottom`, the current array and the replaced ones | push, pop (owner), steal (anybody) | meant for the concurrent scheduler |
| Channel | `channel/*` | a linked list under a mutex, `len`, two handle counts, `disconnected` | create, try_send, try_recv, clone, drop | clients |
| Thread pool | `thread_pool/*` | the queue, a semaphore, counts of live and working threads, one static `threads_keepalive` | new, add_work, wait, pause, resume, drop | clients |
| Semaphore | `utils/chiba_sem.h` | a value, a mutex, a condition variable | wait, post, post_all | the thread pool |
| Shared and weak pointers | `arc/*` | a strong and a weak count, the object, the control block | new, clone, upgrade, weak, drop | clients |
| Coroutine scheduler | `scheched_coroutine/*` | per thread: current, runners, yielders, paused; shared: detached | start, yield, pause, resume, exit, detach, attach | clients |
| AA tree | `concurrency/aatree.h` | a balanced tree | insert, delete, search, walk | the scheduler's maps |
| Coroutines | `coroutine/coroutine.c` | per thread: the current coroutine, the one being started, a request for a cleanup; per coroutine: its descriptor and its stack | start, switch (final or not), current | the scheduler |
| Machine contexts | `coroutine/context/*` | a few words of memory per coroutine, the registers | make, switch, entry | coroutines |
| Concurrent scheduler | `concurrent_scheched_coroutine/*` | an unfinished sketch | | |
| Future | `concurrency/future.h` | the consumer's half of a future | | |
| The rest | `nanboxed_types.h`, `utils/murmurhash3.h`, `utils/backoff.h`, `basic_*`, headers | none of interest | | |

They interact by direct calls and by memory that threads share: the pool calls the
array queue and the semaphore, the coroutine scheduler keeps its paused and
detached coroutines in hash maps of AA trees, and coroutines are switched by the
context code.  There is no persistence and no network, so nothing here restarts or
loses messages; what is hard is

* interleaving at the grain of single memory accesses (array queue, deque,
  pointers), once with stores that become visible late (deque);
* values that are read, and acted upon after other threads have moved on (array
  queue, deque, channel);
* the last owner leaving while others are on their way (channel, pointers, pool);
* wakeups that can be lost or go to the wrong thread (semaphore, pool);
* one static flag that all pools share, and a queue that may be full (pool);
* a stack that nobody who stands on it can free (coroutines);
* registers and memory that are written by hand, for five machines (contexts), and
  links of lists that share memory with the children of trees (scheduler);
* long sequences of legal calls in an order nobody wrote a test for (coroutine
  scheduler, AA tree);
* memory that runs out in the middle of an operation (channel, deque).

What makes each component correct: the *array queue* is a linearizable bounded FIFO
queue whose plain `value` fields are never raced for; the *deque* hands each item to
one thread, the owner's end last in first out, the thieves' first in first out; the
*channel* delivers each accepted message once and in order, and lives exactly as
long as its handles; the *pool* runs each job once, and `wait` and `drop` return
when they should and not before; the *semaphore* leaves no permit unused while a
thread sleeps; *pointers* drop the object once, and free the block once, after the
last use; *coroutines* go on where they were left, with their registers, and their
stacks go back to the client once, when nobody stands on them; the *scheduler* keeps
every coroutine in exactly one place and lets each have its turn; the *tree* stays
ordered and balanced.

`PROJECT.json` lists under `hazards` the places in the code where these can go
wrong, and under `map` the lines each definition stands for.

## 2. The modules

Each module has one process per thread, handle or pointer variable, `pc` (or
`call`) says where it is in its call, and one action is one step between two
accesses to memory that others may see.  Operators under the words "A plausible
mistake" are not part of the specification: they are mutated forms of the action
below them, with which each property was seen to fail.

**ArrayQueue** (with **BoundedQueue**, **ArrayQueueLap**, **MCArrayQueue**,
**ArrayQueueProofs**). Every load, exchange and store of
push, pop, is_empty, is_full and size is an action. A packed word is a record `[lap,
index]`; the retry loops with their weak exchanges, which may fail without a reason,
and the `full` and `empty` exits with their second look at the other end are all
there. Memory is sequentially consistent: the exchanges and the fences of the code
are `seq_cst`, and the stamps are stored with release and loaded with acquire.
`BoundedQueue` is the abstract queue: a sequence, calls, and one step per call at
which it takes effect; `MCArrayQueue` has the mapping (a push takes effect at its
exchange on the tail, its value being still in the pusher's hand until it has been
written). The specification ends pushes at a lap, `MaxLap`; `MCArrayQueue` adds a step
that is not the code's, `Rebase`, which takes a lap off all positions and stamps once
nothing that is still to be compared lies in lap 0, so that the run has pushes without
end. `ArrayQueueLap` runs the arithmetic on packed words of a small width
beside the records, so that the record model can be trusted for the words.

**WsQueue** (with **WorkStealingDeque**, **MCWsQueue**, **WsQueueProofs**).  The
deque of Chase and Lev.  The owner's stores go through a first-in first-out store
buffer (the order of x86) and become visible at any later time, because the fence in
pop is there for exactly that reason; thieves only write by exchange.  The buffer is
written as the sequence `memory` of the memories its stores lead through: thieves see
the first (`Visible`), the owner the last (`Own`), a store appends one and `Flush`
forgets the oldest.  Arrays grow and the old ones stay, as garbage, for thieves that still
read them.  A resize takes two steps, one per allocation: the new array (`PushResize`)
and, when the garbage is full, room for the old one (`PushGarbageFails`, `PushGrow`);
either may fail, and the second failure drops the new array again.  `WorkStealingDeque` is a sequence with an owner's end and a thieves' end; a
push takes effect at its store of the bottom, a pop at its load of the top or its
exchange, a steal at its exchange.

**Channel** (with **AbstractChannel**, **MCChannel**, **ChannelProofs**).  Handles
are the processes.  A section under the mutex is one step, or two where an atomic
field lies in between; everything on atomic fields is a step of its own.  Nodes are
allocated and freed, any allocation may fail, those of the creation included, and a use of the channel after it was
freed leads to `chan = "corrupt"`.  The capacity is chosen at creation and 0 means
unbounded, which is what `chiba_channel_new` makes of it.  `AbstractChannel`
promises first in first out, acceptance only while open and below the capacity, and
a reason for each refusal.

**ThreadPool** (with **ThreadPoolProofs**).  Workers of pools and callers from
outside.  It stands on the other components' abstract specifications: the job queue
is a FIFO (BoundedQueue), the semaphore a counter (CountingSemaphore).  Sections
under `thcount_lock` are a step, but for the worker's last one, whose unlock comes
after the decrement that `drop` polls for.  The job queue has a capacity and
`jobqueue_push` ignores its answer, so a job may be `lost`; `threads_keepalive` is
one variable for all pools, and `OtherPool` is what calls of new and drop for pools
elsewhere do to it.  `chiba_thread_pool_pause` sends a signal whose handler is not
registered, so `Pause` ends the process.  Clients are assumed to call a pool only
between new and drop; that is an assumption of the model, as the functions use the
pool they are given without a check.

**Semaphore** (with **CountingSemaphore**).  Sleeping threads, signals that meet
nobody, spurious wakeups, and threads that overtake a woken one.  Its theorems are in
ThreadPoolProofs, beside those of the pool that waits on it; the names that both
modules would have begin with `Sem` here.

**Arc**.  Pointer variables are the processes; the two counters are read, exchanged
and decremented one access at a time, several threads may clone or upgrade from one
variable.  Its theorems are in ThreadPoolProofs as well, the last part of it, and the
names that another module there would have begin with `Arc` or `arc`.

**Coroutine** (with **CoroutineProofs**).  The protocol of `coroutine.c`: start, the
two paths of switch, the wrapper every coroutine begins in, and the cleanup that a
final switch leaves to whoever continues.  A context that is not running has a place
where it goes on (`resume`), a thread has the context whose stack it stands on
(`stack`) beside the one it believes to be current (`chiba_co_cur`).  The switch
itself is one step.  The client may do anything but what the header forbids: it
switches to suspended coroutines only and to none that was left for good, starts
none on a stack in use, switches to a thread's main context on that thread only, and
uses the fast path (from one coroutine to another, not final) as `chiba_co_switch`
does.  A handler runs in `DeferCall`; the guard that aborts when it calls back is
`GuardAborts`.  What is modelled is the build with contexts in assembly.

**Context** extends Coroutine: it adds the registers of each thread and the saved
words of each coroutine, and to each action of Coroutine what it does with them, so
that its specification is the conjunction of the two.  A switch is a table of the
registers stored and one of the registers loaded, with their offsets, a made context
is a table of words; there are five: amd64 for Unix and for Windows, aarch64, and
riscv64 with and without registers for doubles.  A program counter that is an offset
in the switch's own code must be that of its `ret`, which the tables compute from
the lengths of the instructions.

**Sco** and **Scheduler** (with **ScoProofs** and **SchedulerProofs**).  `Scheduler`
says what the scheduler promises: queues of runners and yielders and a set of paused coroutines
per thread, detached ones for all.  `Sco` is the code: nodes with `prev` and `next`
in memory, lists with two ends, hash maps of AA trees whose children are the same
two words, and the counters beside them, by which alone the code decides.  Between
two context switches a thread only touches its own scheduler, so that is one step;
detach and attach cross to the shared map in two.  Two places in memory stand for
what is no node: `NULL` and `FREED`, the links read from a stack that was given
back; links written there stay and are found (`InOnePlace`).  The refinement mapping
(`Sched`, `Detached`) reads the lists along `next` and the trees from their roots, as
many steps as there are coroutines at most: recursive functions on numbers, since the
lists may be linked in a circle where the code is wrong.

**AATree** and **AATreeMap** (with **AATreeProofs**).  `AATree` holds the algorithms
on trees, one operator or recursive function per function of the code; the
rebalancing of a deletion is the composition of the same conditional rotations as in
the code.  The recursive functions have a domain, the set `Tree` of all trees, itself
the union of the recursively defined `Trees[h]` of height `h` at most over the
`Heights`.  TLC evaluates the functions by their equations and only has to see that a
tree is in the domain; it cannot take the union over all of `Nat`, so the runs give
`Heights` one number, above the height of any tree they reach, while the theorems are
about `Heights = Nat`.  `AATreeMap` has one action per public operation and a set of
keys to compare with; its names begin with `Map` or `map` where ScoProofs, which uses
AATreeProofs, has another of the name.  Sco extends AATree for its maps.

How the modules compose: Sco runs on AATree's trees; ThreadPool uses the queue and
the semaphore by what their modules are shown to implement; Context runs on
Coroutine's actions; Sco treats a switch of coroutines as done, which is what
`ClientIsCurrent` and `RegistersSurvive` say of it.

## 3. The runs

| Run | Instance | What it shows |
|---|---|---|
| `aq` | 2 threads, 2 values, 2 slots, `MaxLap` 2 | `SlotExclusive`, `TailWithinLap`, `SizeIsSnapshot`, `RefusalIsTrue`; refinement of `BoundedQueue`: no item is lost, delivered twice or overtaken; `CallsReturn`: a call returns unless other threads complete pushes for ever |
| `aq_lap` | capacities 1 to 32, 8-bit words, 70 laps | words compute what records compute, across the wrap-around |
| `ws` | owner, 2 thieves, 3 items, capacity 1 growing to 4, garbage for 1 array growing to 2 | `WindowFits`, `StaleArraysServe`, refinement of `WorkStealingDeque` |
| `channel` | 2 + 2 handles, 3 nodes, 2 values, unbounded or capacity 1 | `HeldIsLive`, `ListWellFormed`, `DisconnectedIsFinal`, `NothingLeaks`, refinement of `AbstractChannel` |
| `tp` | 2 workers, 2 callers of which 1 waits, 2 jobs, room for 1, another pool made and dropped | `JobsAccounted`, `WaitMeansFinished`, `FreedFindsWorkersGone`, `JobsAreRun`, `WaitsReturn`, `NewAndDropReturn` |
| `sem` | 4 threads, value up to 3 | `NoLostWakeup`, refinement of `CountingSemaphore` with its fairness |
| `arc` | 5 pointers | `StrongKeepsObject`, `NoUseAfterFree`, `GoneIsReleased`, `ExpiredForEver`, `ExpiredIsDropped` |
| `co` | 2 threads, 2 coroutines, five machines | `StackOutlivesUse`, `ClientIsCurrent`, `RegistersSurvive`, `DefersRun` |
| `sco` | 2 threads, 4 coroutines, 1 shard | refinement of `Scheduler`; `InOnePlace`, `ExitGoesToMain`, `YieldersRun`, `MainGetsToRun` |
| `aatree` | trees over 11 keys | `HoldsKeys`, `IsBalanced`, `LookupsFind` |
| `ch_destroy` | 1 + 1 handles | violated: see findings |
| `tp_two_waiters` | 2 waiting callers, 1 job | violated: see findings |

*Bounds and why they are enough.*  `MaxLap` stops new pushes once the tail has
reached that lap.  With `MaxLap` 2 the queue has been filled twice by then, and the
pushes already in progress go on into the next lap, so that a slot is used by a push
that meets the stamp of an earlier lap.  `Rebase` then takes a lap off and pushes go on.
The code compares positions and stamps with each other only, so nothing changes for it;
no call is cut short, and one that is overtaken for ever is seen: that every call returns
without more was checked apart from the runs and is violated there, by a size that
reloads for ever and by a push that loses every race.  Two slots are the smallest queue
with two different indices, two values the fewest that show an order; a queue of one
slot is covered by the proofs only.  Three threads, one of
them stalled while two others pass it, were checked apart from the runs with one
value and `MaxLap` 1; the invariants and the refinement's counterparts on slots are
proved for any number.  In `aq_lap` eight bits with capacities up to 32 leave four
laps to a word at least, fewer than any real queue has; the words wrap around many
times in 70 laps.  Three items from a capacity of one make the deque grow twice,
with thieves in the middle of a steal from the older array, and room for one array in
the garbage (32 in the code) makes the second resize enlarge the garbage, or fail to.  Two handles on each
side give a clone that races with the drop of the others, and nodes for two calls in
progress and one message queued.  In `tp` two jobs and room for one give a job that
is lost and one that is not, `MaxOthers` 2 a pool made and dropped elsewhere, and
`MaxSem`, which only stops `drop` from posting without end, lets all workers wake up;
three jobs with a capacity of two were checked apart from the runs, once for safety
with another pool and once for liveness without.  Four coroutines on two threads
fill a list, a tree and the other thread's at once, and one shard puts all of a
map's coroutines into one tree, where rotations happen.  Two coroutines and two main
contexts are enough for a switch of every kind; Coroutine alone was also checked
with three.  All coroutines of `co` have a handler; those without are in the proofs
only.  Eleven keys make trees of three levels with room to rebalance on each.
Symmetry is used for threads, values, handles, nodes and items in `ws` and
`channel`, which have no liveness property.

`CHECK_DEADLOCK FALSE` is set where the modelled program does stop: when the pool
was dropped or the process killed (`tp`, `tp_two_waiters`), the object and all
pointers are gone (`arc`), the process has exited (`co`), and when `aq_lap` has
reached `MaxLap`.  In the other runs a deadlock would be reported.

*Fairness.*  `ArrayQueue`: every thread keeps being scheduled (WF), and a weak
exchange does not fail for ever while the expected value is there, which is what
load-linked/store-conditional loops are built to guarantee.  Nothing is assumed of
races: a push or a pop may lose every one, and size may find the tail moved every time.
So `CallsReturn` does not say that every call returns, which the code does not
guarantee, but that a call returns or other threads complete pushes for ever: nobody
waits in vain for a stamp, and once the pushes stop every call comes to its end.
`ThreadPool`: threads in the pool's code keep running and a job's function returns, all
of it weak fairness; nothing makes a client begin a call, and `wait` gets no spurious
wakeups for granted.  `Semaphore`: the mutex goes to one of the threads that want it.
`Arc`: a thread that has begun to drop goes on.  `Coroutine`: a thread inside
`coroutine.c` keeps running and handlers return; nothing is assumed of clients.
`Sco`: whichever coroutine a thread runs gives the thread up in the end, and main
keeps calling `chiba_sco_resume(0)`, both strong because they may do other things in
between; that is what a program that uses the scheduler is written like, and without it
a single coroutine holds its thread for ever.  The assumption is one per thread and not
per coroutine, and `MaxId` bounds the starts, so a thread on which new coroutines are
started for ever is not covered.  `Sco` writes its fairness out (`Fairness(t)`)
instead of using `SF_`, for TLC's sake only.

The type invariants of WsQueue, Channel and ThreadPool are conjuncts of
`WindowFits`, `ListWellFormed` and `JobsAccounted`; Sco's types come with the
refinement.  All of them are proved.

## 4. What is proved

| Theorem | Module | Holds for |
|---|---|---|
| `TypeCorrect`, `Invariant`, `SlotsAreExclusive`, `TailStaysWithinLap`, `SizeAnswersASnapshot`, `RefusalsAreTrue` | ArrayQueueProofs | any threads, values, capacity and number of laps |
| `Linearizable` | ArrayQueueProofs | the same |
| `Invariant`, `WindowAlwaysFits`, `StaleArraysAlwaysServe`, `Linearizable` | WsQueueProofs | any thieves, items and initial capacity, any room in the garbage, any number of resizes and failures of them, stores delayed as long as they may be |
| `Invariant`, `HandlesKeepTheChannel`, `DisconnectionsAreFinal` | ChannelProofs | any finite sets of handles, any nodes, values and capacities |
| `ListInvariant`, `ListStaysWellFormed`, `NothingEverLeaks`, `ChannelIsLinearizable` | ChannelProofs | the same |
| `Invariant`, `JobsAreAccounted`, `FreedPoolsAreLeft`, `WaitsForTheJobs` | ThreadPoolProofs | any pools, workers per pool, callers, jobs and capacity |
| `NoWakeupIsLost`, `CountsPermits` | ThreadPoolProofs | any finite set of threads |
| `ArcInvariant`, `StrongPointersKeepTheObject`, `PointersAreSafe`, `NothingIsLeftBehind`, `ExpiredStaysExpired` | ThreadPoolProofs | any finite set of pointers |
| `Invariant`, `StacksOutliveTheirUse`, `ClientsAreCurrent` | CoroutineProofs | any threads and coroutines |
| `ContextInvariant`, `ContextsAreCoroutines`, `RegistersAreKept` | CoroutineProofs | the same, on each of the five machines |
| `Invariant`, `CoroutinesAreInOnePlace`, `ExitLeadsToMain` | SchedulerProofs | any threads and number of coroutines |
| `Invariance`, `TreeHoldsKeys`, `TreeIsBalanced`, `LookupsAreRight` | AATreeProofs | trees of any height, any number of keys |
| `SchedulersAreKept`, `SchedulerIsImplemented`, `CoroutinesStayInOnePlace`, `ExitReachesMain` | ScoProofs | any threads, number of coroutines and shards |

*Array queue.*  Neither `SlotExclusive` nor `TailWithinLap` is inductive: push looks
at one stamp and at the tail, never at the head, and still must not run a lap
ahead.  The inductive invariant `IInv` says what the stamps mean.  `TailLap(i)` and
`HeadLap(i)` count the pushes and the pops that have claimed slot `i`; claims
alternate (`ClaimsAlternate`), the stamp is the position of the next push or one
above that of the next pop (`StampCountsClaims`), a call that owns a slot made the
last claim on it (`OwnerHoldsSlot`, `OneOwner`), and what a thread loaded earlier is
not ahead of what is there now (`StampSeen`, `LoadedBehind`, `SizeHeadFits`).  A push
whose exchange succeeds has therefore seen a stamp that no pop or push has changed
since.  The two action properties follow from `IInv` in one step.

`Linearizable` is the whole refinement of `BoundedQueue`.  The items are those at the
positions from head to tail; each such position has been claimed by one push more
than pops (`WindowLaps`), so its stamp says that it is published, and the item is in
the slot, or that it is not, and then one push holds the slot and the item
(`PusherIsThere`, `ValueIsWritten`, which `ItemsInv` adds to `IInv`).  Writing and
publishing hand the item from the one place to the other (`PushPublishIsInvisible`),
a released slot is outside of the window (`ReleasedIsOutside`), and only the two
exchanges move an end of it: a push's appends (`PushClaimSimulates`), and a pop's,
which cannot succeed on a slot that is not published (`PublishedForPop`), takes the
oldest item (`PopClaimSimulates`).

*Work-stealing deque.*  The invariant is about all the memories the owner's stores lead
through, since a thief may see any of them next: arrays and bottoms only grow along them
(but for the bottom a pop is about to fence), none has a bottom further from the top
than one, and whichever array a thief takes for the current one has the items from the
top to the bottom it sees (`ViewsServe`).  A thief whose exchange would succeed has the
item at the top in sight, in the array it holds (`ThiefInv`).  `ResizeIsWhole` is
inductive beside it: a new array holds the old one's items until it is published or
dropped, and the garbage always has room (`ResizeStep`).  Then `Linearizable` needs the
items only: most steps leave them (`SameItems`), and the refused pushes and the two
exchanges are the deque's own steps.

*Semaphore.*  `NoLostWakeup` is inductive together with the types; the lemma has a
case per action and counts the woken threads with the theorems on finite sets.
`CountsPermits` is the refinement of `CountingSemaphore` without its fairness: each
action is one of the abstract semaphore or invisible to it.

*Channel.*  What the drops decide by is two counters and a flag, each touched on its
own.  `IInv` says that the counters count the handles that can be used, a handle
under construction twice (itself and its clone); that whoever is on the way out of a
drop has seen his own side's count reach zero, and whoever destroys both
(`LastOnes`); and that disconnection has a side with count zero.  A count of zero
stays zero because only a held handle of that side changes it, and a held handle is
counted.  The list is not needed for any of this.

The list's invariant `LInv` rests on `IInv`: while one handle is held nobody has begun
to free (`InUseWhileHeld`), and who destroys finds no node in anybody's hand
(`NobodyHeldAtTheEnd`).  What `next` leads through from the head is the recursive
function `chain`.  Two functions that satisfy its equation are equal, because there
is no least number where they differ (`LeastNumber`, from the library's theorem on
well-founded relations; `OneWalk`); so the invariant says that there is a walk `q` over
exactly `len` different nodes in nobody's hand (`ListAlong`), and each step names the
walk it leaves: the same one when a node is allocated, freed or refused, one with the
new node after the tail (`LinkStep`), one without its first node (`UnlinkStep`).  A node
taken out of the list may point to one that was freed and used again; it is off the
walk, so that does not matter (`WalkStays`).  `ChannelIsLinearizable` is the refinement
of `AbstractChannel`: the messages are those along the walk and the one whose sender
has passed the checks and holds the mutex; sends take effect in `LockSimulates`,
receives in `ReceiveSimulates`, and the messages are discarded by whoever destroys
(`DestroySimulates`).  What a second destroyer does happens after that
(`MisuseSimulates`): the finding of `ch_destroy` costs no message.

*Thread pool.*  The counters are the numbers of workers at certain places in
`thread_do` (`CountsWorkers`), a pool's workers are as far as its life allows
(`Stages`), a call finds its pool in the state it needs and new and drop have it to
themselves (`Calling`), and a job is in one place and belongs to one pool (`Places`).
`drop` polls `num_threads_alive`: at zero every worker is past its loop.  `wait`
looks at an empty queue and no working threads: then no worker has a job in hand,
since those with a job are counted as working.  None of this depends on the shared
flag, so other pools cannot break it.

*Pointers.*  `IInv` says that the counters count: the strong count the strong
pointers, the weak count the weak ones and one more as long as there is a strong
pointer or a thread is dropping the object.  A null pointer about to be a clone is
not counted, but its source is (`SourceHeld`).  It follows that the thread that
brings a count to zero is the only one that can know of the block (`LastFrees`),
and that a count of zero is never exchanged for one (`ExpiredForEver`).

*Coroutines.*  The properties are about client code, the invariant about the few
steps between a switch and client code.  Nobody stands on a suspended or a finished
context; a thread that goes on has its current coroutine right at once, a new one
only after its wrapper; and the request for a cleanup that a thread carries is for a
coroutine that is over, whose stack was not given back yet and whose request no
other thread carries.

*Machine contexts.*  The proof comes in two parts.  `Fits` says what tables have to
be like for a switch to work: no word for two registers and no register from two
words, everything a call preserves loaded from where it was stored, the program
counter that is stored is that of the return, and the words that are made are those
a beginning coroutine loads.  `MachinesFit` shows that of the five tables, offset by
offset; a table is put together from parts in words of their own (`Joined`), so that
only the parts are looked at one by one.  The rest is about any tables that fit.
What a switch stores for a context that runs is what this context has to find
(`LeftHolds`), what it loads from there is that (`LoadedRuns`), and what it loads from
a made context is what a new coroutine has to find (`LoadedBegins`).  `RegistersInv`
adds to the coroutines' invariant that a suspended context's words hold its
registers, and that the stack pointer and the thread block of a beginning coroutine
are its own, which `RegistersSurvive` does not say and the wrapper leaves as they are.

*Scheduler.*  `InOnePlace` is about indices of queues, which all shift when the
first leaves.  `IInv` forgets them: what a thread owns is in queues that repeat
nothing and share nothing (`Clean`), no two threads own the same coroutine and none
owns what is moving, detached or finished (`Parted`), and what was started is one of
these (`Complete`).  Two lemmas say what `Switch` does with that: whoever was current
has been put elsewhere before, and the rest is rearranged.  For exit the barred
yielders are no runners while the request stands (`Barring`).

*AA tree.*  The invariant itself is simple: the tree is in order (`Ordered`) and
balanced (`Balanced`), and its keys are those of the map.  What takes the work is
that the code is recursive.  The proof goes in five parts.

1. *Recursion.*  `Trees[h]` exists for every `h` because no least number is without it,
   and trees are then induced over by sets: a set that contains `NIL` and every node
   whose subtrees it contains contains all trees (`TreeInduction`; the library's
   theorems on induction take an operator and are not needed).  From it, any equation
   that computes a tree's value from those of its subtrees has one solution
   (`Recursive`), so `insert0`, `delete0`, `first`, `Nodes` and the others are what their
   definitions say.
2. *Keys.*  A rotation hangs the same three subtrees under the same two nodes in the
   same order, so skew, split and all of `delete_fixup` keep the keys, the number of
   nodes and the order (`Same`); insertions then add one key (`Put`), deletions take one
   away (`Taken`), and what `Replace` puts in a node's place is the greatest key of its
   left subtree or the least of its right one (`ReplaceTakes`).
3. *Balance.*  `LevelFits` says what levels the children of a node may have, `Made` that
   a tree is made of given balanced parts.  An insertion leaves a subtree that is
   balanced but for one node whose left child, or right grandchild, has its own level,
   which skew and split repair (`LeftGrows`, `RightGrows`).  A deletion may lower a subtree
   by a level; `delete_fixup` meets three cases: nothing is too low
   (`FixupOfBalanced`), the left subtree is (`FixupOfLowLeft`) or the right one
   (`FixupOfLowRight`), where up to three skews and two splits are needed, and in each it
   makes a balanced tree at most one level lower (`Fixed`, `LeftShrinks`,
   `RightShrinks`).  That is the step the induction needs, and why the five rotations of
   the code are enough and in the right order.
4. *The map.*  `PutKeeps` and `TakeKeeps` put both together for each action.
5. *Lookups.*  `search` and `iter` by induction.  For `next` the path from the root to
   the node is looked at: the nodes where it turns left are the greater ones above, the
   last such turn is the least of them (`NextIsOnPath`), and nothing greater is elsewhere
   but in the node's right subtree; `prev` is its mirror image.

*The scheduler in memory.*  That the code implements `Scheduler` is a statement about
one memory in which every thread's lists, every map's trees and the nodes of finished
coroutines are words called `prev` and `next`.  The invariant `CInv` is that of
Scheduler, for what the memory stands for, and `Shape`: each thread keeps its scheduler
(`Keeps`), the coroutine it runs is linked to itself, the shared map has the detached
coroutines, and the words at finished nodes and at null are as they were.  The proof
goes in five parts.

1. *Walks.*  `Linked(m, t, list, q)` says that the list is the queue `q`, forwards and
   backwards.  The recursive functions that follow links have values
   (`NumberRecursion`), a list that is linked is read as its queue (`ListIs`), and a tree
   that is laid out in memory is read as that tree, because no tree has more levels than
   there are coroutines.
2. *Lists.*  `PushBackIs`, `SpliceMoves` and their kind say what an operation does to the
   queue, and that it writes nowhere but in the nodes of that queue, the coroutine's own
   and the two ends (`SameOutside`).  The order of the writes matters: a removal reads
   through the neighbours it has just changed, a splice reads ends it is about to reset.
3. *Maps.*  `MapIs` says that each shard has a tree of its share of the coroutines.  What
   insertion and deletion return is taken from AATreeProofs, so this part is about laying
   a tree out (`LaidIs`): a node's words change only if it is in the tree.
4. *One thread.*  `Goes(t, w, r, b, C)`: the thread's scheduler becomes `b`, and what was
   written are nodes of `C` and the thread's own ends.  Counters equal lengths, which is
   why the code may decide by counters alone; `Switch` is the longest case.
5. *All threads.*  As no two threads have a coroutine in common (Scheduler's invariant),
   the addresses of one step are nobody else's (`OwnApart`), and what the others stand for
   stays.  Each of the eleven actions is then the action of the same name in Scheduler.

`CoroutinesStayInOnePlace` and `ExitReachesMain` follow from `CInv`.  A union of the two
uses of `prev` and `next` is safe because a coroutine out of a map is linked to itself
before it is queued: without that (`NotRelinked`) the step to `Linked` fails.

Assumptions are the named `ASSUME`s of the modules: the constants are what their
comments say, sets of processes finite where they are counted, `NULL` and `NONE`
none of the values; those of Scheduler, which nothing but Sco instantiates, stand in
the theorems, and so does `Heights = Nat` in those of AATreeProofs and ScoProofs.

Only model-checked: everything temporal beyond invariants, action properties and
refinements without fairness (`CallsReturn`, `WaitsReturn`, ...: liveness is out of the
prover's reach, and with it the fairness of `CountingSemaphore`), and `ArrayQueueLap`,
whose words are compared bit by bit, with operators that a module with theorems cannot
use.

## 5. Findings

With a run:

* `ch_destroy`: the last sender and the last receiver, dropped at the same time,
  decrement their own count and then look at the other's; both may find zero and
  both destroy the channel (`channel/chiba_channel_sender.h:49`).
* `tp_two_waiters`: the worker that leaves the pool idle signals once, so of two
  threads in `chiba_thread_pool_wait` one may sleep for ever
  (`thread_pool/thread_pool.c:136`).

Seen while modelling:

* `threads_keepalive` is one flag for all pools: dropping one ends the workers of
  all (`thread_pool.c:268`).  In `tp` another pool does that: what is safe stays so,
  but jobs may then stay in the queue and `wait` may not return, and the liveness
  properties say so (`OtherDropped`).
* `jobqueue_push` ignores the answer of a full queue and loses the job
  (`thread_pool_jobqueue.h:37`); in `tp` too.
* `chiba_arrayqueue_size` reloads as long as the tail moves and a push or a pop may
  lose every race for its exchange (`concurrency/array_queue.h:280`, 140, 218): a call
  may not return while other threads keep pushing, and a pop not while they keep pushing
  and popping.
* `chiba_receiver_try_recv` may answer `DISCONNECTED` while a message is in the
  queue: the flag is read after the queue was found empty
  (`chiba_channel_receiver.h:77`).  AbstractChannel promises no more than the code
  does.
* `try_send` on an unbounded channel answers `FULL` when memory is short, where
  `chiba_channel.h:11` speaks of bounded channels only.
* A capacity of 0 is called rendezvous in `chiba_channel.h:47` and is unbounded.
* A worker unlocks `thcount_lock` after the decrement that lets `drop` free the
  pool (`thread_pool.c:143`).  `FreedFindsWorkersGone` states how far it can lag.
* `chiba_thread_pool_pause` ends the process (`thread_pool.c:245`, and 99-106 where
  the registration of the handler is commented out).
* `thcount_lock` is never initialised (`thread_pool.c:191`).
* The control words of the floating-point units (mxcsr, x87) belong to the callee by
  the amd64 conventions and are not switched; the tables of Context have registers
  only.
* A stack whose end is not a multiple of 16 gives a coroutine a stack pointer the
  conventions do not allow; nothing checks it.
* A coroutine that is continued by another thread reads thread-local variables of
  that thread (`coroutine.c:168`).  Coroutine takes them from the thread that runs; a
  compiler that keeps an address across the switch would not.

## 6. Not modelled

* Memory weaker than total store order: the deque's and the channel's relaxed and
  release accesses could be reordered more on ARM.
* Drop of an array queue, deque or semaphore that nobody uses any more; the deque's
  and the channel's queries, which load a field; `chiba_thread_pool_resume`, whose
  flag no thread ever waits for.
* The contexts by `ucontext` and for emscripten, which leave the work to the C
  library and to the browser; on riscv64 floats of 32 bits, whose table is that of
  doubles with other instructions.
* The concurrent coroutine scheduler: declarations without a loop, in a file that
  does not compile (`chiba_csco_evmap` is used at line 131 and declared at 213).
* The future: nothing in the repository completes one, so its consumer has nothing
  to wait for.
* NaN boxing (bit patterns without state), hashing and backoff (they change no
  result), allocation wrappers and platform headers, tests and benchmarks.

## 7. Plan

1. ThreadPool on top of the semaphore's and the queue's own steps, instead of the
   specifications they implement.
2. Channel under release and acquire only, and the deque under a weaker order.
