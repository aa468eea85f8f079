------------------------------ MODULE Scheduler ------------------------------
(***************************************************************************)
(* What the coroutine scheduler promises.  Every thread has a current      *)
(* coroutine (none while its main code runs), a queue of runners, a queue  *)
(* of yielders and a set of paused coroutines; a coroutine moves to        *)
(* another thread through the set of detached ones.  Sco implements it     *)
(* with counters, linked lists and trees.                                  *)
(***************************************************************************)
EXTENDS Naturals, Sequences

CONSTANTS
  Threads,
  MaxId,    \* bound: as many coroutines are started
  NONE      \* no number

Ids == 1 .. MaxId

VARIABLES
  sched,      \* by thread, its current coroutine and its queues
  next_id,    \* as many coroutines were started
  detached,   \* detached coroutines
  moving,     \* by thread, the coroutine it has in hand in detach or attach
  finished,   \* coroutines that were switched away from for good
  barred      \* by thread, the yielders when exit was called, until main runs

vars == <<sched, next_id, detached, moving, finished, barred>>

NotMoving == [op |-> "none", id |-> NONE]

Init ==
  /\ sched = [t \in Threads |-> [cur |-> NONE, runners |-> <<>>, yielders |-> <<>>,
                                 paused |-> {}, exiting |-> FALSE]]
  /\ next_id = 0
  /\ detached = {}
  /\ moving = [t \in Threads |-> NotMoving]
  /\ finished = {}
  /\ barred = [t \in Threads |-> {}]

-----------------------------------------------------------------------------
(* Who is next: operators from a thread's state to the next.               *)

ReturnToMain(s) == [s EXCEPT !.cur = NONE, !.exiting = FALSE]

RunFirst(s, queue) == [s EXCEPT !.cur = Head(queue), !.runners = Tail(queue)]

\* Runners first.  When there are none main's turn comes, if it was asked for, if
\* coroutines are paused, or if nobody yields; otherwise the yielders become runners.
Switch(s, resumed_from_main) ==
  IF s.runners # <<>> THEN RunFirst(s, s.runners)
  ELSE IF s.yielders = <<>> \/ s.exiting \/ (~resumed_from_main /\ s.paused # {}) THEN ReturnToMain(s)
  ELSE RunFirst([s EXCEPT !.yielders = <<>>], s.yielders)

AddRunner(s, co) == [s EXCEPT !.runners = Append(@, co)]
AddYielder(s, co) == [s EXCEPT !.yielders = Append(@, co)]

-----------------------------------------------------------------------------
Free(t) == moving[t] = NotMoving
InCoroutine(t) == Free(t) /\ sched[t].cur # NONE
InMain(t) == Free(t) /\ sched[t].cur = NONE

Becomes(t, s) ==
  /\ sched' = [sched EXCEPT ![t] = s]
  /\ barred' = [barred EXCEPT ![t] = IF s.cur = NONE THEN {} ELSE @]

Start(t) ==
  LET s == sched[t]
      waiting == IF s.cur = NONE THEN s ELSE AddRunner(s, s.cur)
  IN
  /\ Free(t) /\ next_id < MaxId
  /\ next_id' = next_id + 1
  /\ Becomes(t, [waiting EXCEPT !.cur = next_id + 1])
  /\ UNCHANGED <<detached, moving, finished>>

Finish(t) ==
  /\ InCoroutine(t)
  /\ Becomes(t, Switch(sched[t], FALSE))
  /\ finished' = finished \cup {sched[t].cur}
  /\ UNCHANGED <<next_id, detached, moving>>

Exit(t) ==
  LET s == Switch([sched[t] EXCEPT !.exiting = TRUE], FALSE)
      yielders == {sched[t].yielders[k] : k \in DOMAIN sched[t].yielders}
  IN
  /\ InCoroutine(t)
  /\ sched' = [sched EXCEPT ![t] = s]
  /\ barred' = [barred EXCEPT ![t] = IF s.cur = NONE THEN {} ELSE yielders]
  /\ finished' = finished \cup {sched[t].cur}
  /\ UNCHANGED <<next_id, detached, moving>>

Yield(t) ==
  /\ InCoroutine(t)
  /\ Becomes(t, Switch(AddYielder(sched[t], sched[t].cur), FALSE))
  /\ UNCHANGED <<next_id, detached, moving, finished>>

Pause(t) ==
  /\ InCoroutine(t)
  /\ Becomes(t, Switch([sched[t] EXCEPT !.paused = @ \cup {sched[t].cur}], FALSE))
  /\ UNCHANGED <<next_id, detached, moving, finished>>

ResumeMain(t) ==
  /\ InMain(t)
  /\ Becomes(t, Switch(sched[t], TRUE))
  /\ UNCHANGED <<next_id, detached, moving, finished>>

\* A coroutine that resumes another one yields after it.
Resume(t, co) ==
  LET s == AddYielder([sched[t] EXCEPT !.paused = @ \ {co}], co) IN
  /\ Free(t) /\ co \in sched[t].paused
  /\ Becomes(t, IF s.cur = NONE THEN s ELSE Switch(AddYielder(s, s.cur), FALSE))
  /\ UNCHANGED <<next_id, detached, moving, finished>>

Detach(t, co) ==
  /\ Free(t) /\ co \in sched[t].paused
  /\ Becomes(t, [sched[t] EXCEPT !.paused = @ \ {co}])
  /\ moving' = [moving EXCEPT ![t] = [op |-> "detach", id |-> co]]
  /\ UNCHANGED <<next_id, detached, finished>>

DetachInsert(t) ==
  /\ moving[t].op = "detach"
  /\ detached' = detached \cup {moving[t].id}
  /\ moving' = [moving EXCEPT ![t] = NotMoving]
  /\ UNCHANGED <<sched, next_id, finished, barred>>

Attach(t, co) ==
  /\ Free(t) /\ co \in detached
  /\ detached' = detached \ {co}
  /\ moving' = [moving EXCEPT ![t] = [op |-> "attach", id |-> co]]
  /\ UNCHANGED <<sched, next_id, finished, barred>>

AttachInsert(t) ==
  /\ moving[t].op = "attach"
  /\ Becomes(t, [sched[t] EXCEPT !.paused = @ \cup {moving[t].id}])
  /\ moving' = [moving EXCEPT ![t] = NotMoving]
  /\ UNCHANGED <<next_id, detached, finished>>

Next ==
  \E t \in Threads :
    \/ Start(t) \/ Finish(t) \/ Exit(t) \/ Yield(t) \/ Pause(t) \/ ResumeMain(t)
    \/ \E co \in Ids : Resume(t, co) \/ Detach(t, co) \/ Attach(t, co)
    \/ DetachInsert(t) \/ AttachInsert(t)

Spec == Init /\ [][Next]_vars

-----------------------------------------------------------------------------
(* What follows from it.                                                   *)

\* The places where a coroutine is to be found.
Queued(q, co) == {k \in DOMAIN q : q[k] = co}
Places(co) ==
  (UNION {{<<t, "runners", k>> : k \in Queued(sched[t].runners, co)}
            \cup {<<t, "yielders", k>> : k \in Queued(sched[t].yielders, co)} : t \in Threads})
    \cup {<<t, "current", 0>> : t \in {u \in Threads : sched[u].cur = co}}
    \cup {<<t, "paused", 0>> : t \in {u \in Threads : co \in sched[u].paused}}
    \cup {<<t, "moving", 0>> : t \in {u \in Threads : moving[u].id = co}}
    \cup {<<NONE, "detached", 0>> : S \in {{co} \cap detached} \ {{}}}
    \cup {<<NONE, "finished", 0>> : S \in {{co} \cap finished} \ {{}}}

\* Every coroutine is in one place: it runs or is queued once on one thread, or is
\* paused or detached, or has finished.  None is lost, none can run twice or on two
\* threads, none runs after its stack was given back.
InOnePlace == \A co \in 1 .. next_id : \E p \in Places(co) : Places(co) = {p}

\* After a call to chiba_sco_exit no coroutine that had yielded before it runs
\* again before main does, whatever the remaining runners do.
ExitGoesToMain == \A t \in Threads : sched[t].cur \notin barred[t]
=============================================================================
