------------------------------ MODULE Coroutine ------------------------------
(***************************************************************************)
(* Stackful coroutines, coroutine/coroutine.c.  Every thread has a main    *)
(* context and may start coroutines, each on a stack its client provides;  *)
(* a switch leaves one context and continues another one, at the place     *)
(* where that one was left.  A switch that is final gives the stack of     *)
(* the context it leaves back to the client: the new context calls the     *)
(* client's defer handler, because nobody can free the stack he stands on. *)
(*                                                                         *)
(* The switch itself is one step (module Context has its registers): the   *)
(* client hands a coroutine to another thread only when it is suspended,   *)
(* and all other state is thread-local.  What the client does is free, but *)
(* for the demands of the header: it switches to suspended coroutines      *)
(* only, and never to one that was left for good.                          *)
(***************************************************************************)
EXTENDS Naturals

CONSTANTS
  Threads,
  Cos,         \* the coroutines, with their descriptors and stacks
  WithDefer,   \* those with a defer handler
  NULL

ASSUME ThreadsAssumption == Threads \cap Cos = {}
ASSUME DeferAssumption == WithDefer \subseteq Cos
ASSUME NullAssumption == NULL \notin Threads \cup Cos

\* A thread stands for its main context, chiba_co_thread.
Contexts == Threads \cup Cos

VARIABLES
  chiba_co_cur,    \* by thread, the context it believes to run
  desc_temp,       \* by thread, chiba_co_desc_temp: the coroutine being started
  defer_needed, defer_desc, defer_active,   \* by thread; a descriptor is its coroutine
  desc,            \* by context, the descriptor in struct chiba_co
  stack,           \* by thread, the context whose stack it stands on
  pc,              \* by thread, where in the code it is
  resume,          \* by context, where its saved context goes on
  returned,        \* by coroutine, how often its stack was given back
  over,            \* coroutines left for good
  exited           \* the process has ended

switching == <<chiba_co_cur, desc_temp, desc, stack, resume, over>>
deferring == <<defer_needed, defer_desc, defer_active, returned>>
vars == <<switching, deferring, pc, exited>>

Init ==
  /\ chiba_co_cur = [t \in Threads |-> NULL]
  /\ desc_temp = [t \in Threads |-> NULL]
  /\ defer_needed = [t \in Threads |-> FALSE]
  /\ defer_desc = [t \in Threads |-> NULL]
  /\ defer_active = [t \in Threads |-> FALSE]
  /\ desc = [x \in Contexts |-> NULL]
  /\ stack = [t \in Threads |-> t]
  /\ pc = [t \in Threads |-> "client"]
  /\ resume = [x \in Contexts |-> "nowhere"]
  /\ returned = [c \in Cos |-> 0]
  /\ over = {}
  /\ exited = FALSE

-----------------------------------------------------------------------------
Client(t) == ~exited /\ pc[t] = "client"

\* Neither started nor left for good, and suspended: what clients may start and
\* switch to.
Unborn(c)    == returned[c] = 0 /\ desc[c] = NULL /\ \A t \in Threads : stack[t] # c
Resumable(c) == resume[c] # "nowhere" /\ c \notin over

\* chiba_co_cur ? chiba_co_cur : &chiba_co_thread
From(t) == IF chiba_co_cur[t] = NULL THEN t ELSE chiba_co_cur[t]

\* The thread leaves the context from, to be continued at the place at, and goes
\* on with the context to at the place there.
Transfer(t, from, at, to, there) ==
  /\ stack' = [stack EXCEPT ![t] = to]
  /\ resume' = [resume EXCEPT ![from] = at, ![to] = "nowhere"]
  /\ pc' = [pc EXCEPT ![t] = there]

\* A final switch asks the next context for the cleanup of this one; its descriptor is
\* copied because struct chiba_co is on the stack that goes.
SetDefer(t, from, final) ==
  /\ defer_needed' = [defer_needed EXCEPT ![t] = @ \/ final]
  /\ defer_desc' = [defer_desc EXCEPT ![t] = IF final THEN desc[from] ELSE @]
  /\ over' = IF final THEN over \cup ({from} \cap Cos) ELSE over

\* chiba_co_start; the new coroutine is not the current one yet.
Start(t, c, final) ==
  /\ Client(t) /\ Unborn(c)
  /\ desc_temp' = [desc_temp EXCEPT ![t] = c]
  /\ SetDefer(t, From(t), final)
  /\ Transfer(t, From(t), "switch0", c, "entry")
  /\ UNCHANGED <<chiba_co_cur, desc, defer_active, returned, exited>>

\* chiba_co_switch to a coroutine, or to the thread's main context for NULL.  A
\* switch to the running context does nothing, be it final or not.
SwitchSlow(t, to, final) ==
  /\ Client(t) /\ to # From(t)
  /\ to \in Cos => Resumable(to) /\ (final \/ chiba_co_cur[t] = NULL)
  /\ SetDefer(t, From(t), final)
  /\ chiba_co_cur' = [chiba_co_cur EXCEPT ![t] = to]
  /\ Transfer(t, From(t), "switch0", to, resume[to])
  /\ UNCHANGED <<desc_temp, desc, defer_active, returned, exited>>

\* A plausible mistake: the fast path goes on without a look at the handler.
SwitchFastOnly(t, to) ==
  /\ Client(t) /\ chiba_co_cur[t] # NULL /\ to # chiba_co_cur[t] /\ Resumable(to)
  /\ chiba_co_cur' = [chiba_co_cur EXCEPT ![t] = to]
  /\ Transfer(t, chiba_co_cur[t], "client", to, resume[to])
  /\ UNCHANGED <<desc_temp, desc, over, deferring, exited>>

\* The fast path of chiba_co_switch, with machine contexts in assembly.
SwitchFast(t, to) ==
  /\ Client(t) /\ chiba_co_cur[t] # NULL /\ to # chiba_co_cur[t] /\ Resumable(to)
  /\ chiba_co_cur' = [chiba_co_cur EXCEPT ![t] = to]
  /\ Transfer(t, chiba_co_cur[t], "fast", to, resume[to])
  /\ UNCHANGED <<desc_temp, desc, over, deferring, exited>>

-----------------------------------------------------------------------------
(* chiba_co_defer_last, called wherever a context goes on or begins.        *)

DeferLast(t) == ~exited /\ pc[t] \in {"switch0", "fast", "entry"}

HasHandler(t) == defer_desc[t] \in WithDefer

\* The handler is called and gives the stack back.
DeferCall(t) ==
  /\ DeferLast(t) /\ defer_needed[t] /\ ~defer_active[t] /\ HasHandler(t)
  /\ defer_active' = [defer_active EXCEPT ![t] = TRUE]
  /\ returned' = [returned EXCEPT ![defer_desc[t]] = @ + 1]
  /\ UNCHANGED <<switching, pc, defer_needed, defer_desc, exited>>

\* A plausible mistake: the request for the cleanup stays.
DeferDoneKeeps(t) ==
  /\ DeferLast(t) /\ (defer_needed[t] /\ HasHandler(t) => defer_active[t])
  /\ defer_active' = [defer_active EXCEPT ![t] = FALSE]
  /\ pc' = [pc EXCEPT ![t] = IF @ = "entry" THEN "entry_wrap" ELSE "client"]
  /\ UNCHANGED <<switching, defer_needed, defer_desc, returned, exited>>

DeferDone(t) ==
  /\ DeferLast(t) /\ (defer_needed[t] /\ HasHandler(t) => defer_active[t])
  /\ defer_active' = [defer_active EXCEPT ![t] = FALSE]
  /\ defer_needed' = [defer_needed EXCEPT ![t] = FALSE]
  /\ pc' = [pc EXCEPT ![t] = IF @ = "entry" THEN "entry_wrap" ELSE "client"]
  /\ UNCHANGED <<switching, defer_desc, returned, exited>>

\* A plausible mistake: the coroutine that started this one remains the current one.
EntryWrapForgets(t) ==
  /\ ~exited /\ pc[t] = "entry_wrap"
  /\ desc' = [desc EXCEPT ![stack[t]] = desc_temp[t]]
  /\ pc' = [pc EXCEPT ![t] = "client"]
  /\ UNCHANGED <<chiba_co_cur, desc_temp, stack, resume, over, deferring, exited>>

\* The rest of chiba_co_entry_wrap, up to the call of the client's entry.
EntryWrap(t) ==
  /\ ~exited /\ pc[t] = "entry_wrap"
  /\ desc' = [desc EXCEPT ![stack[t]] = desc_temp[t]]
  /\ chiba_co_cur' = [chiba_co_cur EXCEPT ![t] = stack[t]]
  /\ pc' = [pc EXCEPT ![t] = "client"]
  /\ UNCHANGED <<desc_temp, stack, resume, over, deferring, exited>>

-----------------------------------------------------------------------------
(* The ends of the process.                                                *)

End == exited' = TRUE /\ UNCHANGED <<switching, deferring, pc>>

\* The client's entry returns: chiba_co_exit.
EntryReturns(t) == Client(t) /\ stack[t] \in Cos /\ End

\* chiba_co_start finds the stack too small.
StackTooSmall(t) == Client(t) /\ End

\* A handler calls chiba_co_start, chiba_co_switch or chiba_co_current.
GuardAborts(t) == ~exited /\ defer_active[t] /\ End

-----------------------------------------------------------------------------
Next ==
  \E t \in Threads :
    \/ \E c \in Cos, final \in BOOLEAN : Start(t, c, final)
    \/ \E to \in Cos \cup {t}, final \in BOOLEAN : SwitchSlow(t, to, final)
    \/ \E to \in Cos : SwitchFast(t, to)
    \/ DeferCall(t) \/ DeferDone(t) \/ EntryWrap(t)
    \/ EntryReturns(t) \/ StackTooSmall(t) \/ GuardAborts(t)

Spec == Init /\ [][Next]_vars

\* A thread inside the coroutine code keeps running and handlers return.
Progress(t) == DeferCall(t) \/ DeferDone(t) \/ EntryWrap(t)
FairSpec == Spec /\ \A t \in Threads : WF_vars(Progress(t))

-----------------------------------------------------------------------------
(* Properties.                                                             *)

\* The type invariant.
TypeOK ==
  /\ chiba_co_cur \in [Threads -> Contexts \cup {NULL}]
  /\ desc_temp \in [Threads -> Cos \cup {NULL}]
  /\ defer_needed \in [Threads -> BOOLEAN]
  /\ defer_desc \in [Threads -> Cos \cup {NULL}]
  /\ defer_active \in [Threads -> BOOLEAN]
  /\ desc \in [Contexts -> Cos \cup {NULL}]
  /\ stack \in [Threads -> Contexts]
  /\ pc \in [Threads -> {"client", "switch0", "fast", "entry", "entry_wrap"}]
  /\ resume \in [Contexts -> {"nowhere", "switch0", "fast"}]
  /\ returned \in [Cos -> Nat]
  /\ over \subseteq Cos
  /\ exited \in BOOLEAN

\* A stack goes back to the client once at most, and only after the coroutine was
\* left for good, when no thread stands on it; two threads never stand on one.
StackOutlivesUse ==
  /\ \A c \in Cos : returned[c] > 0 => /\ returned[c] = 1 /\ c \in over
                                       /\ \A t \in Threads : stack[t] # c
  /\ \A t, u \in Threads : stack[t] = stack[u] => t = u

\* While client code runs, chiba_co_cur is the context whose stack it runs on, with
\* the descriptor it was started with, and the cleanup of the context before it has
\* been done: chiba_co_current never answers with a coroutine whose stack is gone.
ClientIsCurrent ==
  \A t \in Threads :
    pc[t] = "client" =>
      /\ From(t) = stack[t]
      /\ stack[t] \in Cos => desc[stack[t]] = stack[t]
      /\ ~defer_needed[t] /\ ~defer_active[t]

\* The stack of a coroutine left for good is given back, whoever continues, unless
\* the process ends before.
DefersRun == \A c \in WithDefer : c \in over ~> returned[c] > 0 \/ exited
=============================================================================
