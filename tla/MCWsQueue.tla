------------------------------ MODULE MCWsQueue ------------------------------
(***************************************************************************)
(* Model checking WsQueue, and the refinement mapping under which it       *)
(* implements WorkStealingDeque.                                           *)
(***************************************************************************)
EXTENDS WsQueue, TLC

\* While a pop has moved the bottom and not decided yet, its item is still there.
Undecided == pc[Owner] \in {"pop", "pop_top", "pop_last"}

Bottom == IF Undecided \/ pc[Owner] = "restore" THEN b_[Owner] + 1 ELSE Own.bottom

AbstractDeque == [k \in 1 .. Bottom - top |-> Slot(Own, array(Own), top + k - 1)]

PushPending == {"push", "full", "resized", "put", "publish"}

\* A push takes effect when the owner stores the bottom, a pop when it loads the
\* top or exchanges it, a steal when it exchanges the top.
AbstractCall(t) ==
  CASE pc[t] = "idle"                                -> [op |-> "none"]
    [] pc[t] \in PushPending                         -> [op |-> "push", arg |-> item[t]]
    [] pc[t] \in {"pop", "pop_top", "pop_last"}      -> [op |-> "pop"]
    [] pc[t] \in {"ok", "refused"}                   -> [op |-> "pushed", ret |-> pc[t]]
    [] pc[t] \in {"popped", "restore", "stolen"}     -> [op |-> "taken", ret |-> item[t]]
    [] OTHER                                         -> [op |-> "steal"]

Abstract == INSTANCE WorkStealingDeque
              WITH deque <- AbstractDeque, call <- [t \in Threads |-> AbstractCall(t)]

\* Every item goes to one thread, the owner's in last-in first-out order and the
\* thieves' in first-in first-out order, whatever grows and whoever races for the
\* last one; a pop comes back empty only from an empty deque.
ImplementsWorkStealingDeque == Abstract!Spec

Symmetry == Permutations(Thieves) \cup Permutations(Items)
=============================================================================
