------------------------- MODULE CountingSemaphore -------------------------
(***************************************************************************)
(* What a semaphore promises: a thread that waits gets one of the permits  *)
(* that were posted, each permit goes to one thread, and no permit stays   *)
(* unused while a thread waits.                                            *)
(***************************************************************************)
EXTENDS Integers

CONSTANT Threads

VARIABLES value, waiting

svars == <<value, waiting>>

Init == value = 0 /\ waiting = {}

Request(t) == t \notin waiting /\ waiting' = waiting \cup {t} /\ UNCHANGED value

Acquire(t) == t \in waiting /\ value > 0 /\ value' = value - 1 /\ waiting' = waiting \ {t}

Release == value' = value + 1 /\ UNCHANGED waiting

Next == Release \/ \E t \in Threads : Request(t) \/ Acquire(t)

Spec == Init /\ [][Next]_svars /\ WF_svars(\E t \in Threads : Acquire(t))
=============================================================================
