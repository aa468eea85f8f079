------------------------------ MODULE Semaphore ------------------------------
(***************************************************************************)
(* The semaphore of utils/chiba_sem.h: a value under a mutex and a         *)
(* condition variable.  Each section under the mutex, up to its unlock or  *)
(* to pthread_cond_wait, is one step: the value is touched nowhere else.   *)
(* The names shared with ThreadPool begin with Sem: ThreadPoolProofs       *)
(* extends both.                                                           *)
(***************************************************************************)
EXTENDS Integers, FiniteSets

CONSTANTS
  Threads,
  MaxValue    \* bound: nobody posts beyond this value (u32 in the code)

ASSUME ThreadsAssumption == IsFiniteSet(Threads)
ASSUME MaxValueAssumption == MaxValue \in Nat

VARIABLES
  value,   \* sem->value
  place    \* each thread: "out", "entering" chiba_sem_wait, "asleep" on sem->cond,
           \* or "woken" and on its way back to the mutex

semvars == <<value, place>>

SemInit == value = 0 /\ place = [t \in Threads |-> "out"]

Sleepers == {t \in Threads : place[t] = "asleep"}
Woken    == {t \in Threads : place[t] = "woken"}

CallWait(t) ==
  /\ place[t] = "out" /\ place' = [place EXCEPT ![t] = "entering"]
  /\ UNCHANGED value

\* chiba_sem_wait under the mutex: the loop's test fails ...
Take(t) ==
  /\ place[t] \in {"entering", "woken"} /\ value # 0
  /\ value' = value - 1
  /\ place' = [place EXCEPT ![t] = "out"]

\* ... or holds.
Sleep(t) ==
  /\ place[t] \in {"entering", "woken"} /\ value = 0
  /\ place' = [place EXCEPT ![t] = "asleep"]
  /\ UNCHANGED value

SpuriousWakeup(t) ==
  /\ place[t] = "asleep" /\ place' = [place EXCEPT ![t] = "woken"]
  /\ UNCHANGED value

\* A plausible mistake: a signal only when the value leaves zero.
SemPostSignalsFirstOnly(t) ==
  /\ place[t] = "out" /\ value < MaxValue
  /\ value' = value + 1
  /\ IF Sleepers = {} \/ value > 0 THEN UNCHANGED place
     ELSE \E u \in Sleepers : place' = [place EXCEPT ![u] = "woken"]

SemPost(t) ==
  /\ place[t] = "out" /\ value < MaxValue
  /\ value' = value + 1
  /\ IF Sleepers = {} THEN UNCHANGED place
     ELSE \E u \in Sleepers : place' = [place EXCEPT ![u] = "woken"]

\* One permit, but everybody is woken to look for it.
SemPostAll(t) ==
  /\ place[t] = "out" /\ value < MaxValue
  /\ value' = value + 1
  /\ place' = [u \in Threads |-> IF place[u] = "asleep" THEN "woken" ELSE place[u]]

SemNext ==
  \E t \in Threads :
    CallWait(t) \/ Take(t) \/ Sleep(t) \/ SpuriousWakeup(t) \/ SemPost(t) \/ SemPostAll(t)

SemSpec == SemInit /\ [][SemNext]_semvars

\* The mutex goes to one of the threads that want it.
FairSemSpec == SemSpec /\ WF_semvars(\E t \in Threads : Take(t) \/ Sleep(t))

SemTypeOK == value \in Nat /\ place \in [Threads -> {"out", "entering", "asleep", "woken"}]

\* No wakeup is lost: whenever threads are asleep, at least as many others are
\* on their way to the value as there are permits, so none is left unused.
NoLostWakeup == Sleepers # {} => value <= Cardinality(Woken)

Abstract == INSTANCE CountingSemaphore WITH waiting <- {t \in Threads : place[t] # "out"}

\* The condition variable makes a counting semaphore: permits are not lost and
\* do not lie unused while threads sleep.
ImplementsCountingSemaphore == Abstract!Spec
=============================================================================
