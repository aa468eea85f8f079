---------------------------- MODULE ArrayQueueLap ----------------------------
(***************************************************************************)
(* The arithmetic of chiba/concurrency/array_queue.h on packed words: a    *)
(* position { lap, index } is one unsigned word whose low bits, below      *)
(* one_lap, are the index, and which wraps around after very many laps.    *)
(* Module ArrayQueue computes with records instead; here the two are run   *)
(* side by side.                                                           *)
(*                                                                         *)
(* Bitwise operators: for model checking only.                             *)
(***************************************************************************)
EXTENDS Integers, Bitwise

CONSTANTS
  Width,         \* the width of a word, 64 in the code
  MaxCapacity,   \* bound: the capacities are 1 .. MaxCapacity
  MaxLap         \* bound: the lap to stop at

\* The laps of one word are told apart: there are at least four of them.
ASSUME WidthAssumption == Width \in Nat /\ MaxLap \in Nat /\ 8 * MaxCapacity <= 2 ^ Width

VARIABLES
  capacity,    \* queue->capacity
  word,        \* queue->tail, and queue->head after as many pops
  position     \* the same as a record

vars == <<capacity, word, position>>

Wrap(n) == n % 2 ^ Width

\* Every bit below the highest one is set.
Spread(n) ==
  LET a == n | shiftR(n, 1)
      b == a | shiftR(a, 2)
  IN b | shiftR(b, 4)

\* A plausible mistake: the power of two may be the capacity itself.
one_lapTight == Spread(capacity - 1) + 1

one_lap == Spread(capacity + 1 - 1) + 1

\* value & (one_lap - 1), value & ~(one_lap - 1)
Index(w) == w & (one_lap - 1)
Lap(w)   == w & (2 ^ Width - one_lap)

\* A plausible mistake: index and capacity are compared without the one.
NewWordLate(w) == IF Index(w) < capacity THEN Wrap(w + 1) ELSE Wrap(Lap(w) + one_lap)

\* new_tail in push, neww in pop
NewWord(w) == IF Index(w) + 1 < capacity THEN Wrap(w + 1) ELSE Wrap(Lap(w) + one_lap)

Init ==
  /\ capacity \in 1 .. MaxCapacity
  /\ word = 0
  /\ position = [lap |-> 0, index |-> 0]

Advance ==
  /\ position.lap < MaxLap
  /\ word' = NewWord(word)
  /\ position' = IF position.index + 1 < capacity
                   THEN [position EXCEPT !.index = @ + 1]
                   ELSE [lap |-> position.lap + 1, index |-> 0]
  /\ UNCHANGED capacity

Spec == Init /\ [][Advance]_vars

-----------------------------------------------------------------------------
(* Properties.                                                             *)

Packed(p) == Wrap(p.lap * one_lap + p.index)

\* The word is the position, and stays it when the lap wraps around.
WordIsPosition == word = Packed(position) /\ Index(word) = position.index

\* The stamps a slot can have while this position is claimed: those of the push
\* and of the pop of this lap and of the laps before and after it.
Stamps == [lap : {position.lap - 1, position.lap, position.lap + 1},
           index : {position.index, position.index + 1}]

\* Every comparison that push, pop and is_full make on words answers what the
\* comparison of the records does.
ComparisonsAgree ==
  \A s \in Stamps :
    LET stamp == Packed(s)
        PlusOne == [position EXCEPT !.index = @ + 1]
    IN /\ (word = stamp) = (position = s)
       /\ (Wrap(stamp + one_lap) = Wrap(word + 1)) = ([s EXCEPT !.lap = @ + 1] = PlusOne)
       /\ (Wrap(word + 1) = stamp) = (PlusOne = s)
       /\ (Wrap(stamp + one_lap) = word) = ([s EXCEPT !.lap = @ + 1] = position)

\* The packed words stand for the positions and their comparisons for those of the
\* positions, at every capacity and when the lap wraps around.
WordsAgree == WordIsPosition /\ ComparisonsAgree
=============================================================================
