--------------------------------- MODULE Arc ---------------------------------
(***************************************************************************)
(* Shared and weak pointers to one object: shared_memory.h, weak_memory.h. *)
(*                                                                         *)
(* The process here is a pointer variable, which one thread owns at a      *)
(* time.  While a pointer is cloned or upgraded its owner keeps it; several *)
(* threads may do so from the same variable at once.  Each access to a     *)
(* counter is a step.  Moving and swapping pointers only renames them.     *)
(* The names shared with ThreadPool begin with Arc: ThreadPoolProofs       *)
(* extends both.                                                           *)
(***************************************************************************)
EXTENDS Integers, FiniteSets

CONSTANTS
  Pointers,   \* the variables of type chiba_shared_ptr and chiba_weak_ptr
  NoSource

ASSUME PointersAssumption == IsFiniteSet(Pointers) /\ NoSource \notin Pointers

VARIABLES
  block,          \* the control block: "none", "live" or "freed"
  strong_count, weak_count,
  drops,          \* how often cb->drop was called
  kind,           \* each variable: "null", "strong", "weak", or what is being done to it
  source,         \* the pointer a variable is being cloned or upgraded from
  old_count       \* the local of inc_strong

arcvars == <<block, strong_count, weak_count, drops, kind, source, old_count>>

ArcInit ==
  /\ block = "none"
  /\ strong_count = 0 /\ weak_count = 0 /\ drops = 0
  /\ kind = [p \in Pointers |-> "null"]
  /\ source = [p \in Pointers |-> NoSource]
  /\ old_count = [p \in Pointers |-> 0]

Becomes(p, from, to) == kind[p] = from /\ kind' = [kind EXCEPT ![p] = to]

Lent(p) == \E q \in Pointers : source[q] = p

\* chiba_shared_new; when malloc fails the pointer stays null.
NewShared(p) ==
  /\ block = "none" /\ block' = "live"
  /\ Becomes(p, "null", "strong")
  /\ strong_count' = 1
  /\ weak_count' = 1
  /\ UNCHANGED <<drops, source, old_count>>

-----------------------------------------------------------------------------
(* chiba_shared_clone and chiba_weak_upgrade: chiba_control_block_inc_strong. *)

CloneOrUpgrade(q, p) ==
  /\ kind[p] \in {"strong", "weak"}
  /\ Becomes(q, "null", "inc_load")
  /\ source' = [source EXCEPT ![q] = p]
  /\ UNCHANGED <<block, strong_count, weak_count, drops, old_count>>

\* The result is null: the count was zero.
GiveUp(q, from) ==
  /\ strong_count = 0
  /\ Becomes(q, from, "null")
  /\ source' = [source EXCEPT ![q] = NoSource]
  /\ old_count' = [old_count EXCEPT ![q] = 0]
  /\ UNCHANGED <<block, strong_count, weak_count, drops>>

IncLoad(q) ==
  \/ GiveUp(q, "inc_load")
  \/ /\ strong_count # 0
     /\ Becomes(q, "inc_load", "inc_cas")
     /\ old_count' = [old_count EXCEPT ![q] = strong_count]
     /\ UNCHANGED <<block, strong_count, weak_count, drops, source>>

\* A plausible mistake: the count is added to without a look at it.
IncCasAdds(q) ==
  /\ Becomes(q, "inc_cas", "strong")
  /\ strong_count' = strong_count + 1
  /\ source' = [source EXCEPT ![q] = NoSource]
  /\ old_count' = [old_count EXCEPT ![q] = 0]
  /\ UNCHANGED <<block, weak_count, drops>>

IncCas(q) ==
  /\ strong_count = old_count[q]
  /\ Becomes(q, "inc_cas", "strong")
  /\ strong_count' = old_count[q] + 1
  /\ source' = [source EXCEPT ![q] = NoSource]
  /\ old_count' = [old_count EXCEPT ![q] = 0]
  /\ UNCHANGED <<block, weak_count, drops>>

\* The weak exchange fails, with or without a reason, and reloads the count.
IncCasFails(q) ==
  \/ GiveUp(q, "inc_cas")
  \/ /\ strong_count # 0
     /\ kind[q] = "inc_cas"
     /\ old_count' = [old_count EXCEPT ![q] = strong_count]
     /\ UNCHANGED <<block, strong_count, weak_count, drops, kind, source>>

-----------------------------------------------------------------------------
(* chiba_weak_from_shared and chiba_weak_clone.                            *)

\* A plausible mistake: the weak pointer is not counted.
MakeWeakUncounted(q, p) ==
  /\ kind[p] \in {"strong", "weak"}
  /\ Becomes(q, "null", "weak")
  /\ UNCHANGED <<block, strong_count, weak_count, drops, source, old_count>>

MakeWeak(q, p) ==
  /\ kind[p] \in {"strong", "weak"}
  /\ Becomes(q, "null", "weak")
  /\ weak_count' = weak_count + 1
  /\ UNCHANGED <<block, strong_count, drops, source, old_count>>

-----------------------------------------------------------------------------
(* chiba_shared_drop: chiba_control_block_dec_strong.                      *)

\* A plausible mistake: the old count is compared with zero.
SharedDropOffByOne(p) ==
  /\ ~Lent(p)
  /\ Becomes(p, "strong", IF strong_count = 0 THEN "drop_data" ELSE "null")
  /\ strong_count' = strong_count - 1
  /\ UNCHANGED <<block, weak_count, drops, source, old_count>>

SharedDrop(p) ==
  /\ ~Lent(p)
  /\ Becomes(p, "strong", IF strong_count = 1 THEN "drop_data" ELSE "null")
  /\ strong_count' = strong_count - 1
  /\ UNCHANGED <<block, weak_count, drops, source, old_count>>

\* A plausible mistake: the block's own weak reference is forgotten.
DropDataOnly(p) ==
  /\ Becomes(p, "drop_data", "null")
  /\ drops' = drops + 1
  /\ UNCHANGED <<block, strong_count, weak_count, source, old_count>>

DropData(p) ==
  /\ Becomes(p, "drop_data", "dec_weak")
  /\ drops' = drops + 1
  /\ UNCHANGED <<block, strong_count, weak_count, source, old_count>>

-----------------------------------------------------------------------------
(* chiba_control_block_dec_weak, for the block's own weak reference and for *)
(* chiba_weak_drop.                                                         *)

DecWeak(p) ==
  /\ kind[p] = "dec_weak" \/ (kind[p] = "weak" /\ ~Lent(p))
  /\ kind' = [kind EXCEPT ![p] = IF weak_count = 1 THEN "free" ELSE "null"]
  /\ weak_count' = weak_count - 1
  /\ UNCHANGED <<block, strong_count, drops, source, old_count>>

Free(p) ==
  /\ Becomes(p, "free", "null")
  /\ block' = "freed"
  /\ UNCHANGED <<strong_count, weak_count, drops, source, old_count>>

-----------------------------------------------------------------------------
Step(p) ==
  \/ NewShared(p) \/ IncLoad(p) \/ IncCas(p) \/ IncCasFails(p)
  \/ SharedDrop(p) \/ DropData(p) \/ DecWeak(p) \/ Free(p)
  \/ \E q \in Pointers : CloneOrUpgrade(p, q) \/ MakeWeak(p, q)

ArcNext == \E p \in Pointers : Step(p)

ArcSpec == ArcInit /\ [][ArcNext]_arcvars

\* A thread that has begun to drop a pointer goes on.
FairArcSpec ==
  ArcSpec /\ \A p \in Pointers : WF_arcvars(DropData(p) \/ (kind[p] = "dec_weak" /\ DecWeak(p)) \/ Free(p))

-----------------------------------------------------------------------------
(* Properties.                                                             *)

\* The type invariant of the block's counters and of the pointers.
ArcTypeOK ==
  /\ block \in {"none", "live", "freed"}
  /\ strong_count \in Int /\ weak_count \in Int /\ drops \in {0, 1}
  /\ kind \in [Pointers -> {"null", "strong", "weak", "inc_load", "inc_cas",
                          "drop_data", "dec_weak", "free"}]
  /\ source \in [Pointers -> Pointers \cup {NoSource}]
  /\ old_count \in [Pointers -> Int]

\* Whoever has a strong pointer, cloned or upgraded at whatever moment, has the
\* object: its drop function has not been called.
StrongKeepsObject == \A p \in Pointers : kind[p] = "strong" => drops = 0

\* The control block is there for every pointer to it and for every call on one,
\* the call that drops the last pointer included.
NoUseAfterFree == (\E p \in Pointers : kind[p] # "null") => block = "live"

\* When no pointer is left the object was dropped once and the block is freed.
GoneIsReleased ==
  block # "none" /\ (\A p \in Pointers : kind[p] = "null") => block = "freed" /\ drops = 1

\* An object that expired stays expired: no upgrade that was under way when the
\* last strong pointer was dropped brings it back.
ExpiredForEver == [][block = "live" /\ strong_count = 0 => strong_count' = 0]_arcvars

\* Once the last strong pointer is gone the object is dropped, although weak
\* pointers may stay for ever.
ExpiredIsDropped == block = "live" /\ strong_count = 0 ~> drops = 1

-----------------------------------------------------------------------------
(***************************************************************************)
(* The inductive invariant: the counters count the pointers, and the block *)
(* has a weak reference of its own from its creation until the object has  *)
(* been dropped.                                                           *)
(***************************************************************************)

Strong   == {p \in Pointers : kind[p] = "strong"}
Weak     == {p \in Pointers : kind[p] = "weak"}
Dropping == {p \in Pointers : kind[p] \in {"drop_data", "dec_weak"}}

OwnWeak == IF strong_count > 0 \/ Dropping # {} THEN 1 ELSE 0

CountsPointers ==
  block = "live" =>
    /\ strong_count = Cardinality(Strong)
    /\ weak_count = Cardinality(Weak) + OwnWeak

\* One thread drops the object, when the last strong pointer is gone.
OneDropper ==
  /\ \A p, q \in Dropping : p = q
  /\ Dropping # {} => strong_count = 0
  /\ \A p \in Pointers :
       /\ kind[p] = "drop_data" => drops = 0
       /\ kind[p] = "dec_weak" => drops = 1
  /\ strong_count > 0 => drops = 0
  /\ block = "live" /\ strong_count = 0 /\ Dropping = {} => drops = 1

\* The thread that frees the block is the last to know of it.
LastFrees ==
  /\ \A p, q \in Pointers : kind[p] = "free" /\ kind[q] # "null" => p = q
  /\ (\E p \in Pointers : kind[p] = "free") <=> (block = "live" /\ weak_count = 0)

SourceHeld ==
  \A p \in Pointers :
    /\ kind[p] \in {"inc_load", "inc_cas"} =>
         source[p] \in Pointers /\ kind[source[p]] \in {"strong", "weak"}
    /\ kind[p] \notin {"inc_load", "inc_cas"} => source[p] = NoSource
    /\ kind[p] = "inc_cas" => old_count[p] > 0

ArcInv ==
  /\ ArcTypeOK
  /\ block # "live" => \A p \in Pointers : kind[p] = "null"
  /\ block = "none" => strong_count = 0 /\ drops = 0
  /\ block = "freed" => drops = 1 /\ strong_count = 0
  /\ CountsPointers
  /\ OneDropper
  /\ LastFrees
  /\ SourceHeld
=============================================================================
