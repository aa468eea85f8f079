--------------------------------- MODULE Sco ---------------------------------
(***************************************************************************)
(* The coroutine scheduler of scheched_coroutine.c.  Each thread has a     *)
(* current coroutine (none while its main code runs), a list of runners, a *)
(* list of yielders and a map of paused coroutines; a coroutine moves to   *)
(* another thread through the map of detached ones, which all threads      *)
(* share under a lock.                                                     *)
(*                                                                         *)
(* A coroutine's node, chiba_sco, is a local variable on its own stack.    *)
(* Its two links are those of a list or, in the same memory, the left and  *)
(* right child in an AA tree of a map (module AATree); mem has the links   *)
(* of all nodes and of the ends of the lists, and shows it when links are  *)
(* written where there is no node.                                         *)
(*                                                                         *)
(* What a thread does between two context switches touches its own         *)
(* scheduler only, so it is one step, with the exception of detach and     *)
(* attach, which go to the shared map and back.                            *)
(***************************************************************************)
EXTENDS AATree, Integers, Sequences, FiniteSets

CONSTANTS
  Threads,
  MaxId,     \* bound: as many coroutines are started
  NShards,   \* CHIBA_SCO_NSHARDS
  NONE

ASSUME MaxIdAssumption == MaxId \in Nat
ASSUME NShardsAssumption == NShards \in Nat \ {0}
ASSUME NoneAssumption == NONE \notin Int

Ids == 1 .. MaxId

VARIABLES
  mem,        \* the links and levels of the nodes
  sco,        \* the thread-local variables chiba_sco_*, by thread
  next_id,    \* chiba_sco_next_id
  detached, ndetached,
  moving,     \* the coroutine a thread has in hand in detach or attach, and which
  finished,   \* the coroutines that were switched away from for good
  barred      \* by thread, the yielders when exit was called, until main runs

vars == <<mem, sco, next_id, detached, ndetached, moving, finished, barred>>

\* Pointers: to a coroutine's node, to the ends of a list, to nothing, and what is
\* read from a stack that was given back.
Node(co) == <<co>>
Front(t, list) == <<t, list, "head">>
Back(t, list) == <<t, list, "tail">>
NULL == <<>>
FREED == <<NONE, NONE>>
Nowhere == {NULL, FREED}

Lists == {"runners", "yielders"}
CoNodes == {Node(co) : co \in Ids}
Ends == {Front(t, list) : t \in Threads, list \in Lists} \cup {Back(t, list) : t \in Threads, list \in Lists}

\* CHIBA_HASH_mix13 and the mask
Shard(co) == co % NShards

EmptyMap == [roots |-> [s \in 0 .. NShards - 1 |-> NULL], count |-> 0]
NotMoving == [op |-> "none", id |-> NONE]

\* chiba_sco_list_init for every list; node memory is not in use yet.
Init ==
  /\ mem = [prev  |-> [n \in CoNodes \cup Ends \cup Nowhere |->
                         IF n \notin Ends THEN FREED ELSE IF n[3] = "tail" THEN Front(n[1], n[2]) ELSE NULL],
            next  |-> [n \in CoNodes \cup Ends \cup Nowhere |->
                         IF n \notin Ends THEN FREED ELSE IF n[3] = "head" THEN Back(n[1], n[2]) ELSE NULL],
            level |-> [n \in CoNodes |-> 0]]
  /\ sco = [t \in Threads |->
              [cur |-> NONE, nrunners |-> 0, nyielders |-> 0, paused |-> EmptyMap, npaused |-> 0,
               exit_to_main_requested |-> FALSE]]
  /\ next_id = 0
  /\ detached = EmptyMap /\ ndetached = 0
  /\ moving = [t \in Threads |-> NotMoving]
  /\ finished = {}
  /\ barred = [t \in Threads |-> {}]

-----------------------------------------------------------------------------
(* Links, from the memory m to the memory after.                           *)

SelfLinked(m, n) == [m EXCEPT !.prev[n] = n, !.next[n] = n]

\* chiba_sco_remove_from_list
Remove(m, n) ==
  LET a == [m EXCEPT !.next[m.prev[n]] = m.next[n]]
      b == [a EXCEPT !.prev[a.next[n]] = a.prev[n]]
  IN SelfLinked(b, n)

\* A node that is in no list, before the end of one.
LinkLast(m, t, list, co) ==
  LET a == [m EXCEPT !.next[m.prev[Back(t, list)]] = Node(co), !.prev[Node(co)] = m.prev[Back(t, list)]]
  IN [a EXCEPT !.next[Node(co)] = Back(t, list), !.prev[Back(t, list)] = Node(co)]

\* chiba_sco_list_push_back
PushBack(m, t, list, co) == LinkLast(Remove(m, Node(co)), t, list, co)

\* A plausible mistake: the first yielder keeps its link to the list it leaves.
SpliceForwards(m, t) ==
  LET a == [m EXCEPT !.next[Front(t, "runners")] = m.next[Front(t, "yielders")],
                     !.prev[Back(t, "runners")] = m.prev[Back(t, "yielders")]]
      b == [a EXCEPT !.next[a.prev[Back(t, "runners")]] = Back(t, "runners")]
  IN [b EXCEPT !.next[Front(t, "yielders")] = Back(t, "yielders"),
               !.prev[Back(t, "yielders")] = Front(t, "yielders")]

\* The chain of yielders becomes that of the runners.
Splice(m, t) ==
  LET a == [m EXCEPT !.next[Front(t, "runners")] = m.next[Front(t, "yielders")]]
      b == [a EXCEPT !.prev[a.next[Front(t, "runners")]] = Front(t, "runners"),
                     !.prev[Back(t, "runners")] = m.prev[Back(t, "yielders")]]
      c == [b EXCEPT !.next[b.prev[Back(t, "runners")]] = Back(t, "runners")]
  IN [c EXCEPT !.next[Front(t, "yielders")] = Back(t, "yielders"),
               !.prev[Back(t, "yielders")] = Front(t, "yielders")]

-----------------------------------------------------------------------------
(* Maps: a function gives the memory and the map after.                    *)

\* The trees below all nodes, one level higher than the given ones.
Higher(m, trees) ==
  [n \in DOMAIN m.prev |->
     IF n \notin CoNodes THEN NIL
     ELSE [key |-> n[1], level |-> m.level[n], left |-> trees[m.prev[n]], right |-> trees[m.next[n]]]]

\* The tree below a node, which is no higher than there are coroutines.
TreeAt(m, n) ==
  LET trees[h \in Nat] == IF h = 0 THEN [x \in DOMAIN m.prev |-> NIL] ELSE Higher(m, trees[h - 1])
  IN trees[MaxId][n]

Pointer(tree) == IF tree = NIL THEN NULL ELSE Node(tree.key)

\* A tree's nodes by their pointers, and these nodes in memory.
NodesAt(tree) ==
  [n \in {Node(k) : k \in KeysOf(tree)} |-> CHOOSE x \in Nodes[tree] : Node(x.key) = n]

Laid(m, at) ==
  [prev  |-> [n \in DOMAIN m.prev |-> IF n \in DOMAIN at THEN Pointer(at[n].left) ELSE m.prev[n]],
   next  |-> [n \in DOMAIN m.next |-> IF n \in DOMAIN at THEN Pointer(at[n].right) ELSE m.next[n]],
   level |-> [n \in DOMAIN m.level |-> IF n \in DOMAIN at THEN at[n].level ELSE m.level[n]]]

Holds(m, map, co) == search[TreeAt(m, map.roots[Shard(co)])][co] # NoKey

\* A new tree in the shard of co, with more nodes than there were before.
WithTree(m, map, co, tree, more) ==
  [mem |-> Laid(m, NodesAt(tree)),
   map |-> [map EXCEPT !.roots[Shard(co)] = Pointer(tree), !.count = @ + more]]

\* chiba_sco_map_insert
MapInsert(m, map, co) ==
  WithTree(m, map, co, insert0[TreeAt(m, map.roots[Shard(co)])][co], IF Holds(m, map, co) THEN 0 ELSE 1)

Cleared(m, n) == [m EXCEPT !.prev[n] = NULL, !.next[n] = NULL, !.level[n] = 0]

\* chiba_sco_map_delete of a coroutine that is there; its node is cleared.
MapDelete(m, map, co) ==
  LET r == WithTree(m, map, co, delete0[TreeAt(m, map.roots[Shard(co)])][co], -1)
  IN [mem |-> Cleared(r.mem, Node(co)), map |-> r.map]

-----------------------------------------------------------------------------
(* The scheduler of one thread: from its state, a record of the memory m   *)
(* and the thread's variables s, to the next.                              *)

\* A plausible mistake: the request outlives the return to main.
KeepsRequest(w) == [m |-> w.m, s |-> [w.s EXCEPT !.cur = NONE]]

ReturnToMain(w) == [m |-> w.m, s |-> [w.s EXCEPT !.cur = NONE, !.exit_to_main_requested = FALSE]]

YieldersBecomeRunners(w, t) ==
  [m |-> Splice(w.m, t), s |-> [w.s EXCEPT !.nrunners = w.s.nyielders, !.nyielders = 0]]

\* chiba_sco_list_pop_front
RunNext(w, t) ==
  LET n == w.m.next[Front(t, "runners")]
      empty == n = Back(t, "runners")
  IN [m |-> IF empty THEN w.m ELSE Remove(w.m, n),
      s |-> [w.s EXCEPT !.cur = IF empty THEN NONE ELSE n[1], !.nrunners = @ - 1]]

\* Plausible mistakes: the request to exit or the paused coroutines are not looked
\* at.
MainMustNotWait(s, resumed_from_main) ==
  s.nyielders = 0 \/ (~resumed_from_main /\ s.npaused > 0)

MainMayWait(s, resumed_from_main) == s.nyielders = 0 \/ s.exit_to_main_requested

GoesToMain(s, resumed_from_main) ==
  s.nyielders = 0 \/ s.exit_to_main_requested \/ (~resumed_from_main /\ s.npaused > 0)

\* chiba_sco_switch
Switch(w, t, resumed_from_main) ==
  IF w.s.nrunners > 0 THEN RunNext(w, t)
  ELSE IF GoesToMain(w.s, resumed_from_main) THEN ReturnToMain(w)
  ELSE RunNext(YieldersBecomeRunners(w, t), t)

AddRunner(w, t, co) ==
  [m |-> PushBack(w.m, t, "runners", co), s |-> [w.s EXCEPT !.nrunners = @ + 1]]
AddYielder(w, t, co) ==
  [m |-> PushBack(w.m, t, "yielders", co), s |-> [w.s EXCEPT !.nyielders = @ + 1]]

WithPaused(w, r, more) == [m |-> r.mem, s |-> [w.s EXCEPT !.paused = r.map, !.npaused = @ + more]]

AddPaused(w, co) == WithPaused(w, MapInsert(w.m, w.s.paused, co), 1)
DeletePaused(w, co) == WithPaused(w, MapDelete(w.m, w.s.paused, co), -1)

\* A plausible mistake: the links are used as the tree has left them.
NotRelinked(w, co) == w

\* After the tree the links are those of a list again.
Relinked(w, co) == [m |-> SelfLinked(w.m, Node(co)), s |-> w.s]

Runs(w, co) == [m |-> w.m, s |-> [w.s EXCEPT !.cur = co]]

Now(t) == [m |-> mem, s |-> sco[t]]

Becomes(t, w) ==
  /\ mem' = w.m
  /\ sco' = [sco EXCEPT ![t] = w.s]
  /\ barred' = [barred EXCEPT ![t] = IF w.s.cur = NONE THEN {} ELSE @]

\* The stack of a coroutine that was left for good goes back to the client.
Freed(w, co) == [m |-> [w.m EXCEPT !.prev[Node(co)] = FREED, !.next[Node(co)] = FREED], s |-> w.s]

\* The thread's code is running, outside of detach and attach.
Free(t) == moving[t] = NotMoving
InCoroutine(t) == Free(t) /\ sco[t].cur # NONE
InMain(t) == Free(t) /\ sco[t].cur = NONE

-----------------------------------------------------------------------------
(* The entry points, called by coroutines or by main.                      *)

\* chiba_sco_start and chiba_sco_entry: the new coroutine runs at once, the one
\* that started it after all runners.
Start(t) ==
  LET co == next_id + 1
      w == [m |-> SelfLinked(mem, Node(co)), s |-> sco[t]]
      waiting == IF w.s.cur = NONE THEN w ELSE AddRunner(w, t, w.s.cur)
  IN
  /\ Free(t) /\ next_id < MaxId
  /\ next_id' = co
  /\ Becomes(t, Runs(waiting, co))
  /\ UNCHANGED <<detached, ndetached, moving, finished>>

\* The end of chiba_sco_entry.
Finish(t) ==
  /\ InCoroutine(t)
  /\ Becomes(t, Freed(Switch(Now(t), t, FALSE), sco[t].cur))
  /\ finished' = finished \cup {sco[t].cur}
  /\ UNCHANGED <<next_id, detached, ndetached, moving>>

\* The chains that links make from all nodes on, one node longer than the given
\* ones.
Longer(m, back, chains) ==
  [n \in DOMAIN m.next |->
     IF n = back THEN <<>>
     ELSE IF n \notin CoNodes THEN <<NONE>>
     ELSE <<n[1]>> \o chains[m.next[n]]]

\* The coroutines in a list, from the first to the last.
List(m, t, list) ==
  LET back == Back(t, list)
      chains[k \in Nat] ==
        IF k = 0 THEN [n \in DOMAIN m.next |-> IF n = back THEN <<>> ELSE <<NONE>>]
        ELSE Longer(m, back, chains[k - 1])
  IN chains[MaxId][m.next[Front(t, list)]]

Exit(t) ==
  LET asked == [m |-> mem, s |-> [sco[t] EXCEPT !.exit_to_main_requested = TRUE]]
      w == Freed(Switch(asked, t, FALSE), sco[t].cur)
      yielders == {List(mem, t, "yielders")[k] : k \in DOMAIN List(mem, t, "yielders")}
  IN
  /\ InCoroutine(t)
  /\ mem' = w.m
  /\ sco' = [sco EXCEPT ![t] = w.s]
  /\ barred' = [barred EXCEPT ![t] = IF w.s.cur = NONE THEN {} ELSE yielders]
  /\ finished' = finished \cup {sco[t].cur}
  /\ UNCHANGED <<next_id, detached, ndetached, moving>>

Yield(t) ==
  /\ InCoroutine(t)
  /\ Becomes(t, Switch(AddYielder(Now(t), t, sco[t].cur), t, FALSE))
  /\ UNCHANGED <<next_id, detached, ndetached, moving, finished>>

Pause(t) ==
  /\ InCoroutine(t)
  /\ Becomes(t, Switch(AddPaused(Now(t), sco[t].cur), t, FALSE))
  /\ UNCHANGED <<next_id, detached, ndetached, moving, finished>>

\* chiba_sco_resume(0) from main.
ResumeMain(t) ==
  /\ InMain(t)
  /\ Becomes(t, Switch(Now(t), t, TRUE))
  /\ UNCHANGED <<next_id, detached, ndetached, moving, finished>>

\* chiba_sco_resume of a paused coroutine; a coroutine that resumes another one
\* yields after it.
YieldsAfter(w, t) == IF w.s.cur = NONE THEN w ELSE Switch(AddYielder(w, t, w.s.cur), t, FALSE)

Resume(t, co) ==
  /\ Free(t) /\ Holds(mem, sco[t].paused, co)
  /\ Becomes(t, YieldsAfter(AddYielder(Relinked(DeletePaused(Now(t), co), co), t, co), t))
  /\ UNCHANGED <<next_id, detached, ndetached, moving, finished>>

-----------------------------------------------------------------------------
(* chiba_sco_detach and chiba_sco_attach.                                   *)

Detach(t, co) ==
  /\ Free(t) /\ Holds(mem, sco[t].paused, co)
  /\ Becomes(t, DeletePaused(Now(t), co))
  /\ moving' = [moving EXCEPT ![t] = [op |-> "detach", id |-> co]]
  /\ UNCHANGED <<next_id, detached, ndetached, finished>>

DetachInsert(t) ==
  /\ moving[t].op = "detach"
  /\ LET r == MapInsert(mem, detached, moving[t].id) IN mem' = r.mem /\ detached' = r.map
  /\ ndetached' = ndetached + 1
  /\ moving' = [moving EXCEPT ![t] = NotMoving]
  /\ UNCHANGED <<sco, next_id, finished, barred>>

Attach(t, co) ==
  /\ Free(t) /\ Holds(mem, detached, co)
  /\ LET r == MapDelete(mem, detached, co) IN mem' = r.mem /\ detached' = r.map
  /\ ndetached' = ndetached - 1
  /\ moving' = [moving EXCEPT ![t] = [op |-> "attach", id |-> co]]
  /\ UNCHANGED <<sco, next_id, finished, barred>>

AttachInsert(t) ==
  /\ moving[t].op = "attach"
  /\ Becomes(t, AddPaused(Now(t), moving[t].id))
  /\ moving' = [moving EXCEPT ![t] = NotMoving]
  /\ UNCHANGED <<next_id, detached, ndetached, finished>>

-----------------------------------------------------------------------------
Step(t) ==
  \/ Start(t) \/ Finish(t) \/ Exit(t) \/ Yield(t) \/ Pause(t) \/ ResumeMain(t)
  \/ \E co \in Ids : Resume(t, co) \/ Detach(t, co) \/ Attach(t, co)
  \/ DetachInsert(t) \/ AttachInsert(t)

Next == \E t \in Threads : Step(t)

Spec == Init /\ [][Next]_vars

GivesUp(t) == Finish(t) \/ Exit(t) \/ Yield(t) \/ Pause(t)
Moves(t) == DetachInsert(t) \/ AttachInsert(t)

\* Coroutines give up the thread in the end and main keeps running its loop,
\* whatever else they call in between; a detach or an attach goes on.  These are
\* SF_vars(GivesUp(t)), SF_vars(ResumeMain(t)) and WF_vars(Moves(t)), with the
\* states where a step of the action can change something written out: TLC takes
\* very long to evaluate ENABLED here.
Fairness(t) ==
  /\ <>[]~InCoroutine(t) \/ []<><<GivesUp(t)>>_vars
  /\ <>[]~(InMain(t) /\ Switch(Now(t), t, TRUE) # Now(t)) \/ []<><<ResumeMain(t)>>_vars
  /\ []<>Free(t) \/ []<><<Moves(t)>>_vars

FairSpec == Spec /\ \A t \in Threads : Fairness(t)

-----------------------------------------------------------------------------
(* Properties.                                                             *)

\* What a map holds, by its trees.
Members(m, map) == UNION {KeysOf(TreeAt(m, map.roots[s])) : s \in DOMAIN map.roots}

\* The queues and sets that the links stand for.
Sched ==
  [t \in Threads |->
     [cur |-> sco[t].cur, runners |-> List(mem, t, "runners"), yielders |-> List(mem, t, "yielders"),
      paused |-> Members(mem, sco[t].paused), exiting |-> sco[t].exit_to_main_requested]]

Detached == Members(mem, detached)

Abstract == INSTANCE Scheduler WITH sched <- Sched, detached <- Detached

\* Counters, linked lists and trees, in memory that lists and trees share and that
\* goes with the coroutine's stack, are the queues and sets of the scheduler, which
\* decides by the counters alone.
ImplementsScheduler == Abstract!Spec

\* Every coroutine is in one place, and links are written neither in the node of
\* one that has finished, whose stack was given back, nor through a pointer to
\* nothing, as the tree leaves in a node that is taken out.
InOnePlace ==
  /\ Abstract!InOnePlace
  /\ \A n \in {Node(co) : co \in finished} \cup Nowhere : mem.prev[n] = FREED /\ mem.next[n] = FREED

\* After a call to chiba_sco_exit no coroutine that had yielded before it runs
\* again before main does, whatever the remaining runners do.
ExitGoesToMain == Abstract!ExitGoesToMain

\* A coroutine that yields runs again.
YieldersRun ==
  \A t \in Threads, co \in Ids :
    (\E k \in DOMAIN List(mem, t, "yielders") : List(mem, t, "yielders")[k] = co) ~> sco[t].cur = co

\* While coroutines are paused, main gets to run and can resume them.
MainGetsToRun ==
  \A t \in Threads :
    sco[t].cur # NONE /\ sco[t].npaused > 0 ~> sco[t].cur = NONE \/ sco[t].npaused = 0
=============================================================================
