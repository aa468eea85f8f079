--------------------------- MODULE CoroutineProofs ---------------------------
(***************************************************************************)
(* Proofs about Coroutine, for any threads and any coroutines: a stack is  *)
(* given back once and when nobody uses it, and chiba_co_cur is right      *)
(* whenever client code runs.  Then about Context: on each of its machines *)
(* every context finds the registers it was left with.                     *)
(***************************************************************************)
EXTENDS Context, TLAPS

\* Where threads stand: on their own stack or on a coroutine's, each on another one.
Standing ==
  /\ \A t \in Threads : stack[t] \in Cos \cup {t}
  /\ \A t, u \in Threads : stack[t] = stack[u] => t = u

\* Nobody stands on a suspended context; a coroutine that is one has begun.  A main
\* context its thread does not stand on is suspended.
Suspended ==
  /\ \A x \in Contexts : resume[x] # "nowhere" => \A t \in Threads : stack[t] # x
  /\ \A c \in Cos : resume[c] # "nowhere" => desc[c] = c
  /\ \A t \in Threads : stack[t] # t => resume[t] # "nowhere"

Descriptors ==
  /\ \A c \in Cos : desc[c] \in {NULL, c}
  /\ \A t \in Threads : desc[t] = NULL

Beginning(t) == pc[t] \in {"entry", "entry_wrap"}

Current ==
  \A t \in Threads :
    /\ Beginning(t) => stack[t] \in Cos /\ desc_temp[t] = stack[t]
    /\ ~Beginning(t) => From(t) = stack[t] /\ (stack[t] \in Cos => desc[stack[t]] = stack[t])

\* A handler is going to be called.
Pending(t) == defer_needed[t] /\ ~defer_active[t] /\ HasHandler(t)

Cleanup ==
  /\ \A t \in Threads : pc[t] \in {"client", "entry_wrap"} => ~defer_needed[t] /\ ~defer_active[t]
  /\ \A t \in Threads : Pending(t) => defer_desc[t] \in over /\ returned[defer_desc[t]] = 0
  /\ \A t, u \in Threads : Pending(t) /\ Pending(u) /\ defer_desc[t] = defer_desc[u] => t = u

Gone ==
  /\ \A c \in over : desc[c] = c /\ \A t \in Threads : stack[t] # c
  /\ \A c \in Cos : returned[c] > 0 => returned[c] = 1 /\ c \in over

\* The inductive invariant.
IInv == TypeOK /\ Standing /\ Suspended /\ Descriptors /\ Current /\ Cleanup /\ Gone

-----------------------------------------------------------------------------
LEMMA Disjoint == \A t \in Threads : t \notin Cos /\ t # NULL /\ NULL \notin Cos
  BY ThreadsAssumption, NullAssumption

LEMMA InitIInv == Init => IInv
  <1> SUFFICES ASSUME Init PROVE IInv
    OBVIOUS
  <1>1. TypeOK
    BY DEF Init, TypeOK, Contexts
  <1>2. Standing /\ Suspended /\ Descriptors /\ Current
    BY Disjoint DEF Init, Standing, Suspended, Descriptors, Current, Beginning, From, Contexts
  <1>3. Cleanup /\ Gone
    BY DEF Init, Cleanup, Pending, Gone
  <1> QED
    BY <1>1, <1>2, <1>3 DEF IInv

-----------------------------------------------------------------------------
(* What the three switches have in common.                                 *)

\* A thread that leaves one context for another one on which nobody stands.
Leaves(t, at, to, there) ==
  /\ Client(t) /\ to \in Cos \cup {t} /\ to # From(t)
  /\ to \in Cos => to \notin over /\ \A u \in Threads : stack[u] # to
  /\ at \in {"switch0", "fast"}
  /\ Transfer(t, From(t), at, to, there)
  /\ UNCHANGED desc

LEMMA FromIsStack ==
  ASSUME IInv, NEW t \in Threads, Client(t)
  PROVE  /\ From(t) = stack[t] /\ From(t) \in Contexts /\ From(t) \in Cos \cup {t}
         /\ From(t) \in Cos => desc[From(t)] = From(t)
         /\ ~defer_needed[t] /\ ~defer_active[t]
  BY DEF IInv, TypeOK, Current, Beginning, Cleanup, Client, Standing, Contexts

LEMMA LeavesStanding ==
  ASSUME IInv, NEW t \in Threads, NEW to, NEW at, NEW there, Leaves(t, at, to, there)
  PROVE  Standing' /\ Suspended' /\ Descriptors'
  <1>1. /\ From(t) = stack[t] /\ From(t) \in Contexts /\ From(t) \in Cos \cup {t}
        /\ From(t) \in Cos => desc[From(t)] = From(t)
    BY FromIsStack DEF Leaves
  <1>2. /\ stack' = [stack EXCEPT ![t] = to]
        /\ resume' = [resume EXCEPT ![stack[t]] = at, ![to] = "nowhere"]
        /\ desc' = desc /\ to \in Cos \cup {t} /\ to \in Contexts /\ to # stack[t]
        /\ at # "nowhere"
    BY <1>1 DEF Leaves, Transfer, Contexts
  <1>3. /\ stack \in [Threads -> Contexts] /\ resume \in [Contexts -> {"nowhere", "switch0", "fast"}]
        /\ desc \in [Contexts -> Cos \cup {NULL}]
    BY DEF IInv, TypeOK
  <1>4. \A u \in Threads : stack[u] # to
    BY <1>2, Disjoint DEF IInv, Standing, Leaves
  <1>5. Standing'
    BY <1>2, <1>3, <1>4 DEF IInv, Standing
  <1>6. Suspended'
    <2>1. \A x \in Contexts : resume'[x] # "nowhere" => \A u \in Threads : stack'[u] # x
      BY <1>1, <1>2, <1>3, <1>4 DEF IInv, Standing, Suspended
    <2>2. \A c \in Cos : resume'[c] # "nowhere" => desc'[c] = c
      BY <1>1, <1>2, <1>3 DEF IInv, Suspended, Contexts
    <2>3. \A u \in Threads : stack'[u] # u => resume'[u] # "nowhere"
      BY <1>1, <1>2, <1>3, Disjoint DEF IInv, Standing, Suspended, Contexts
    <2> QED
      BY <2>1, <2>2, <2>3 DEF Suspended
  <1>7. Descriptors'
    BY <1>2 DEF IInv, Descriptors
  <1> QED
    BY <1>5, <1>6, <1>7

LEMMA LeavesCleanup ==
  ASSUME IInv, NEW t \in Threads, NEW to, NEW at, NEW there, Leaves(t, at, to, there),
         NEW final \in BOOLEAN, SetDefer(t, From(t), final),
         there \notin {"client", "entry_wrap"}, UNCHANGED <<defer_active, returned>>
  PROVE  Cleanup' /\ Gone'
  <1>1. /\ From(t) = stack[t] /\ From(t) \in Contexts /\ From(t) \in Cos \cup {t}
        /\ From(t) \in Cos => desc[From(t)] = From(t)
        /\ ~defer_needed[t] /\ ~defer_active[t]
    BY FromIsStack DEF Leaves
  <1>2. /\ stack' = [stack EXCEPT ![t] = to] /\ desc' = desc /\ to # stack[t]
        /\ to \in Cos => to \notin over /\ \A u \in Threads : stack[u] # to
        /\ pc' = [pc EXCEPT ![t] = there] /\ returned' = returned /\ defer_active' = defer_active
        /\ defer_needed' = [defer_needed EXCEPT ![t] = final]
        /\ defer_desc' = [defer_desc EXCEPT ![t] = IF final THEN desc[stack[t]] ELSE @]
        /\ over' = IF final THEN over \cup ({stack[t]} \cap Cos) ELSE over
    <2>1. defer_needed[t] = FALSE
      BY <1>1 DEF IInv, TypeOK
    <2> QED
      BY <1>1, <2>1 DEF Leaves, Transfer, SetDefer
  <1>3. TypeOK
    BY DEF IInv
  <1>4. stack[t] \in Cos => /\ stack[t] \notin over /\ returned[stack[t]] = 0
                            /\ \A u \in Threads : u # t => stack[u] # stack[t]
    BY <1>3 DEF IInv, TypeOK, Gone, Standing
  <1>5. stack[t] \notin Cos => desc[stack[t]] = NULL /\ desc[stack[t]] \notin WithDefer
    BY <1>1, DeferAssumption, Disjoint DEF IInv, Descriptors
  <1>6. \A u \in Threads \ {t} : Pending(u)' = Pending(u) /\ defer_desc'[u] = defer_desc[u]
    BY <1>2, <1>3 DEF TypeOK, Pending, HasHandler
  <1>7. Pending(t)' => final /\ stack[t] \in Cos /\ defer_desc'[t] = stack[t]
    BY <1>1, <1>2, <1>3, <1>5 DEF TypeOK, Pending, HasHandler
  <1>8. \A u \in Threads : Pending(u)' => defer_desc'[u] \in over' /\ returned'[defer_desc'[u]] = 0
    BY <1>2, <1>4, <1>6, <1>7 DEF IInv, Cleanup
  <1>9. \A u, w \in Threads : Pending(u)' /\ Pending(w)' /\ defer_desc'[u] = defer_desc'[w] => u = w
    <2>1. \A u \in Threads \ {t} : Pending(u)' => defer_desc'[u] \in over
      BY <1>6 DEF IInv, Cleanup
    <2> QED
      BY <2>1, <1>4, <1>6, <1>7 DEF IInv, Cleanup
  <1>10. \A u \in Threads : pc'[u] \in {"client", "entry_wrap"} => ~defer_needed'[u] /\ ~defer_active'[u]
    BY <1>2, <1>3 DEF IInv, TypeOK, Cleanup
  <1>11. Cleanup'
    BY <1>8, <1>9, <1>10 DEF Cleanup
  <1>12. Gone'
    BY <1>1, <1>2, <1>3, <1>4 DEF IInv, TypeOK, Gone
  <1> QED
    BY <1>11, <1>12

-----------------------------------------------------------------------------
(* The actions.                                                            *)

LEMMA StartLeaves ==
  ASSUME IInv, NEW t \in Threads, NEW c \in Cos, NEW final \in BOOLEAN, Start(t, c, final)
  PROVE  Leaves(t, "switch0", c, "entry")
  <1>1. From(t) = stack[t]
    BY FromIsStack DEF Start
  <1>2. c \notin over
    BY Disjoint DEF IInv, Gone, Start, Unborn
  <1> QED
    BY <1>1, <1>2 DEF Start, Unborn, Leaves

LEMMA StartIInv ==
  ASSUME IInv, NEW t \in Threads, NEW c \in Cos, NEW final \in BOOLEAN, Start(t, c, final)
  PROVE  IInv'
  <1>1. /\ From(t) = stack[t] /\ From(t) \in Contexts /\ From(t) \in Cos \cup {t}
        /\ From(t) \in Cos => desc[From(t)] = From(t)
    BY FromIsStack DEF Start
  <1>3. Leaves(t, "switch0", c, "entry")
    BY StartLeaves
  <1>4. Standing' /\ Suspended' /\ Descriptors'
    BY <1>3, LeavesStanding
  <1>5. Cleanup' /\ Gone'
    BY <1>3, LeavesCleanup DEF Start
  <1>6. TypeOK'
    BY <1>1 DEF IInv, TypeOK, Start, Transfer, SetDefer, Contexts
  <1>7. Current'
    <2>1. /\ stack'[t] = c /\ desc_temp'[t] = c /\ pc'[t] = "entry"
          /\ \A u \in Threads \ {t} : /\ stack'[u] = stack[u] /\ desc_temp'[u] = desc_temp[u]
                                      /\ pc'[u] = pc[u] /\ chiba_co_cur'[u] = chiba_co_cur[u]
          /\ desc' = desc
      BY DEF IInv, TypeOK, Start, Transfer
    <2> QED
      BY <2>1 DEF IInv, Current, Beginning, From
  <1> QED
    BY <1>4, <1>5, <1>6, <1>7 DEF IInv

LEMMA SwitchCurrent ==
  ASSUME IInv, NEW t \in Threads, NEW to, NEW at, Leaves(t, at, to, resume[to]),
         to \in Cos => Resumable(to), chiba_co_cur' = [chiba_co_cur EXCEPT ![t] = to],
         UNCHANGED desc_temp
  PROVE  Current' /\ resume[to] \in {"switch0", "fast"}
  <1>1. From(t) = stack[t]
    BY FromIsStack DEF Leaves
  <1>2. to \in Cos \cup {t} /\ to \in Contexts
    BY DEF Leaves, Contexts
  <1>3. resume[to] # "nowhere"
    BY <1>1, <1>2 DEF IInv, Suspended, Leaves, Resumable
  <1>4. resume[to] \in {"switch0", "fast"}
    BY <1>2, <1>3 DEF IInv, TypeOK
  <1>5. /\ stack'[t] = to /\ pc'[t] = resume[to] /\ chiba_co_cur'[t] = to
        /\ \A u \in Threads \ {t} : /\ stack'[u] = stack[u] /\ desc_temp'[u] = desc_temp[u]
                                    /\ pc'[u] = pc[u] /\ chiba_co_cur'[u] = chiba_co_cur[u]
        /\ desc' = desc
    BY DEF IInv, TypeOK, Leaves, Transfer
  <1>6. to # NULL /\ (to \in Cos => desc[to] = to)
    BY <1>2, <1>3, Disjoint DEF IInv, Suspended
  <1> QED
    BY <1>4, <1>5, <1>6 DEF IInv, Current, Beginning, From

LEMMA SwitchSlowLeaves ==
  ASSUME IInv, NEW t \in Threads, NEW to \in Cos \cup {t}, NEW final \in BOOLEAN,
         SwitchSlow(t, to, final)
  PROVE  Leaves(t, "switch0", to, resume[to]) /\ resume[to] \in {"switch0", "fast"}
  <1>1. to \in Cos => to \notin over /\ \A u \in Threads : stack[u] # to
    BY DEF IInv, Suspended, SwitchSlow, Resumable, Contexts
  <1>2. Leaves(t, "switch0", to, resume[to])
    BY <1>1 DEF SwitchSlow, Leaves
  <1> QED
    BY <1>2, SwitchCurrent DEF SwitchSlow

LEMMA SwitchSlowIInv ==
  ASSUME IInv, NEW t \in Threads, NEW to \in Cos \cup {t}, NEW final \in BOOLEAN,
         SwitchSlow(t, to, final)
  PROVE  IInv'
  <1>1. From(t) \in Contexts /\ to \in Contexts
    BY FromIsStack DEF SwitchSlow, Contexts
  <1>3. Leaves(t, "switch0", to, resume[to])
    BY SwitchSlowLeaves
  <1>4. Standing' /\ Suspended' /\ Descriptors'
    BY <1>3, LeavesStanding
  <1>5. Current' /\ resume[to] \in {"switch0", "fast"}
    BY <1>3, SwitchCurrent DEF SwitchSlow
  <1>6. Cleanup' /\ Gone'
    BY <1>3, <1>5, LeavesCleanup DEF SwitchSlow
  <1>7. TypeOK'
    BY <1>1, <1>5 DEF IInv, TypeOK, SwitchSlow, Transfer, SetDefer, Contexts
  <1> QED
    BY <1>4, <1>5, <1>6, <1>7 DEF IInv

LEMMA SwitchFastLeaves ==
  ASSUME IInv, NEW t \in Threads, NEW to \in Cos, SwitchFast(t, to)
  PROVE  Leaves(t, "fast", to, resume[to]) /\ resume[to] \in {"switch0", "fast"}
  <1>1. From(t) = chiba_co_cur[t]
    BY DEF SwitchFast, From
  <1>2. to \notin over /\ \A u \in Threads : stack[u] # to
    BY DEF IInv, Suspended, SwitchFast, Resumable, Contexts
  <1>3. Leaves(t, "fast", to, resume[to])
    BY <1>1, <1>2 DEF SwitchFast, Leaves
  <1> QED
    BY <1>3, SwitchCurrent DEF SwitchFast

LEMMA SwitchFastIInv ==
  ASSUME IInv, NEW t \in Threads, NEW to \in Cos, SwitchFast(t, to)
  PROVE  IInv'
  <1>1. From(t) = chiba_co_cur[t] /\ From(t) \in Contexts /\ to \in Contexts
    BY FromIsStack DEF SwitchFast, From, Contexts
  <1>3. Leaves(t, "fast", to, resume[to])
    BY SwitchFastLeaves
  <1>4. Standing' /\ Suspended' /\ Descriptors'
    BY <1>3, LeavesStanding
  <1>5. Current' /\ resume[to] \in {"switch0", "fast"}
    BY <1>3, SwitchCurrent DEF SwitchFast
  <1>6. Cleanup' /\ Gone'
    <2>1. defer_needed[t] = FALSE
      BY FromIsStack DEF IInv, TypeOK, SwitchFast
    <2>2. SetDefer(t, From(t), FALSE)
      BY <2>1 DEF IInv, TypeOK, SetDefer, SwitchFast, deferring
    <2> QED
      BY <1>3, <1>5, <2>2, LeavesCleanup DEF SwitchFast, deferring
  <1>7. TypeOK'
    BY <1>1, <1>5 DEF IInv, TypeOK, SwitchFast, Transfer, Contexts, deferring
  <1> QED
    BY <1>4, <1>5, <1>6, <1>7 DEF IInv

LEMMA DeferCallIInv ==
  ASSUME IInv, NEW t \in Threads, DeferCall(t)
  PROVE  IInv'
  <1> USE DEF switching
  <1>1. TypeOK /\ Pending(t) /\ defer_desc[t] \in Cos /\ defer_desc[t] \in over
                /\ returned[defer_desc[t]] = 0
    BY DEF IInv, TypeOK, Cleanup, DeferCall, Pending, HasHandler
  <1>2. TypeOK'
    BY <1>1 DEF TypeOK, DeferCall
  <1>3. Standing' /\ Suspended' /\ Descriptors' /\ Current'
    BY DEF IInv, Standing, Suspended, Descriptors, Current, Beginning, From, DeferCall
  <1>4. Cleanup'
    <2>1. ~Pending(t)' /\ \A u \in Threads \ {t} : Pending(u)' = Pending(u)
      BY <1>1 DEF TypeOK, Pending, HasHandler, DeferCall
    <2>2. \A u \in Threads : Pending(u)' => returned'[defer_desc'[u]] = 0
      BY <1>1, <2>1 DEF IInv, TypeOK, Cleanup, DeferCall
    <2>3. pc'[t] \notin {"client", "entry_wrap"}
      BY DEF DeferCall, DeferLast
    <2> QED
      BY <1>1, <2>1, <2>2, <2>3 DEF IInv, TypeOK, Cleanup, DeferCall
  <1>5. Gone'
    BY <1>1 DEF IInv, TypeOK, Gone, DeferCall
  <1> QED
    BY <1>2, <1>3, <1>4, <1>5 DEF IInv

LEMMA DeferDoneIInv ==
  ASSUME IInv, NEW t \in Threads, DeferDone(t)
  PROVE  IInv'
  <1> USE DEF switching
  <1>1. TypeOK'
    BY DEF IInv, TypeOK, DeferDone, DeferLast
  <1>2. Standing' /\ Suspended' /\ Descriptors' /\ Gone'
    BY DEF IInv, Standing, Suspended, Descriptors, Gone, DeferDone
  <1>3. Current'
    BY DEF IInv, TypeOK, Current, Beginning, From, DeferDone, DeferLast
  <1>4. Cleanup'
    <2>1. ~Pending(t)' /\ \A u \in Threads \ {t} : Pending(u)' = Pending(u)
      BY DEF IInv, TypeOK, Pending, HasHandler, DeferDone
    <2> QED
      BY <2>1 DEF IInv, TypeOK, Cleanup, DeferDone
  <1> QED
    BY <1>1, <1>2, <1>3, <1>4 DEF IInv

LEMMA EntryWrapIInv ==
  ASSUME IInv, NEW t \in Threads, EntryWrap(t)
  PROVE  IInv'
  <1> USE DEF deferring
  <1>1. stack[t] \in Cos /\ desc_temp[t] = stack[t]
    BY DEF IInv, Current, Beginning, EntryWrap
  <1>2. desc' = [desc EXCEPT ![stack[t]] = stack[t]]
    BY <1>1 DEF EntryWrap
  <1>3. TypeOK'
    BY <1>1 DEF IInv, TypeOK, EntryWrap, Contexts
  <1>4. Standing'
    BY DEF IInv, Standing, EntryWrap
  <1>5. Suspended' /\ Descriptors' /\ Gone'
    BY <1>1, <1>2, Disjoint DEF IInv, TypeOK, Suspended, Descriptors, Gone, EntryWrap, Contexts
  <1>6. Current'
    <2>1. /\ ~Beginning(t)' /\ chiba_co_cur'[t] = stack[t] /\ desc'[stack[t]] = stack[t]
          /\ \A u \in Threads \ {t} : pc'[u] = pc[u] /\ chiba_co_cur'[u] = chiba_co_cur[u]
          /\ \A x \in Contexts : desc'[x] = IF x = stack[t] THEN stack[t] ELSE desc[x]
      BY <1>1, <1>2 DEF IInv, TypeOK, Beginning, EntryWrap, Contexts
    <2> QED
      BY <1>1, <2>1, Disjoint DEF IInv, TypeOK, Current, Beginning, From, EntryWrap
  <1>7. Cleanup'
    BY DEF IInv, TypeOK, Cleanup, Pending, HasHandler, EntryWrap
  <1> QED
    BY <1>3, <1>4, <1>5, <1>6, <1>7 DEF IInv

LEMMA UnchangedIInv ==
  ASSUME IInv, UNCHANGED <<switching, deferring, pc>>, exited' \in BOOLEAN
  PROVE  IInv'
  BY DEF IInv, TypeOK, Standing, Suspended, Descriptors, Current, Beginning, From, Cleanup, Pending,
         HasHandler, Gone, switching, deferring

LEMMA NextIInv ==
  ASSUME IInv, [Next]_vars
  PROVE  IInv'
  <1>1. CASE UNCHANGED vars
    BY <1>1, UnchangedIInv DEF IInv, TypeOK, vars
  <1>2. ASSUME NEW t \in Threads, NEW c \in Cos, NEW final \in BOOLEAN, Start(t, c, final)
        PROVE  IInv'
    BY <1>2, StartIInv
  <1>3. ASSUME NEW t \in Threads, NEW to \in Cos \cup {t}, NEW final \in BOOLEAN, SwitchSlow(t, to, final)
        PROVE  IInv'
    BY <1>3, SwitchSlowIInv
  <1>4. ASSUME NEW t \in Threads, NEW to \in Cos, SwitchFast(t, to) PROVE IInv'
    BY <1>4, SwitchFastIInv
  <1>5. ASSUME NEW t \in Threads, DeferCall(t) \/ DeferDone(t) \/ EntryWrap(t) PROVE IInv'
    BY <1>5, DeferCallIInv, DeferDoneIInv, EntryWrapIInv
  <1>6. ASSUME NEW t \in Threads, EntryReturns(t) \/ StackTooSmall(t) \/ GuardAborts(t) PROVE IInv'
    BY <1>6, UnchangedIInv DEF EntryReturns, StackTooSmall, GuardAborts, End
  <1> QED
    BY <1>1, <1>2, <1>3, <1>4, <1>5, <1>6 DEF Next

-----------------------------------------------------------------------------
\* The inductive invariant of the coroutines: nobody stands on a suspended context or
\* on one that is over, a suspended coroutine knows its descriptor, and a handler
\* that is going to be called is that of a coroutine whose stack is still out.
THEOREM Invariant == Spec => []IInv
  <1>1. Init => IInv
    BY InitIInv
  <1>2. IInv /\ [Next]_vars => IInv'
    BY NextIInv
  <1> QED
    BY <1>1, <1>2, PTL DEF Spec

\* A stack is given back at most once, for a coroutine that was left for good, and
\* nobody stands on it; two threads never stand on one stack.
THEOREM StacksOutliveTheirUse == Spec => []StackOutlivesUse
  <1>1. IInv => StackOutlivesUse
    BY DEF IInv, Standing, Gone, StackOutlivesUse
  <1> QED
    BY <1>1, Invariant, PTL

\* Client code runs on the stack of the context it believes to be.
THEOREM ClientsAreCurrent == Spec => []ClientIsCurrent
  <1>1. IInv => ClientIsCurrent
    BY DEF IInv, Current, Beginning, Cleanup, ClientIsCurrent
  <1> QED
    BY <1>1, Invariant, PTL

-----------------------------------------------------------------------------
(* The registers.                                                          *)

\* The tables of a machine fit together: no two registers are stored in one word and
\* no register is loaded from two; the program counter and every register that a call
\* preserves is loaded, from where it was stored; the address stored as the program
\* counter is that where the switch returns; and what is made is what a beginning
\* coroutine has to find.
StoresFit(m) == \A p, q \in m.stores : p.at = q.at => p.reg = q.reg
LoadsFit(m) == \A p, q \in m.loads : p.reg = q.reg => p.at = q.at
LoadsCover(m, saved) == \A r \in saved \cup {m.pc} : \E p \in m.loads : p.reg = r
StoresCover(m, saved) == \A p \in m.loads : p.reg \in saved \cup {m.pc} => p \in m.stores
MadeOnce(m) == \A v, w \in m.made : v.at = w.at => v = w

\* What the load of a register finds in a made context.
MadeWords(m, saved) ==
  \A p \in m.loads :
    /\ p.reg = m.pc => Word(p.at, Code("asm_entry")) \in m.made
    /\ p.reg = m.entry => Word(p.at, Code("co_entry")) \in m.made
    /\ p.reg \in saved \cap (ThreadBlock \cup {m.sp}) =>
         IF p.reg = <<"fiber_storage">> THEN \A v \in m.made : v.at # p.at
                                        ELSE Word(p.at, <<"its", p.reg>>) \in m.made

Roles(m, saved) ==
  /\ m.sp \in saved /\ m.entry \in saved
  /\ m.pc \notin saved \cup ThreadBlock /\ m.sp # <<"fiber_storage">>
  /\ m.stored = m.ret

Fits(m, saved) ==
  /\ StoresFit(m) /\ LoadsFit(m) /\ LoadsCover(m, saved) /\ StoresCover(m, saved)
  /\ MadeOnce(m) /\ MadeWords(m, saved) /\ Roles(m, saved)

\* The registers r are those of the context x where its own code runs, and where it
\* begins.
Runs(r, x) == r[PC] = ReturnPC(x) /\ \A q \in CalleeSaved(arch) : r[q] = Own(x, q)

Begins(r, x) ==
  /\ r[PC] = Code("asm_entry") /\ r[Machine(arch).entry] = Code("co_entry")
  /\ \A q \in CalleeSaved(arch) \cap (ThreadBlock \cup {SP}) : r[q] = Own(x, q)

\* The words from which a context is loaded hold its registers.
Holds(context, x) ==
  \A p \in Machine(arch).loads :
    /\ p.reg = PC => context[p.at] = ReturnPC(x)
    /\ p.reg \in CalleeSaved(arch) => context[p.at] = Own(x, p.reg)

\* Every thread has the registers of the context it stands on, and every suspended
\* context those it was left with.
RegistersInv ==
  /\ arch \in Archs
  /\ DOMAIN regs = Threads /\ DOMAIN mem = Contexts
  /\ \A t \in Threads : Beginning(t) => Begins(regs[t], stack[t])
  /\ \A t \in Threads : ~Beginning(t) => Runs(regs[t], stack[t])
  /\ \A x \in Contexts : resume[x] # "nowhere" => Holds(mem[x], x)

CInv == IInv /\ RegistersInv

-----------------------------------------------------------------------------
(* What a switch does on a machine whose tables fit.                       *)

Fit == Fits(Machine(arch), CalleeSaved(arch))

LEMMA Switched ==
  ASSUME Fit
  PROVE  /\ PC \in Registers /\ PC \notin CalleeSaved(arch) /\ SP \in CalleeSaved(arch)
         /\ CalleeSaved(arch) \subseteq Registers
  BY DEF Fit, Fits, Roles, LoadsCover, StoresCover, Registers, PC, SP

LEMMA StoredWord ==
  ASSUME Fit, NEW p \in Machine(arch).stores, NEW from, NEW r, NEW x
  PROVE  Stored(from, r, x)[p.at] = IF p.reg = PC THEN StoredPC(x) ELSE r[p.reg]
  <1> DEFINE found == CHOOSE q \in Machine(arch).stores : q.at = p.at
  <1>1. found \in Machine(arch).stores /\ found.at = p.at
    OBVIOUS
  <1>2. found.reg = p.reg
    BY <1>1 DEF Fit, Fits, StoresFit
  <1>3. p.at \in Words
    BY DEF Words
  <1>4. Stored(from, r, x)[p.at] = IF found.reg = PC THEN StoredPC(x) ELSE r[found.reg]
    BY <1>3, Zenon DEF Stored
  <1> HIDE DEF found
  <1> QED
    BY <1>2, <1>4

LEMMA LoadedWord ==
  ASSUME Fit, NEW p \in Machine(arch).loads, p.reg \in Registers, NEW r, NEW context
  PROVE  Loaded(r, context)[p.reg] = context[p.at]
  <1> DEFINE found == CHOOSE q \in Machine(arch).loads : q.reg = p.reg
  <1>1. found \in Machine(arch).loads /\ found.reg = p.reg
    OBVIOUS
  <1>2. found.at = p.at
    BY <1>1 DEF Fit, Fits, LoadsFit
  <1>3. Loaded(r, context)[p.reg] = context[found.at]
    BY Zenon DEF Loaded
  <1> HIDE DEF found
  <1> QED
    BY <1>2, <1>3

LEMMA FreshWord ==
  ASSUME Fit, NEW w \in Words, NEW c
  PROVE  /\ \A v : Word(w, v) \in Machine(arch).made =>
              Fresh(c)[w] = IF v[1] = "its" THEN <<c, v[2]>> ELSE v
         /\ (\A m \in Machine(arch).made : m.at # w) => Fresh(c)[w] = Zero
  <1>1. ASSUME NEW v, Word(w, v) \in Machine(arch).made
        PROVE  Fresh(c)[w] = IF v[1] = "its" THEN <<c, v[2]>> ELSE v
    <2> DEFINE found == CHOOSE m \in Machine(arch).made : m.at = w
    <2>1. Word(w, v).at = w /\ Word(w, v).value = v
      BY DEF Word
    <2>2. found \in Machine(arch).made /\ found.at = w
      BY <1>1, <2>1
    <2>3. found.value = v
      BY <1>1, <2>1, <2>2 DEF Fit, Fits, MadeOnce
    <2>4. Fresh(c)[w] = IF found.value[1] = "its" THEN <<c, found.value[2]>> ELSE found.value
      BY <1>1, <2>1, Zenon DEF Fresh
    <2> HIDE DEF found
    <2> QED
      BY <2>3, <2>4
  <1>2. (\A m \in Machine(arch).made : m.at # w) => Fresh(c)[w] = Zero
    BY DEF Fresh
  <1> QED
    BY <1>1, <1>2

LEMMA FreshValue ==
  ASSUME Fit, NEW w \in Words, NEW c
  PROVE  /\ \A n : Word(w, Code(n)) \in Machine(arch).made => Fresh(c)[w] = Code(n)
         /\ \A q : Word(w, <<"its", q>>) \in Machine(arch).made => Fresh(c)[w] = <<c, q>>
  <1>1. ASSUME NEW n, Word(w, Code(n)) \in Machine(arch).made PROVE Fresh(c)[w] = Code(n)
    <2>1. Code(n)[1] # "its"
      BY DEF Code
    <2> QED
      BY <1>1, <2>1, FreshWord
  <1>2. ASSUME NEW q, Word(w, <<"its", q>>) \in Machine(arch).made PROVE Fresh(c)[w] = <<c, q>>
    <2>1. PICK v : v = <<"its", q>>
      OBVIOUS
    <2>2. v[1] = "its" /\ v[2] = q
      BY <2>1
    <2>3. Word(w, v) \in Machine(arch).made
      BY <1>2, <2>1
    <2>4. Fresh(c)[w] = IF v[1] = "its" THEN <<c, v[2]>> ELSE v
      BY <2>3, FreshWord, Zenon
    <2> QED
      BY <2>2, <2>4
  <1> QED
    BY <1>1, <1>2

\* What a switch stores for a context that runs is what the context has to find.
LEMMA LeftHolds ==
  ASSUME Fit, NEW from, NEW r, NEW x, Runs(r, x)
  PROVE  Holds(Stored(from, r, x), x)
  <1>1. StoredPC(x) = ReturnPC(x)
    BY DEF Fit, Fits, Roles, StoredPC, ReturnPC
  <1>2. ASSUME NEW p \in Machine(arch).loads, p.reg \in CalleeSaved(arch) \cup {PC}
        PROVE  Stored(from, r, x)[p.at] = IF p.reg = PC THEN StoredPC(x) ELSE r[p.reg]
    <2>1. p \in Machine(arch).stores
      BY <1>2 DEF Fit, Fits, StoresCover, PC
    <2> QED
      BY <2>1, StoredWord
  <1> QED
    BY <1>1, <1>2, Switched DEF Holds, Runs

\* What a switch loads from words that hold the registers of a context.
LEMMA LoadedRuns ==
  ASSUME Fit, NEW r, NEW context, NEW x, Holds(context, x)
  PROVE  Runs(Loaded(r, context), x)
  <1>1. ASSUME NEW q \in CalleeSaved(arch) \cup {PC}
        PROVE  Loaded(r, context)[q] = IF q = PC THEN ReturnPC(x) ELSE Own(x, q)
    <2>1. PICK p \in Machine(arch).loads : p.reg = q
      BY DEF Fit, Fits, LoadsCover, PC
    <2>2. q \in Registers
      BY Switched
    <2>3. Loaded(r, context)[q] = context[p.at]
      BY <2>1, <2>2, LoadedWord
    <2> QED
      BY <2>1, <2>3 DEF Holds
  <1> QED
    BY <1>1, Switched DEF Runs

\* What a switch loads from a made context.
LEMMA LoadedBegins ==
  ASSUME Fit, NEW r, NEW c \in Cos
  PROVE  Begins(Loaded(r, Fresh(c)), c)
  <1> DEFINE m == Machine(arch)
             saved == CalleeSaved(arch)
  <1>1. ASSUME NEW q \in saved \cup {PC}
        PROVE  \E p \in m.loads : /\ p.reg = q /\ p.at \in Words
                                  /\ Loaded(r, Fresh(c))[q] = Fresh(c)[p.at]
    <2>1. PICK p \in m.loads : p.reg = q
      BY DEF Fit, Fits, LoadsCover, PC
    <2>2. q \in Registers
      BY Switched
    <2> QED
      BY <2>1, <2>2, LoadedWord DEF Words
  <1>2. MadeWords(m, saved) /\ Roles(m, saved)
    BY DEF Fit, Fits
  <1>3. Loaded(r, Fresh(c))[PC] = Code("asm_entry")
    <2>1. PICK p \in m.loads : /\ p.reg = PC /\ p.at \in Words
                               /\ Loaded(r, Fresh(c))[PC] = Fresh(c)[p.at]
      BY <1>1
    <2>2. Word(p.at, Code("asm_entry")) \in m.made
      BY <1>2, <2>1 DEF MadeWords, PC
    <2> QED
      BY <2>1, <2>2, FreshValue
  <1>4. Loaded(r, Fresh(c))[m.entry] = Code("co_entry")
    <2>1. PICK p \in m.loads : /\ p.reg = m.entry /\ p.at \in Words
                               /\ Loaded(r, Fresh(c))[m.entry] = Fresh(c)[p.at]
      BY <1>1, <1>2 DEF Roles
    <2>2. Word(p.at, Code("co_entry")) \in m.made
      BY <1>2, <2>1 DEF MadeWords
    <2> QED
      BY <2>1, <2>2, FreshValue
  <1>5. ASSUME NEW q \in saved \cap (ThreadBlock \cup {SP})
        PROVE  Loaded(r, Fresh(c))[q] = Own(c, q)
    <2>1. PICK p \in m.loads : /\ p.reg = q /\ p.at \in Words
                               /\ Loaded(r, Fresh(c))[q] = Fresh(c)[p.at]
      BY <1>1
    <2>2. CASE q = <<"fiber_storage">>
      <3>1. \A v \in m.made : v.at # p.at
        BY <1>2, <2>1, <2>2 DEF MadeWords, SP
      <3> QED
        BY <2>1, <2>2, <3>1, FreshWord DEF Own
    <2>3. CASE q # <<"fiber_storage">>
      <3>1. Word(p.at, <<"its", q>>) \in m.made
        BY <1>2, <2>1, <2>3 DEF MadeWords, SP
      <3>2. Fresh(c)[p.at] = <<c, q>>
        BY <2>1, <3>1, FreshValue
      <3> QED
        BY <2>1, <2>3, <3>2 DEF Own
    <2> QED
      BY <2>2, <2>3
  <1> QED
    BY <1>3, <1>4, <1>5 DEF Begins

-----------------------------------------------------------------------------
(* The tables of the five machines.                                        *)

\* A table: no word and no register twice, all words from lo on and before hi.
Table(T, lo, hi) ==
  /\ \A p, q \in T : p.at = q.at <=> p.reg = q.reg
  /\ \A p \in T : p.at \in Int /\ lo <= p.at /\ p.at < hi

LEMMA Joined ==
  ASSUME NEW T, NEW U, NEW a \in Int, NEW b \in Int, NEW c \in Int,
         Table(T, a, b), Table(U, b, c), a <= b, b <= c, \A p \in T, q \in U : p.reg # q.reg
  PROVE  Table(T \cup U, a, c)
  BY DEF Table

LEMMA Names ==
  ASSUME NEW first \in Int, NEW names, NEW n \in Nat, DOMAIN names = 1 .. n,
         \A j, k \in 1 .. n : names[j] = names[k] => j = k
  PROVE  /\ Table(At(first, names), first, first + 8 * n)
         /\ \A k \in 1 .. n : [at |-> first + 8 * (k - 1), reg |-> <<names[k]>>] \in At(first, names)
         /\ \A p \in At(first, names) : \E k \in 1 .. n : p.reg = <<names[k]>>
  <1>1. \A p \in At(first, names) : \E k \in 1 .. n : p.at = first + 8 * (k - 1) /\ p.reg = <<names[k]>>
    BY DEF At
  <1>2. \A k \in 1 .. n : [at |-> first + 8 * (k - 1), reg |-> <<names[k]>>] \in At(first, names)
    BY DEF At
  <1>3. \A p, q \in At(first, names) : p.at = q.at <=> p.reg = q.reg
    <2> SUFFICES ASSUME NEW p \in At(first, names), NEW q \in At(first, names)
                 PROVE  p.at = q.at <=> p.reg = q.reg
      OBVIOUS
    <2>1. PICK j \in 1 .. n : p.at = first + 8 * (j - 1) /\ p.reg = <<names[j]>>
      BY <1>1
    <2>2. PICK k \in 1 .. n : q.at = first + 8 * (k - 1) /\ q.reg = <<names[k]>>
      BY <1>1
    <2>3. p.reg = q.reg => j = k
      BY <2>1, <2>2
    <2> QED
      BY <2>1, <2>2, <2>3
  <1>4. \A p \in At(first, names) : p.at \in Int /\ first <= p.at /\ p.at < first + 8 * n
    BY <1>1
  <1> QED
    BY <1>1, <1>2, <1>3, <1>4 DEF Table

LEMMA Numbers ==
  ASSUME NEW first \in Int, NEW name, NEW lo \in Int, NEW hi \in Int, lo <= hi
  PROVE  /\ Table(Numbered(first, name, lo, hi), first, first + 8 * (hi + 1 - lo))
         /\ \A k \in lo .. hi : [at |-> first + 8 * (k - lo), reg |-> <<name, k>>] \in Numbered(first, name, lo, hi)
         /\ \A p \in Numbered(first, name, lo, hi) : \E k \in lo .. hi : p.reg = <<name, k>>
  <1> DEFINE T == Numbered(first, name, lo, hi)
  <1>1. \A p \in T : \E k \in lo .. hi : p.at = first + 8 * (k - lo) /\ p.reg = <<name, k>>
    BY DEF Numbered
  <1>2. \A k \in lo .. hi : [at |-> first + 8 * (k - lo), reg |-> <<name, k>>] \in T
    BY DEF Numbered
  <1>3. ASSUME NEW p \in T, NEW q \in T PROVE p.at = q.at <=> p.reg = q.reg
    <2>1. PICK j \in lo .. hi : p.at = first + 8 * (j - lo) /\ p.reg = <<name, j>>
      BY <1>1
    <2>2. PICK k \in lo .. hi : q.at = first + 8 * (k - lo) /\ q.reg = <<name, k>>
      BY <1>1
    <2>3. p.reg = q.reg => j = k
      BY <2>1, <2>2
    <2> QED
      BY <2>1, <2>2, <2>3
  <1>4. \A p \in T : p.at \in Int /\ first <= p.at /\ p.at < first + 8 * (hi + 1 - lo)
    BY <1>1
  <1> QED
    BY <1>1, <1>2, <1>3, <1>4 DEF Table

\* The registers R are in the table.
Lists(T, R) == \A r \in R : \E p \in T : p.reg = r

DoublesTable(first, lo, hi) ==
  /\ Table(Xmm(first, lo, hi), first, first + 16 * (hi + 1 - lo))
  /\ Lists(Xmm(first, lo, hi), {<<"xmm", k, h>> : k \in lo .. hi, h \in 0 .. 1})
  /\ \A p \in Xmm(first, lo, hi) : \E k \in lo .. hi, h \in 0 .. 1 : p.reg = <<"xmm", k, h>>

LEMMA Doubles ==
  ASSUME NEW first \in Int, NEW lo \in Int, NEW hi \in Int, lo <= hi
  PROVE  DoublesTable(first, lo, hi)
  <1> DEFINE T == Xmm(first, lo, hi)
  <1>1. \A p \in T : \E k \in lo .. hi, h \in 0 .. 1 :
          p.at = first + 16 * (k - lo) + 8 * h /\ p.reg = <<"xmm", k, h>>
    BY DEF Xmm
  <1>2. ASSUME NEW k \in lo .. hi, NEW h \in 0 .. 1
        PROVE  \E p \in T : p.reg = <<"xmm", k, h>>
    <2>1. /\ [at |-> first + 16 * (k - lo), reg |-> <<"xmm", k, 0>>] \in T
          /\ [at |-> first + 16 * (k - lo) + 8, reg |-> <<"xmm", k, 1>>] \in T
      BY DEF Xmm
    <2>2. h = 0 \/ h = 1
      OBVIOUS
    <2> QED
      BY <2>1, <2>2
  <1>3. ASSUME NEW p \in T, NEW q \in T PROVE p.at = q.at <=> p.reg = q.reg
    <2>1. PICK j \in lo .. hi, g \in 0 .. 1 : p.at = first + 16 * (j - lo) + 8 * g /\ p.reg = <<"xmm", j, g>>
      BY <1>1
    <2>2. PICK k \in lo .. hi, h \in 0 .. 1 : q.at = first + 16 * (k - lo) + 8 * h /\ q.reg = <<"xmm", k, h>>
      BY <1>1
    <2>3. p.reg = q.reg => j = k /\ g = h
      BY <2>1, <2>2
    <2> QED
      BY <2>1, <2>2, <2>3
  <1>4. \A p \in T : p.at \in Int /\ first <= p.at /\ p.at < first + 16 * (hi + 1 - lo)
    BY <1>1
  <1> QED
    BY <1>1, <1>2, <1>3, <1>4 DEF DoublesTable, Table, Lists

\* Registers of one, two and three parts differ.
LEMMA Parts ==
  \A a, b, c, d, e, f : <<a>> # <<b, c>> /\ <<a>> # <<d, e, f>> /\ <<b, c>> # <<d, e, f>>
  OBVIOUS

\* A machine that loads from where it stores fits if the three words that are made are
\* those of the program counter, the stack pointer and the entry function.
LEMMA PlainFits ==
  ASSUME NEW m, NEW saved, NEW hi, Table(m.stores, 0, hi), m.loads = m.stores,
         LoadsCover(m, saved), Roles(m, saved), saved \cap ThreadBlock = {}, m.entry # m.sp,
         NEW a, NEW b, NEW c,
         m.made = {Word(a, Code("asm_entry")), Word(b, <<"its", m.sp>>), Word(c, Code("co_entry"))},
         [at |-> a, reg |-> m.pc] \in m.stores,
         [at |-> b, reg |-> m.sp] \in m.stores,
         [at |-> c, reg |-> m.entry] \in m.stores
  PROVE  Fits(m, saved)
  <1>1. \A p \in m.loads :
          /\ p.reg = m.pc => p.at = a
          /\ p.reg = m.sp => p.at = b
          /\ p.reg = m.entry => p.at = c
    BY DEF Table
  <1>2. a # b /\ a # c /\ b # c
    BY DEF Table, Roles
  <1>3. MadeOnce(m)
    BY <1>2 DEF MadeOnce, Word
  <1>4. m.sp # <<"fiber_storage">>
    BY DEF Roles
  <1>5. MadeWords(m, saved)
    <2>1. \A r \in saved \cap (ThreadBlock \cup {m.sp}) : r = m.sp
      OBVIOUS
    <2>2. \A p \in m.loads :
            /\ p.reg = m.pc => Word(p.at, Code("asm_entry")) \in m.made
            /\ p.reg = m.sp => Word(p.at, <<"its", p.reg>>) \in m.made
            /\ p.reg = m.entry => Word(p.at, Code("co_entry")) \in m.made
      BY <1>1
    <2> QED
      BY <1>4, <2>1, <2>2 DEF MadeWords
  <1>6. StoresFit(m) /\ LoadsFit(m) /\ StoresCover(m, saved)
    BY DEF Table, StoresFit, LoadsFit, StoresCover
  <1> QED
    BY <1>3, <1>5, <1>6 DEF Fits

LEMMA SysvFits == Fits(amd64_sysv, CalleeSaved("amd64_sysv"))
  <1> DEFINE m == amd64_sysv
             all == <<"rip", "rsp", "rbp", "rbx", "r12", "r13", "r14", "r15">>
             some == <<"rsp", "rbp", "rbx", "r12", "r13", "r14", "r15">>
             saved == {<<r>> : r \in {"rsp", "rbp", "rbx", "r12", "r13", "r14", "r15"}}
  <1>1. /\ m.stores = At(0, all) /\ m.loads = At(8, some) \cup At(0, <<"rip">>)
        /\ m.made = {Word(0, Code("asm_entry")), Word(8, Reg("rsp")), Word(32, Code("co_entry"))}
        /\ m.pc = <<"rip">> /\ m.sp = <<"rsp">> /\ m.entry = <<"r12">>
        /\ CalleeSaved("amd64_sysv") = saved
    BY DEF amd64_sysv, CalleeSaved
  <1>2. m.stored = m.ret
    BY DEF amd64_sysv, lea_rip
  <1>3. Table(At(0, all), 0, 64) /\ \A k \in 1 .. 8 : [at |-> 8 * (k - 1), reg |-> <<all[k]>>] \in At(0, all)
    <2>1. DOMAIN all = 1 .. 8 /\ \A j, k \in 1 .. 8 : all[j] = all[k] => j = k
      OBVIOUS
    <2> HIDE DEF all
    <2>2. 0 \in Int /\ 8 \in Nat
      OBVIOUS
    <2>3. /\ Table(At(0, all), 0, 0 + 8 * 8)
          /\ \A k \in 1 .. 8 : [at |-> 0 + 8 * (k - 1), reg |-> <<all[k]>>] \in At(0, all)
      BY <2>1, <2>2, Names, Zenon
    <2> QED
      BY <2>2, <2>3
  <1>4. At(8, some) \cup At(0, <<"rip">>) = At(0, all)
    <2>1. At(0, <<"rip">>) = {[at |-> 0, reg |-> <<"rip">>]}
      BY DEF At
    <2>2. At(8, some) = {[at |-> 8 * k, reg |-> <<some[k]>>] : k \in 1 .. 7}
      BY DEF At
    <2>3. At(0, all) = {[at |-> 8 * (k - 1), reg |-> <<all[k]>>] : k \in 1 .. 8}
      BY DEF At
    <2>4. all[1] = "rip" /\ \A k \in 1 .. 7 : all[k + 1] = some[k]
      OBVIOUS
    <2> HIDE DEF all, some
    <2> QED
      BY <2>1, <2>2, <2>3, <2>4
  <1>5. /\ [at |-> 0, reg |-> <<"rip">>] \in At(0, all) /\ [at |-> 8, reg |-> <<"rsp">>] \in At(0, all)
        /\ [at |-> 32, reg |-> <<"r12">>] \in At(0, all)
    BY <1>3
  <1>6. \A r \in saved \cup {<<"rip">>} : \E k \in 1 .. 8 : r = <<all[k]>>
    OBVIOUS
  <1>7. LoadsCover(m, saved)
    <2> HIDE DEF all, saved
    <2> QED
      BY <1>1, <1>3, <1>4, <1>6 DEF LoadsCover
  <1>8. Roles(m, saved) /\ saved \cap ThreadBlock = {} /\ m.entry # m.sp
    BY <1>1, <1>2 DEF Roles, ThreadBlock
  <1>9. /\ Table(m.stores, 0, 64) /\ m.loads = m.stores
        /\ m.made = {Word(0, Code("asm_entry")), Word(8, <<"its", m.sp>>), Word(32, Code("co_entry"))}
        /\ [at |-> 0, reg |-> m.pc] \in m.stores /\ [at |-> 8, reg |-> m.sp] \in m.stores
        /\ [at |-> 32, reg |-> m.entry] \in m.stores
    BY <1>1, <1>3, <1>4, <1>5 DEF Reg
  <1> HIDE DEF m, all, some, saved
  <1>10. Fits(m, saved)
    BY <1>7, <1>8, <1>9, PlainFits, Zenon
  <1> QED
    BY <1>1, <1>10 DEF m

LEMMA Aarch64Fits == Fits(aarch64, CalleeSaved("aarch64"))
  <1> DEFINE m == aarch64
             x == Numbered(0, "x", 19, 30)
             d == Numbered(7 * 16, "d", 8, 15)
             names == <<"sp", "pc">>
             special == At(6 * 16, names)
             saved == {<<"x", k>> : k \in 19 .. 29} \cup {<<"sp">>} \cup {<<"d", k>> : k \in 8 .. 15}
  <1>1. /\ m.stores = x \cup d \cup special /\ m.loads = m.stores
        /\ m.made = {Word(104, Code("asm_entry")), Word(96, Reg("sp")), Word(8, Code("co_entry"))}
        /\ m.pc = <<"pc">> /\ m.sp = <<"sp">> /\ m.entry = <<"x", 20>> /\ m.stored = m.ret
        /\ CalleeSaved("aarch64") = saved
    BY DEF aarch64, CalleeSaved
  <1>2. /\ Table(x, 0, 96) /\ \A k \in 19 .. 30 : [at |-> 8 * (k - 19), reg |-> <<"x", k>>] \in x
        /\ \A p \in x : \E k \in 19 .. 30 : p.reg = <<"x", k>>
    <2>1. Table(x, 0, 0 + 8 * (30 + 1 - 19))
      BY Numbers
    <2>2. \A k \in 19 .. 30 : [at |-> 0 + 8 * (k - 19), reg |-> <<"x", k>>] \in x
      BY Numbers
    <2>3. \A p \in x : \E k \in 19 .. 30 : p.reg = <<"x", k>>
      BY Numbers
    <2> QED
      BY <2>1, <2>2, <2>3
  <1>3. /\ Table(d, 112, 176) /\ \A k \in 8 .. 15 : \E p \in d : p.reg = <<"d", k>>
        /\ \A p \in d : \E k \in 8 .. 15 : p.reg = <<"d", k>>
    <2>1. Table(d, 7 * 16, 7 * 16 + 8 * (15 + 1 - 8))
      BY Numbers
    <2>2. \A k \in 8 .. 15 : [at |-> 7 * 16 + 8 * (k - 8), reg |-> <<"d", k>>] \in d
      BY Numbers
    <2>3. \A p \in d : \E k \in 8 .. 15 : p.reg = <<"d", k>>
      BY Numbers
    <2> QED
      BY <2>1, <2>2, <2>3
  <1>4. /\ Table(special, 96, 112) /\ special = {[at |-> 96, reg |-> <<"sp">>], [at |-> 104, reg |-> <<"pc">>]}
    BY DEF At, Table
  <1> HIDE DEF x, d, special
  <1>5. Table(m.stores, 0, 176)
    <2>1. Table(x \cup special, 0, 112)
      <3>1. \A p \in x, q \in special : p.reg # q.reg
        BY <1>2, <1>4, Parts
      <3> QED
        BY <1>2, <1>4, <3>1, Joined
    <2>2. \A p \in x \cup special, q \in d : p.reg # q.reg
      BY <1>2, <1>3, <1>4, Parts
    <2>3. Table((x \cup special) \cup d, 0, 176)
      BY <1>3, <2>1, <2>2, Joined
    <2>4. m.stores = (x \cup special) \cup d
      BY <1>1
    <2> QED
      BY <2>3, <2>4
  <1>6. /\ [at |-> 104, reg |-> m.pc] \in m.stores /\ [at |-> 96, reg |-> m.sp] \in m.stores
        /\ [at |-> 8, reg |-> m.entry] \in m.stores
    BY <1>1, <1>2, <1>4
  <1>7. LoadsCover(m, saved)
    <2>1. \A k \in 19 .. 29 : \E p \in m.loads : p.reg = <<"x", k>>
      BY <1>1, <1>2
    <2>2. \A k \in 8 .. 15 : \E p \in m.loads : p.reg = <<"d", k>>
      BY <1>1, <1>3
    <2>3. (\E p \in m.loads : p.reg = <<"sp">>) /\ \E p \in m.loads : p.reg = <<"pc">>
      BY <1>1, <1>6
    <2>4. \A r \in saved \cup {<<"pc">>} :
            \/ \E k \in 19 .. 29 : r = <<"x", k>>
            \/ \E k \in 8 .. 15 : r = <<"d", k>>
            \/ r = <<"sp">> \/ r = <<"pc">>
      OBVIOUS
    <2> HIDE DEF m, saved
    <2>5. \A r \in saved \cup {m.pc} : \E p \in m.loads : p.reg = r
      <3> SUFFICES ASSUME NEW r \in saved \cup {<<"pc">>} PROVE \E p \in m.loads : p.reg = r
        BY <1>1
      <3>1. CASE \E k \in 19 .. 29 : r = <<"x", k>>
        BY <2>1, <3>1
      <3>2. CASE \E k \in 8 .. 15 : r = <<"d", k>>
        BY <2>2, <3>2
      <3>3. CASE r = <<"sp">> \/ r = <<"pc">>
        BY <2>3, <3>3
      <3> QED
        BY <2>4, <3>1, <3>2, <3>3
    <2> QED
      BY <2>5 DEF LoadsCover
  <1>8. Roles(m, saved) /\ saved \cap ThreadBlock = {} /\ m.entry # m.sp
    BY <1>1 DEF Roles, ThreadBlock
  <1>9. m.made = {Word(104, Code("asm_entry")), Word(96, <<"its", m.sp>>), Word(8, Code("co_entry"))}
    BY <1>1 DEF Reg
  <1> HIDE DEF m, saved
  <1>10. Fits(m, saved)
    BY <1>1, <1>5, <1>6, <1>7, <1>8, <1>9, PlainFits, Zenon
  <1> QED
    BY <1>1, <1>10 DEF m

LEMMA RiscvFits ==
  ASSUME NEW doubles \in BOOLEAN
  PROVE  Fits(riscv64(doubles), CalleeSaved(IF doubles THEN "riscv64" ELSE "riscv64_soft"))
  <1> DEFINE m == riscv64(doubles)
             s == Numbered(0, "s", 0, 11)
             fs == IF doubles THEN Numbered(\h78, "fs", 0, 11) ELSE {}
             names == <<"ra", "pc", "sp">>
             special == At(\h60, names)
             saved == {<<"s", k>> : k \in 0 .. 11} \cup {<<"sp">>}
                        \cup (IF doubles THEN {<<"fs", k>> : k \in 0 .. 11} ELSE {})
  <1>1. /\ m.stores = s \cup special \cup fs /\ m.loads = m.stores
        /\ m.made = {Word(104, Code("asm_entry")), Word(112, Reg("sp")), Word(8, Code("co_entry"))}
        /\ m.pc = <<"pc">> /\ m.sp = <<"sp">> /\ m.entry = <<"s", 1>> /\ m.stored = m.ret
    BY DEF riscv64
  <1>2. CalleeSaved(IF doubles THEN "riscv64" ELSE "riscv64_soft") = saved
    BY DEF CalleeSaved
  <1>3. /\ Table(s, 0, 96) /\ \A k \in 0 .. 11 : [at |-> 8 * k, reg |-> <<"s", k>>] \in s
        /\ \A p \in s : \E k \in 0 .. 11 : p.reg = <<"s", k>>
    <2>1. Table(s, 0, 0 + 8 * (11 + 1 - 0))
      BY Numbers
    <2>2. \A k \in 0 .. 11 : [at |-> 0 + 8 * (k - 0), reg |-> <<"s", k>>] \in s
      BY Numbers
    <2>3. \A p \in s : \E k \in 0 .. 11 : p.reg = <<"s", k>>
      BY Numbers
    <2> QED
      BY <2>1, <2>2, <2>3
  <1>4. /\ Table(fs, 120, 216)
        /\ doubles => \A k \in 0 .. 11 : \E p \in fs : p.reg = <<"fs", k>>
        /\ \A p \in fs : \E k \in 0 .. 11 : p.reg = <<"fs", k>>
    <2> DEFINE full == Numbered(\h78, "fs", 0, 11)
    <2>1. Table(full, 120, 120 + 8 * (11 + 1 - 0))
      BY Numbers
    <2>2. \A k \in 0 .. 11 : [at |-> 120 + 8 * (k - 0), reg |-> <<"fs", k>>] \in full
      BY Numbers
    <2>3. \A p \in full : \E k \in 0 .. 11 : p.reg = <<"fs", k>>
      BY Numbers
    <2>4. Table({}, 120, 216)
      BY DEF Table
    <2> HIDE DEF full
    <2>5. \A k \in 0 .. 11 : \E p \in full : p.reg = <<"fs", k>>
      BY <2>2
    <2>6. fs = IF doubles THEN full ELSE {}
      BY DEF full
    <2> QED
      BY <2>1, <2>3, <2>4, <2>5, <2>6
  <1>5. /\ Table(special, 96, 120)
        /\ special = {[at |-> 96, reg |-> <<"ra">>], [at |-> 104, reg |-> <<"pc">>],
                      [at |-> 112, reg |-> <<"sp">>]}
    BY DEF At, Table
  <1> HIDE DEF s, fs, special
  <1>6. Table(m.stores, 0, 216)
    <2>1. Table(s \cup special, 0, 120)
      <3>1. \A p \in s, q \in special : p.reg # q.reg
        BY <1>3, <1>5, Parts
      <3> QED
        BY <1>3, <1>5, <3>1, Joined
    <2>2. \A p \in s \cup special, q \in fs : p.reg # q.reg
      BY <1>3, <1>4, <1>5, Parts
    <2>3. Table((s \cup special) \cup fs, 0, 216)
      BY <1>4, <2>1, <2>2, Joined
    <2> QED
      BY <1>1, <2>3
  <1>7. /\ [at |-> 104, reg |-> m.pc] \in m.stores /\ [at |-> 112, reg |-> m.sp] \in m.stores
        /\ [at |-> 8, reg |-> m.entry] \in m.stores
    BY <1>1, <1>3, <1>5
  <1>8. LoadsCover(m, saved)
    <2>1. \A k \in 0 .. 11 : \E p \in m.loads : p.reg = <<"s", k>>
      BY <1>1, <1>3
    <2>2. doubles => \A k \in 0 .. 11 : \E p \in m.loads : p.reg = <<"fs", k>>
      BY <1>1, <1>4
    <2>3. (\E p \in m.loads : p.reg = <<"sp">>) /\ \E p \in m.loads : p.reg = <<"pc">>
      BY <1>1, <1>7
    <2>4. \A r \in saved \cup {<<"pc">>} :
            \/ \E k \in 0 .. 11 : r = <<"s", k>>
            \/ doubles /\ \E k \in 0 .. 11 : r = <<"fs", k>>
            \/ r = <<"sp">> \/ r = <<"pc">>
      OBVIOUS
    <2> HIDE DEF m, saved
    <2>5. \A r \in saved \cup {m.pc} : \E p \in m.loads : p.reg = r
      <3> SUFFICES ASSUME NEW r \in saved \cup {<<"pc">>} PROVE \E p \in m.loads : p.reg = r
        BY <1>1
      <3>1. CASE \E k \in 0 .. 11 : r = <<"s", k>>
        BY <2>1, <3>1
      <3>2. CASE doubles /\ \E k \in 0 .. 11 : r = <<"fs", k>>
        BY <2>2, <3>2
      <3>3. CASE r = <<"sp">> \/ r = <<"pc">>
        BY <2>3, <3>3
      <3> QED
        BY <2>4, <3>1, <3>2, <3>3
    <2> QED
      BY <2>5 DEF LoadsCover
  <1>9. Roles(m, saved) /\ saved \cap ThreadBlock = {} /\ m.entry # m.sp
    BY <1>1 DEF Roles, ThreadBlock
  <1>10. m.made = {Word(104, Code("asm_entry")), Word(112, <<"its", m.sp>>), Word(8, Code("co_entry"))}
    BY <1>1 DEF Reg
  <1> HIDE DEF m, saved
  <1>11. Fits(m, saved)
    BY <1>1, <1>6, <1>7, <1>8, <1>9, <1>10, PlainFits, Zenon
  <1> QED
    BY <1>2, <1>11 DEF m

LEMMA WindowsFits == Fits(amd64_windows, CalleeSaved("amd64_windows"))
  <1> DEFINE m == amd64_windows
             names == <<"rsp", "rbp", "rbx", "r12", "r13", "r14", "r15", "rdi", "rsi">>
             block == <<"fiber_storage", "dealloc_stack", "stack_limit", "stack_base">>
             rip == At(0, <<"rip">>)
             whole == At(8, names)
             xmm == Xmm(\h50, 6, 15)
             teb == At(\hf0, block)
             saved == {<<r>> : r \in {"rsp", "rbp", "rbx", "r12", "r13", "r14", "r15", "rdi", "rsi"}}
                        \cup {<<"xmm", k, h>> : k \in 6 .. 15, h \in 0 .. 1} \cup ThreadBlock
  <1>1. /\ m.stores = rip \cup (whole \cup xmm \cup teb) /\ m.loads = whole \cup xmm \cup teb \cup rip
        /\ m.made = {Word(0, Code("asm_entry")), Word(8, Reg("rsp")), Word(32, Code("co_entry")),
                     Word(\hf8, Reg("dealloc_stack")), Word(\h100, Reg("stack_limit")),
                     Word(\h108, Reg("stack_base"))}
        /\ m.pc = <<"rip">> /\ m.sp = <<"rsp">> /\ m.entry = <<"r12">>
    BY DEF amd64_windows
  <1>2. m.stored = m.ret
    BY DEF amd64_windows
  <1>3. CalleeSaved("amd64_windows") = saved
    BY DEF CalleeSaved
  <1>4. Table(rip, 0, 8) /\ rip = {[at |-> 0, reg |-> <<"rip">>]}
    BY DEF At, Table
  <1>5. /\ Table(whole, 8, 80) /\ \A k \in 1 .. 9 : [at |-> 8 + 8 * (k - 1), reg |-> <<names[k]>>] \in whole
        /\ \A p \in whole : \E k \in 1 .. 9 : p.reg = <<names[k]>>
    <2>1. DOMAIN names = 1 .. 9 /\ \A j, k \in 1 .. 9 : names[j] = names[k] => j = k
      OBVIOUS
    <2>2. 8 \in Int /\ 9 \in Nat
      OBVIOUS
    <2> HIDE DEF names
    <2>3. Table(whole, 8, 8 + 8 * 9)
      BY <2>1, <2>2, Names, Zenon
    <2>4. /\ \A k \in 1 .. 9 : [at |-> 8 + 8 * (k - 1), reg |-> <<names[k]>>] \in whole
          /\ \A p \in whole : \E k \in 1 .. 9 : p.reg = <<names[k]>>
      BY <2>1, <2>2, Names, Zenon
    <2> QED
      BY <2>3, <2>4
  <1>6. /\ Table(xmm, 80, 240) /\ Lists(xmm, {<<"xmm", k, h>> : k \in 6 .. 15, h \in 0 .. 1})
        /\ \A p \in xmm : \E k \in 6 .. 15, h \in 0 .. 1 : p.reg = <<"xmm", k, h>>
    <2>1. 80 \in Int /\ 6 \in Int /\ 15 \in Int /\ 6 <= 15
      OBVIOUS
    <2>2. DoublesTable(80, 6, 15)
      BY <2>1, Doubles, Zenon
    <2> HIDE DEF xmm
    <2>3. xmm = Xmm(80, 6, 15)
      BY DEF xmm
    <2>4. Table(xmm, 80, 80 + 16 * (15 + 1 - 6)) /\ Lists(xmm, {<<"xmm", k, h>> : k \in 6 .. 15, h \in 0 .. 1})
      BY <2>2, <2>3 DEF DoublesTable
    <2>5. \A p \in xmm : \E k \in 6 .. 15, h \in 0 .. 1 : p.reg = <<"xmm", k, h>>
      BY <2>2, <2>3 DEF DoublesTable
    <2> QED
      BY <2>4, <2>5
  <1>7. /\ Table(teb, 240, 272)
        /\ teb = {[at |-> 240, reg |-> <<"fiber_storage">>], [at |-> 248, reg |-> <<"dealloc_stack">>],
                  [at |-> 256, reg |-> <<"stack_limit">>], [at |-> 264, reg |-> <<"stack_base">>]}
    BY DEF At, Table
  <1>8. \A p \in whole : p.reg \notin ThreadBlock /\ p.reg # <<"rip">>
    BY <1>5 DEF ThreadBlock
  <1> HIDE DEF rip, whole, xmm, teb
  <1>9. Table(m.stores, 0, 272) /\ m.loads = m.stores
    <2>1. Table(rip \cup whole, 0, 80)
      BY <1>4, <1>5, <1>8, Joined
    <2>2. \A p \in rip \cup whole, q \in xmm : p.reg # q.reg
      BY <1>4, <1>5, <1>6, Parts
    <2>3. Table((rip \cup whole) \cup xmm, 0, 240)
      BY <1>6, <2>1, <2>2, Joined
    <2>4. \A p \in (rip \cup whole) \cup xmm, q \in teb : p.reg # q.reg
      <3>1. \A p \in xmm, q \in teb : p.reg # q.reg
        BY <1>6, <1>7, Parts
      <3>2. \A q \in teb : q.reg \in ThreadBlock
        BY <1>7 DEF ThreadBlock
      <3>3. \A p \in rip, q \in teb : p.reg # q.reg
        BY <1>4, <1>7
      <3> QED
        BY <1>8, <3>1, <3>2, <3>3
    <2>5. Table(((rip \cup whole) \cup xmm) \cup teb, 0, 272)
      BY <1>7, <2>3, <2>4, Joined
    <2>6. m.stores = ((rip \cup whole) \cup xmm) \cup teb
      BY <1>1
    <2> QED
      BY <1>1, <2>5, <2>6
  <1>10. /\ [at |-> 0, reg |-> <<"rip">>] \in m.stores /\ [at |-> 8, reg |-> <<"rsp">>] \in m.stores
         /\ [at |-> 32, reg |-> <<"r12">>] \in m.stores
         /\ [at |-> 240, reg |-> <<"fiber_storage">>] \in m.stores
         /\ [at |-> 248, reg |-> <<"dealloc_stack">>] \in m.stores
         /\ [at |-> 256, reg |-> <<"stack_limit">>] \in m.stores
         /\ [at |-> 264, reg |-> <<"stack_base">>] \in m.stores
    <2>1. names[1] = "rsp" /\ names[4] = "r12"
      OBVIOUS
    <2> HIDE DEF m, names
    <2>2. [at |-> 8, reg |-> <<"rsp">>] \in whole /\ [at |-> 32, reg |-> <<"r12">>] \in whole
      BY <1>5, <2>1
    <2> QED
      BY <1>1, <1>4, <1>7, <2>2
  <1>11. \A p \in m.loads :
           /\ p.reg = <<"rip">> => p.at = 0
           /\ p.reg = <<"rsp">> => p.at = 8
           /\ p.reg = <<"r12">> => p.at = 32
           /\ p.reg = <<"fiber_storage">> => p.at = 240
           /\ p.reg = <<"dealloc_stack">> => p.at = 248
           /\ p.reg = <<"stack_limit">> => p.at = 256
           /\ p.reg = <<"stack_base">> => p.at = 264
    <2> HIDE DEF m
    <2> QED
      BY <1>9, <1>10 DEF Table
  <1>12. LoadsCover(m, saved)
    <2>1. \A r \in saved \cup {<<"rip">>} :
            \/ \E k \in 1 .. 9 : r = <<names[k]>>
            \/ r \in {<<"xmm", k, h>> : k \in 6 .. 15, h \in 0 .. 1}
            \/ r \in ThreadBlock \/ r = <<"rip">>
      OBVIOUS
    <2> HIDE DEF m, saved, names
    <2>2. \A r \in saved \cup {m.pc} : \E p \in m.loads : p.reg = r
      <3> SUFFICES ASSUME NEW r \in saved \cup {<<"rip">>} PROVE \E p \in m.loads : p.reg = r
        BY <1>1
      <3>1. CASE \E k \in 1 .. 9 : r = <<names[k]>>
        BY <1>1, <1>5, <3>1
      <3>2. CASE r \in {<<"xmm", k, h>> : k \in 6 .. 15, h \in 0 .. 1}
        BY <1>1, <1>6, <3>2 DEF Lists
      <3>3. CASE r \in ThreadBlock \/ r = <<"rip">>
        BY <1>9, <1>10, <3>3 DEF ThreadBlock
      <3> QED
        BY <2>1, <3>1, <3>2, <3>3
    <2> QED
      BY <2>2 DEF LoadsCover
  <1>13. MadeOnce(m)
    BY <1>1 DEF MadeOnce, Word
  <1>14. Roles(m, saved)
    <2>1. <<"rip">> \notin saved
      BY DEF ThreadBlock
    <2> QED
      BY <1>1, <1>2, <2>1 DEF Roles, ThreadBlock
  <1>15. MadeWords(m, saved)
    <2> HIDE DEF m, saved
    <2> SUFFICES ASSUME NEW p \in m.loads
                 PROVE  /\ p.reg = m.pc => Word(p.at, Code("asm_entry")) \in m.made
                        /\ p.reg = m.entry => Word(p.at, Code("co_entry")) \in m.made
                        /\ p.reg \in saved \cap (ThreadBlock \cup {m.sp}) =>
                             IF p.reg = <<"fiber_storage">> THEN \A v \in m.made : v.at # p.at
                                                            ELSE Word(p.at, <<"its", p.reg>>) \in m.made
      BY DEF MadeWords
    <2>1. p.reg = m.pc => Word(p.at, Code("asm_entry")) \in m.made
      BY <1>1, <1>11
    <2>2. p.reg = m.entry => Word(p.at, Code("co_entry")) \in m.made
      BY <1>1, <1>11
    <2>3. p.reg = <<"fiber_storage">> => \A v \in m.made : v.at # p.at
      BY <1>1, <1>11 DEF Word
    <2>4. p.reg \in {<<"rsp">>, <<"dealloc_stack">>, <<"stack_limit">>, <<"stack_base">>} =>
            Word(p.at, <<"its", p.reg>>) \in m.made
      BY <1>1, <1>11 DEF Reg
    <2> QED
      BY <1>1, <2>1, <2>2, <2>3, <2>4 DEF ThreadBlock
  <1> HIDE DEF m, saved
  <1>16. Fits(m, saved)
    BY <1>9, <1>12, <1>13, <1>14, <1>15 DEF Fits, Table, StoresFit, LoadsFit, StoresCover
  <1> QED
    BY <1>3, <1>16 DEF m

LEMMA MachinesFit == \A a \in Archs : Fits(Machine(a), CalleeSaved(a))
  <1>1. Fits(riscv64(TRUE), CalleeSaved("riscv64")) /\ Fits(riscv64(FALSE), CalleeSaved("riscv64_soft"))
    BY RiscvFits
  <1> QED
    BY <1>1, SysvFits, WindowsFits, Aarch64Fits DEF Archs, Machine, riscv64_hard, riscv64_soft

-----------------------------------------------------------------------------
(* The steps.                                                              *)

LEMMA FitHere == CInv => Fit
  BY MachinesFit DEF CInv, RegistersInv, Fit

\* The machine stays, and with it what its registers have to be.
LEMMA SameMachine ==
  ASSUME arch' = arch
  PROVE  /\ \A r, x : Runs(r, x)' <=> Runs(r, x)
         /\ \A r, x : Begins(r, x)' <=> Begins(r, x)
         /\ \A context, x : Holds(context, x)' <=> Holds(context, x)
  BY DEF Runs, Begins, Holds, PC, SP, ReturnPC

\* All threads but t, and all contexts but from and to, keep what they have.
LEMMA RegistersStep ==
  ASSUME CInv, arch' = arch, NEW t \in Threads,
         DOMAIN regs' = Threads, DOMAIN mem' = Contexts,
         \A u \in Threads \ {t} : /\ regs'[u] = regs[u] /\ stack'[u] = stack[u]
                                  /\ Beginning(u)' = Beginning(u),
         NEW r, r = regs'[t], NEW to, to = stack'[t],
         IF Beginning(t)' THEN Begins(r, to) ELSE Runs(r, to),
         \A x \in Contexts : resume'[x] # "nowhere" =>
           \E context : context = mem'[x] /\ Holds(context, x)
  PROVE  RegistersInv'
  <1>1. /\ \A q, x : Runs(q, x)' <=> Runs(q, x)
        /\ \A q, x : Begins(q, x)' <=> Begins(q, x)
        /\ \A context, x : Holds(context, x)' <=> Holds(context, x)
    BY SameMachine
  <1>2. ASSUME NEW u \in Threads PROVE IF Beginning(u)' THEN Begins(regs[u], stack[u])' ELSE Runs(regs[u], stack[u])'
    <2> PICK q : q = regs'[u]
      OBVIOUS
    <2> PICK y : y = stack'[u]
      OBVIOUS
    <2>1. IF Beginning(u)' THEN Begins(q, y) ELSE Runs(q, y)
      <3>1. CASE u = t
        BY <3>1
      <3>2. CASE u # t
        <4>1. q = regs[u] /\ y = stack[u] /\ Beginning(u)' = Beginning(u)
          BY <3>2
        <4>2. IF Beginning(u) THEN Begins(regs[u], stack[u]) ELSE Runs(regs[u], stack[u])
          BY DEF CInv, RegistersInv
        <4> QED
          BY <4>1, <4>2
      <3> QED
        BY <3>1, <3>2
    <2>2. IF Beginning(u)' THEN Begins(q, y)' ELSE Runs(q, y)'
      BY <1>1, <2>1
    <2> QED
      BY <2>2 DEF Begins, Runs
  <1>3. ASSUME NEW x \in Contexts, resume'[x] # "nowhere" PROVE Holds(mem[x], x)'
    <2>1. PICK context : context = mem'[x] /\ Holds(context, x)
      BY <1>3
    <2>2. Holds(context, x)'
      BY <1>1, <2>1
    <2> QED
      BY <2>1, <2>2 DEF Holds
  <1>4. arch' \in Archs
    BY DEF CInv, RegistersInv
  <1> QED
    BY <1>2, <1>3, <1>4 DEF RegistersInv

\* A switch to a context whose words hold its registers, or to one that was made.
LEMMA AsmSwitchInv ==
  ASSUME CInv, arch' = arch, NEW t \in Threads, NEW to, NEW at, NEW there, NEW context,
         Leaves(t, at, to, there), AsmSwitch(t, context),
         IF there \in {"entry", "entry_wrap"} THEN to \in Cos /\ context = Fresh(to)
                                              ELSE Holds(context, to)
  PROVE  RegistersInv'
  <1>1. Fit /\ IInv /\ RegistersInv /\ TypeOK
    BY FitHere DEF CInv, IInv
  <1>2. Client(t) /\ From(t) = stack[t] /\ stack[t] \in Contexts /\ to \in Cos \cup {t} /\ to # stack[t]
    BY <1>1, FromIsStack DEF Leaves
  <1>3. /\ stack' = [stack EXCEPT ![t] = to]
        /\ resume' = [resume EXCEPT ![stack[t]] = at, ![to] = "nowhere"]
        /\ pc' = [pc EXCEPT ![t] = there]
    BY <1>2 DEF Leaves, Transfer
  <1>4. /\ DOMAIN regs = Threads /\ DOMAIN mem = Contexts
        /\ stack \in [Threads -> Contexts] /\ resume \in [Contexts -> {"nowhere", "switch0", "fast"}]
        /\ pc \in [Threads -> {"client", "switch0", "fast", "entry", "entry_wrap"}]
    BY <1>1 DEF RegistersInv, TypeOK
  <1>5. PICK r : r = Loaded(regs[t], context)
    OBVIOUS
  <1>6. PICK left : left = Stored(stack[t], regs[t], stack[t])
    OBVIOUS
  <1>7. regs' = [regs EXCEPT ![t] = r] /\ mem' = [mem EXCEPT ![stack[t]] = left]
    BY <1>2, <1>5, <1>6 DEF AsmSwitch
  <1>8. Holds(left, stack[t])
    <2>1. ~Beginning(t)
      BY <1>2 DEF Client, Beginning
    <2>2. Runs(regs[t], stack[t])
      BY <1>1, <2>1 DEF RegistersInv
    <2> QED
      BY <1>1, <1>6, <2>2, LeftHolds
  <1>9. Beginning(t)' <=> there \in {"entry", "entry_wrap"}
    BY <1>3, <1>4 DEF Beginning
  <1>10. IF Beginning(t)' THEN Begins(r, to) ELSE Runs(r, to)
    BY <1>1, <1>5, <1>9, LoadedBegins, LoadedRuns
  <1>11. \A u \in Threads \ {t} : /\ regs'[u] = regs[u] /\ stack'[u] = stack[u]
                                  /\ Beginning(u)' = Beginning(u)
    BY <1>3, <1>4, <1>7 DEF Beginning
  <1>12. ASSUME NEW x \in Contexts, resume'[x] # "nowhere"
         PROVE  \E words : words = mem'[x] /\ Holds(words, x)
    <2>1. CASE x = stack[t]
      BY <1>4, <1>7, <1>8, <2>1
    <2>2. CASE x # stack[t]
      <3>1. x # to /\ resume[x] # "nowhere" /\ mem'[x] = mem[x]
        BY <1>3, <1>4, <1>7, <1>12, <2>2, <1>2 DEF Contexts
      <3>2. Holds(mem[x], x)
        BY <1>1, <3>1 DEF RegistersInv
      <3> QED
        BY <3>1, <3>2
    <2> QED
      BY <2>1, <2>2
  <1>13. DOMAIN regs' = Threads /\ DOMAIN mem' = Contexts /\ r = regs'[t] /\ to = stack'[t]
    BY <1>3, <1>4, <1>7
  <1> QED
    BY <1>10, <1>11, <1>12, <1>13, RegistersStep

LEMMA CStartInv ==
  ASSUME CInv, arch' = arch, NEW t \in Threads, NEW c \in Cos, NEW final \in BOOLEAN, CStart(t, c, final)
  PROVE  RegistersInv'
  <1>1. Leaves(t, "switch0", c, "entry")
    BY StartLeaves DEF CInv, CStart
  <1> QED
    BY <1>1, AsmSwitchInv DEF CStart

LEMMA CSwitchInv ==
  ASSUME CInv, arch' = arch, NEW t \in Threads, NEW to \in Cos \cup {t},
         \/ \E final \in BOOLEAN : CSwitchSlow(t, to, final)
         \/ to \in Cos /\ CSwitchFast(t, to)
  PROVE  RegistersInv'
  <1>1. PICK at : Leaves(t, at, to, resume[to]) /\ resume[to] \in {"switch0", "fast"}
    BY SwitchSlowLeaves, SwitchFastLeaves DEF CInv, CSwitchSlow, CSwitchFast
  <1>2. AsmSwitch(t, mem[to])
    BY DEF CSwitchSlow, CSwitchFast
  <1>3. Holds(mem[to], to)
    BY <1>1 DEF CInv, RegistersInv, Contexts
  <1> QED
    BY <1>1, <1>2, <1>3, AsmSwitchInv

LEMMA CEntryWrapInv ==
  ASSUME CInv, arch' = arch, NEW t \in Threads, CEntryWrap(t)
  PROVE  RegistersInv'
  <1>1. Fit /\ IInv /\ RegistersInv /\ TypeOK
    BY FitHere DEF CInv, IInv
  <1>2. /\ DOMAIN regs = Threads /\ DOMAIN mem = Contexts
        /\ pc \in [Threads -> {"client", "switch0", "fast", "entry", "entry_wrap"}]
    BY <1>1 DEF RegistersInv, TypeOK
  <1>3. Begins(regs[t], stack[t])
    BY <1>1 DEF RegistersInv, Beginning, CEntryWrap, EntryWrap
  <1>4. PICK r : r = [q \in Registers |->
                        IF q \in ThreadBlock \cup {SP} THEN regs[t][q]
                        ELSE IF q = PC THEN ReturnPC(stack[t]) ELSE Own(stack[t], q)]
    OBVIOUS
  <1>5. Runs(r, stack[t])
    <2>1. PC \notin ThreadBlock \cup {SP}
      BY <1>1 DEF Fit, Fits, Roles, PC, SP
    <2>2. r[PC] = ReturnPC(stack[t])
      BY <1>1, <1>4, <2>1, Switched
    <2>3. ASSUME NEW q \in CalleeSaved(arch) PROVE r[q] = Own(stack[t], q)
      <3>1. q \in Registers /\ q # PC
        BY <1>1, Switched
      <3>2. q \in ThreadBlock \cup {SP} => regs[t][q] = Own(stack[t], q)
        BY <1>3 DEF Begins
      <3> QED
        BY <1>4, <3>1, <3>2
    <2> QED
      BY <2>2, <2>3 DEF Runs
  <1>6. /\ regs' = [regs EXCEPT ![t] = r] /\ mem' = mem
        /\ stack' = stack /\ resume' = resume /\ pc' = [pc EXCEPT ![t] = "client"]
    BY <1>4 DEF CEntryWrap, EntryWrap
  <1>7. ~Beginning(t)' /\ \A u \in Threads \ {t} : /\ regs'[u] = regs[u] /\ stack'[u] = stack[u]
                                                  /\ Beginning(u)' = Beginning(u)
    BY <1>2, <1>6 DEF Beginning
  <1>8. \A x \in Contexts : resume'[x] # "nowhere" => \E context : context = mem'[x] /\ Holds(context, x)
    BY <1>1, <1>6 DEF RegistersInv
  <1>9. DOMAIN regs' = Threads /\ DOMAIN mem' = Contexts /\ r = regs'[t]
    BY <1>2, <1>6
  <1>10. PICK to : to = stack[t]
    OBVIOUS
  <1> QED
    BY <1>5, <1>6, <1>7, <1>8, <1>9, <1>10, RegistersStep

\* Nothing is switched.
LEMMA CSameInv ==
  ASSUME CInv, UNCHANGED <<arch, regs, mem, stack, resume>>,
         \A t \in Threads : Beginning(t)' = Beginning(t)
  PROVE  RegistersInv'
  BY DEF CInv, RegistersInv, Begins, Runs, Holds, PC, SP, ReturnPC

LEMMA CNextRefines == [CNext]_cvars => [Next]_vars
  BY DEF CNext, cvars, Next, CStart, CSwitchSlow, CSwitchFast, CEntryWrap

LEMMA CNextInv ==
  ASSUME CInv, [CNext]_cvars
  PROVE  CInv'
  <1>1. IInv'
    <2>1. IInv
      BY DEF CInv
    <2>2. [Next]_vars
      BY CNextRefines
    <2> QED
      BY <2>1, <2>2, NextIInv
  <1>2. TypeOK
    BY DEF CInv, IInv
  <1>3. ASSUME UNCHANGED cvars PROVE RegistersInv'
    BY <1>3, CSameInv DEF cvars, vars, switching, Beginning
  <1>4. ASSUME arch' = arch, NEW t \in Threads, NEW c \in Cos, NEW final \in BOOLEAN, CStart(t, c, final)
        PROVE  RegistersInv'
    BY <1>4, CStartInv
  <1>5. ASSUME arch' = arch, NEW t \in Threads, NEW to \in Cos \cup {t}, NEW final \in BOOLEAN,
               CSwitchSlow(t, to, final)
        PROVE  RegistersInv'
    BY <1>5, CSwitchInv
  <1>6. ASSUME arch' = arch, NEW t \in Threads, NEW to \in Cos, CSwitchFast(t, to)
        PROVE  RegistersInv'
    BY <1>6, CSwitchInv
  <1>7. ASSUME arch' = arch, NEW t \in Threads, CEntryWrap(t) PROVE RegistersInv'
    BY <1>7, CEntryWrapInv
  <1>8. ASSUME arch' = arch, NEW t \in Threads,
               DeferCall(t) \/ DeferDone(t) \/ EntryReturns(t) \/ StackTooSmall(t) \/ GuardAborts(t),
               UNCHANGED <<regs, mem>>
        PROVE  RegistersInv'
    <2>1. UNCHANGED <<stack, resume>>
      BY <1>8 DEF DeferCall, DeferDone, EntryReturns, StackTooSmall, GuardAborts, End, switching
    <2>2. \A u \in Threads : Beginning(u)' = Beginning(u)
      BY <1>2, <1>8 DEF TypeOK, Beginning, DeferCall, DeferDone, DeferLast, EntryReturns, StackTooSmall,
                        GuardAborts, End
    <2> QED
      BY <1>8, <2>1, <2>2, CSameInv
  <1>9. ASSUME CNext PROVE RegistersInv'
    <2>1. arch' = arch
      BY <1>9 DEF CNext
    <2>2. PICK t \in Threads :
            \/ \E c \in Cos, final \in BOOLEAN : CStart(t, c, final)
            \/ \E to \in Cos \cup {t}, final \in BOOLEAN : CSwitchSlow(t, to, final)
            \/ \E to \in Cos : CSwitchFast(t, to)
            \/ CEntryWrap(t)
            \/ /\ DeferCall(t) \/ DeferDone(t) \/ EntryReturns(t) \/ StackTooSmall(t) \/ GuardAborts(t)
               /\ UNCHANGED <<regs, mem>>
      BY <1>9 DEF CNext
    <2> QED
      BY <1>4, <1>5, <1>6, <1>7, <1>8, <2>1, <2>2
  <1> QED
    BY <1>1, <1>3, <1>9 DEF CInv

LEMMA CInitInv == CInit => CInv
  <1> SUFFICES ASSUME CInit PROVE CInv
    OBVIOUS
  <1>1. IInv
    BY InitIInv DEF CInit
  <1>2. arch \in Archs /\ DOMAIN regs = Threads /\ DOMAIN mem = Contexts
    BY DEF CInit
  <1>3. Fit
    BY <1>2, MachinesFit DEF Fit
  <1>4. \A t \in Threads : ~Beginning(t) /\ stack[t] = t
    BY DEF CInit, Init, Beginning
  <1>5. \A x \in Contexts : resume[x] = "nowhere"
    BY DEF CInit, Init
  <1>6. ASSUME NEW t \in Threads PROVE Runs(regs[t], stack[t])
    <2>1. regs[t] = [r \in Registers |-> IF r = PC THEN ReturnPC(t) ELSE Own(t, r)]
      BY DEF CInit
    <2> QED
      BY <1>3, <1>4, <2>1, Switched DEF Runs
  <1> QED
    BY <1>1, <1>2, <1>4, <1>5, <1>6 DEF CInv, RegistersInv

\* The inductive invariant of the coroutines with their registers: the words of a
\* suspended context hold what it has to find, on any machine.
THEOREM ContextInvariant == CSpec => []CInv
  <1>1. CInit => CInv
    BY CInitInv
  <1>2. CInv /\ [CNext]_cvars => CInv'
    BY CNextInv
  <1> QED
    BY <1>1, <1>2, PTL DEF CSpec

\* The coroutines with their registers are the coroutines.
THEOREM ContextsAreCoroutines == CSpec => Spec
  <1>1. CInit => Init
    BY DEF CInit
  <1>2. [CNext]_cvars => [Next]_vars
    BY CNextRefines
  <1> QED
    BY <1>1, <1>2, PTL DEF CSpec, Spec

\* Whatever thread a context goes on, it finds the registers a call preserves and the
\* place it left, and a new coroutine finds its own stack and the entry function.
THEOREM RegistersAreKept == CSpec => []RegistersSurvive
  <1>1. ASSUME CInv PROVE RegistersSurvive
    <2>1. Fit /\ RegistersInv
      BY <1>1, FitHere DEF CInv
    <2>2. \A t \in Threads : Beginning(t) => regs[t][SP] = <<stack[t], SP>>
      <3>1. SP \in CalleeSaved(arch) /\ SP # <<"fiber_storage">>
        BY <2>1 DEF Fit, Fits, Roles, SP
      <3> QED
        BY <2>1, <3>1 DEF RegistersInv, Begins, Own
    <2> QED
      BY <2>1, <2>2 DEF RegistersInv, Begins, Runs, Beginning, RegistersSurvive
  <1> QED
    BY <1>1, ContextInvariant, PTL
=============================================================================
