------------------------------ MODULE ScoProofs ------------------------------
(***************************************************************************)
(* Proofs about Sco, for any threads, coroutines and shards: counters,     *)
(* linked lists and trees in shared memory are the queues and sets of      *)
(* Scheduler, so what is proved about Scheduler holds here too.            *)
(*                                                                         *)
(* The inductive invariant, CInv, says of every thread which queues and    *)
(* sets its links are (Keeps), of the detached coroutines the same, and of *)
(* those that have finished that nothing is linked to their nodes any      *)
(* more; the rest is the invariant of Scheduler.  An operator is described *)
(* by what it does to the scheduler that the memory stands for and by the  *)
(* addresses it writes to (Goes); as no two threads have a coroutine in    *)
(* common these addresses are another thread's never (OwnApart), so that   *)
(* what the other threads and the maps stand for is left as it was.        *)
(*                                                                         *)
(* Of the variables and constants that come with AATreeProofs, root, keys  *)
(* and MaxKey have no part in this.                                        *)
(***************************************************************************)
EXTENDS Sco, AATreeProofs, FiniteSetTheorems, SequenceTheorems, WellFoundedInduction, TLAPS

S == INSTANCE SchedulerProofs WITH sched <- Sched, detached <- Detached

-----------------------------------------------------------------------------
(* Addresses and what is at them.                                          *)

Addr == CoNodes \cup Ends \cup Nowhere

Memories == [prev : [Addr -> Addr], next : [Addr -> Addr], level : [CoNodes -> Nat]]

NodesOf(ids) == {Node(co) : co \in ids}
EndsOf(t) == {Front(t, list) : list \in Lists} \cup {Back(t, list) : list \in Lists}

LEMMA NodeFacts ==
  ASSUME NEW c, NEW d, NEW t, NEW list
  PROVE  /\ Node(c)[1] = c /\ (Node(c) = Node(d) => c = d)
         /\ Node(c) # Front(t, list) /\ Node(c) # Back(t, list)
         /\ Node(c) \notin Nowhere
         /\ Front(t, list) \notin Nowhere /\ Back(t, list) \notin Nowhere
<1>1. Len(<<c>>) = 1 /\ Len(<<t, list, "head">>) = 3 /\ Len(<<t, list, "tail">>) = 3
  OBVIOUS
<1>2. Len(<<>>) = 0 /\ Len(<<NONE, NONE>>) = 2
  OBVIOUS
<1>3. <<c>>[1] = c /\ <<d>>[1] = d
  OBVIOUS
<1> QED BY <1>1, <1>2, <1>3 DEF Node, Front, Back, Nowhere, NULL, FREED

LEMMA EndFacts ==
  ASSUME NEW t, NEW list, NEW u, NEW other
  PROVE  /\ Front(t, list) # Back(u, other)
         /\ Front(t, list) = Front(u, other) => t = u /\ list = other
         /\ Back(t, list) = Back(u, other) => t = u /\ list = other
  BY DEF Front, Back

LEMMA AddressFacts ==
  ASSUME NEW t \in Threads, NEW list \in Lists, NEW co \in Ids
  PROVE  /\ Node(co) \in CoNodes /\ Node(co) \in Addr
         /\ Front(t, list) \in Addr /\ Back(t, list) \in Addr
         /\ Front(t, list) \notin CoNodes /\ Back(t, list) \notin CoNodes
         /\ Front(t, list) \in EndsOf(t) /\ Back(t, list) \in EndsOf(t)
  BY NodeFacts DEF Addr, CoNodes, Ends, EndsOf

LEMMA NowhereFacts == NULL \in Addr /\ FREED \in Addr /\ NULL \notin CoNodes /\ FREED \notin CoNodes
  BY NodeFacts DEF Addr, CoNodes, Nowhere

LEMMA SetsApart ==
  ASSUME NEW t \in Threads, NEW ids
  PROVE  /\ NodesOf(ids) \cap EndsOf(t) = {} /\ NodesOf(ids) \cap Nowhere = {} /\ EndsOf(t) \cap Nowhere = {}
         /\ \A u \in Threads \ {t} : EndsOf(t) \cap EndsOf(u) = {}
         /\ \A more : ids \cap more = {} => NodesOf(ids) \cap NodesOf(more) = {}
<1>1. NodesOf(ids) \cap EndsOf(t) = {} /\ NodesOf(ids) \cap Nowhere = {} /\ EndsOf(t) \cap Nowhere = {}
  BY NodeFacts DEF NodesOf, EndsOf
<1>2. ASSUME NEW u \in Threads \ {t} PROVE EndsOf(t) \cap EndsOf(u) = {}
  BY EndFacts DEF EndsOf
<1>3. ASSUME NEW more, ids \cap more = {} PROVE NodesOf(ids) \cap NodesOf(more) = {}
  BY <1>3, NodeFacts DEF NodesOf
<1> QED BY <1>1, <1>2, <1>3

\* Two memories are the same outside of the addresses A.
SameOutside(m, r, A) ==
  /\ \A n \in Addr \ A : r.prev[n] = m.prev[n] /\ r.next[n] = m.next[n]
  /\ \A n \in CoNodes \ A : r.level[n] = m.level[n]

LEMMA SameTwice ==
  ASSUME NEW m, NEW r, NEW z, NEW A, NEW B, SameOutside(m, r, A), SameOutside(r, z, B)
  PROVE  SameOutside(m, z, A \cup B)
  BY DEF SameOutside

LEMMA SameWider ==
  ASSUME NEW m, NEW r, NEW A, NEW B, SameOutside(m, r, A), A \subseteq B
  PROVE  SameOutside(m, r, B)
  BY DEF SameOutside

-----------------------------------------------------------------------------
(* Writing into the memory, a link or the two of a node at a time.          *)

NextSet(m, n, x) == [m EXCEPT !.next[n] = x]
PrevSet(m, n, x) == [m EXCEPT !.prev[n] = x]

LEMMA NextSetIs ==
  ASSUME NEW m \in Memories, NEW n \in Addr, NEW x \in Addr
  PROVE  /\ NextSet(m, n, x) \in Memories
         /\ NextSet(m, n, x).prev = m.prev /\ NextSet(m, n, x).level = m.level
         /\ NextSet(m, n, x).next = [m.next EXCEPT ![n] = x]
<1> DEFINE f == [m.next EXCEPT ![n] = x]
<1>1. m.next \in [Addr -> Addr] /\ m.prev \in [Addr -> Addr] /\ m.level \in [CoNodes -> Nat]
      /\ m = [prev |-> m.prev, next |-> m.next, level |-> m.level]
  BY DEF Memories
<1>2. f \in [Addr -> Addr]
  BY <1>1
<1>3. NextSet(m, n, x) = [m EXCEPT !.next = f]
  BY DEF NextSet
<1> HIDE DEF f
<1>4. [m EXCEPT !.next = f] = [prev |-> m.prev, next |-> f, level |-> m.level]
  BY <1>1
<1> QED BY <1>1, <1>2, <1>3, <1>4 DEF Memories, f

LEMMA PrevSetIs ==
  ASSUME NEW m \in Memories, NEW n \in Addr, NEW x \in Addr
  PROVE  /\ PrevSet(m, n, x) \in Memories
         /\ PrevSet(m, n, x).next = m.next /\ PrevSet(m, n, x).level = m.level
         /\ PrevSet(m, n, x).prev = [m.prev EXCEPT ![n] = x]
<1> DEFINE f == [m.prev EXCEPT ![n] = x]
<1>1. m.next \in [Addr -> Addr] /\ m.prev \in [Addr -> Addr] /\ m.level \in [CoNodes -> Nat]
      /\ m = [prev |-> m.prev, next |-> m.next, level |-> m.level]
  BY DEF Memories
<1>2. f \in [Addr -> Addr]
  BY <1>1
<1>3. PrevSet(m, n, x) = [m EXCEPT !.prev = f]
  BY DEF PrevSet
<1> HIDE DEF f
<1>4. [m EXCEPT !.prev = f] = [prev |-> f, next |-> m.next, level |-> m.level]
  BY <1>1
<1> QED BY <1>1, <1>2, <1>3, <1>4 DEF Memories, f

LEMMA SelfLinkedIs ==
  ASSUME NEW m, NEW n
  PROVE  SelfLinked(m, n) = NextSet(PrevSet(m, n, n), n, n)
  BY DEF SelfLinked, NextSet, PrevSet

-----------------------------------------------------------------------------
(* What the operations on lists write, address by address.                 *)

LEMMA ListEnds ==
  ASSUME NEW t \in Threads
  PROVE  /\ Front(t, "runners") \in Addr \ CoNodes /\ Back(t, "runners") \in Addr \ CoNodes
         /\ Front(t, "yielders") \in Addr \ CoNodes /\ Back(t, "yielders") \in Addr \ CoNodes
<1>1. "runners" \in Lists /\ "yielders" \in Lists
  BY DEF Lists
<1>2. \A list \in Lists : Front(t, list) \in Ends /\ Back(t, list) \in Ends
  BY DEF Ends
<1>3. \A list \in Lists : Front(t, list) \notin CoNodes /\ Back(t, list) \notin CoNodes
  BY NodeFacts DEF CoNodes
<1>4. \A list \in Lists : Front(t, list) \in Addr \ CoNodes /\ Back(t, list) \in Addr \ CoNodes
  BY <1>2, <1>3 DEF Addr
<1> QED BY <1>1, <1>4

\* The node n between end and back.
LastLinked(m, r, end, n, back) ==
  /\ r \in Memories /\ r.level = m.level
  /\ \A a \in Addr : r.next[a] = IF a = n THEN back ELSE IF a = end THEN n ELSE m.next[a]
  /\ \A a \in Addr : r.prev[a] = IF a = back THEN n ELSE IF a = n THEN end ELSE m.prev[a]

LEMMA LinkLastIs ==
  ASSUME NEW m \in Memories, NEW t \in Threads, NEW list \in Lists, NEW co \in Ids,
         m.prev[Back(t, list)] # Node(co)
  PROVE  LastLinked(m, LinkLast(m, t, list, co), m.prev[Back(t, list)], Node(co), Back(t, list))
<1> PICK back \in Addr : back = Back(t, list)
  BY AddressFacts
<1> PICK n \in Addr : n = Node(co) /\ n # back
  BY AddressFacts, NodeFacts
<1> PICK end \in Addr : end = m.prev[back] /\ end # n
  BY DEF Memories
<1> PICK a : a = NextSet(m, end, n)
  OBVIOUS
<1> PICK b : b = PrevSet(a, n, end)
  OBVIOUS
<1> PICK c : c = NextSet(b, n, back)
  OBVIOUS
<1> PICK d : d = PrevSet(c, back, n)
  OBVIOUS
<1>1. b = [m EXCEPT !.next[m.prev[back]] = n, !.prev[n] = m.prev[back]]
  BY DEF NextSet, PrevSet
<1>2. d = LinkLast(m, t, list, co)
  BY <1>1 DEF LinkLast, NextSet, PrevSet
<1>3. /\ a \in Memories /\ a.prev = m.prev /\ a.level = m.level
      /\ a.next = [m.next EXCEPT ![end] = n]
  BY NextSetIs
<1>4. /\ b \in Memories /\ b.next = a.next /\ b.level = a.level
      /\ b.prev = [a.prev EXCEPT ![n] = end]
  BY <1>3, PrevSetIs
<1>5. /\ c \in Memories /\ c.prev = b.prev /\ c.level = b.level
      /\ c.next = [b.next EXCEPT ![n] = back]
  BY <1>4, NextSetIs
<1>6. /\ d \in Memories /\ d.next = c.next /\ d.level = c.level
      /\ d.prev = [c.prev EXCEPT ![back] = n]
  BY <1>5, PrevSetIs
<1>7. m.next \in [Addr -> Addr] /\ m.prev \in [Addr -> Addr]
  BY DEF Memories
<1>8. \A x \in Addr : d.next[x] = IF x = n THEN back ELSE IF x = end THEN n ELSE m.next[x]
  BY <1>3, <1>4, <1>5, <1>6, <1>7
<1>9. \A x \in Addr : d.prev[x] = IF x = back THEN n ELSE IF x = n THEN end ELSE m.prev[x]
  BY <1>3, <1>4, <1>5, <1>6, <1>7
<1> QED BY <1>2, <1>3, <1>4, <1>5, <1>6, <1>8, <1>9 DEF LastLinked

\* The node n taken out from between p and x.
Unlinked(m, r, p, n, x) ==
  /\ r \in Memories /\ r.level = m.level
  /\ \A a \in Addr : r.next[a] = IF a = n THEN n ELSE IF a = p THEN x ELSE m.next[a]
  /\ \A a \in Addr : r.prev[a] = IF a = n THEN n ELSE IF a = x THEN p ELSE m.prev[a]

LEMMA RemoveIs ==
  ASSUME NEW m \in Memories, NEW n \in Addr
  PROVE  Unlinked(m, Remove(m, n), m.prev[n], n, m.next[n])
<1> PICK p \in Addr : p = m.prev[n]
  BY DEF Memories
<1> PICK x \in Addr : x = m.next[n]
  BY DEF Memories
<1>0. m.next \in [Addr -> Addr] /\ m.prev \in [Addr -> Addr]
  BY DEF Memories
<1>a. PICK a : a = NextSet(m, p, x)
  OBVIOUS
<1>1. /\ a \in Memories /\ a.prev = m.prev /\ a.level = m.level
      /\ a.next = [m.next EXCEPT ![p] = x]
  BY <1>a, NextSetIs
<1>2. a.next[n] = x /\ a.prev[n] = p
  BY <1>0, <1>1
<1>b. PICK b : b = PrevSet(a, x, p)
  OBVIOUS
<1>3. /\ b \in Memories /\ b.next = a.next /\ b.level = a.level
      /\ b.prev = [a.prev EXCEPT ![x] = p]
  BY <1>1, <1>b, PrevSetIs
<1>c. PICK c : c = PrevSet(b, n, n)
  OBVIOUS
<1>4. /\ c \in Memories /\ c.next = b.next /\ c.level = b.level
      /\ c.prev = [b.prev EXCEPT ![n] = n]
  BY <1>3, <1>c, PrevSetIs
<1>d. PICK d : d = NextSet(c, n, n)
  OBVIOUS
<1>5. /\ d \in Memories /\ d.prev = c.prev /\ d.level = c.level
      /\ d.next = [c.next EXCEPT ![n] = n]
  BY <1>4, <1>d, NextSetIs
<1>6. a = [m EXCEPT !.next[m.prev[n]] = m.next[n]] /\ b = [a EXCEPT !.prev[a.next[n]] = a.prev[n]]
  BY <1>2, <1>a, <1>b DEF NextSet, PrevSet
<1>7. d = Remove(m, n)
  BY <1>6, <1>c, <1>d, SelfLinkedIs DEF Remove
<1>8. \A y \in Addr : d.next[y] = IF y = n THEN n ELSE IF y = p THEN x ELSE m.next[y]
  <2>1. d.next = [[m.next EXCEPT ![p] = x] EXCEPT ![n] = n]
    BY <1>1, <1>3, <1>4, <1>5
  <2> QED BY <1>0, <2>1
<1>9. \A y \in Addr : d.prev[y] = IF y = n THEN n ELSE IF y = x THEN p ELSE m.prev[y]
  <2>1. d.prev = [[m.prev EXCEPT ![x] = p] EXCEPT ![n] = n]
    BY <1>1, <1>3, <1>4, <1>5
  <2> QED BY <1>0, <2>1
<1>10. d.level = m.level
  BY <1>1, <1>3, <1>4, <1>5
<1>11. Unlinked(m, d, p, n, x)
  BY <1>5, <1>8, <1>9, <1>10 DEF Unlinked
<1> QED BY <1>7, <1>11

IsSelfLinked(m, n) == m.prev[n] = n /\ m.next[n] = n

LEMMA RemoveNothing ==
  ASSUME NEW m \in Memories, NEW n \in Addr, IsSelfLinked(m, n)
  PROVE  Remove(m, n) = m
<1> PICK r : r = Remove(m, n)
  OBVIOUS
<1>1. Unlinked(m, r, n, n, n)
  BY RemoveIs DEF IsSelfLinked
<1>2. \A a \in Addr : r.next[a] = m.next[a] /\ r.prev[a] = m.prev[a]
  BY <1>1 DEF Unlinked, IsSelfLinked
<1>3. r \in Memories /\ r.level = m.level
  BY <1>1 DEF Unlinked
<1>4. /\ m.next \in [Addr -> Addr] /\ m.prev \in [Addr -> Addr]
      /\ r.next \in [Addr -> Addr] /\ r.prev \in [Addr -> Addr]
      /\ m = [prev |-> m.prev, next |-> m.next, level |-> m.level]
      /\ r = [prev |-> r.prev, next |-> r.next, level |-> r.level]
  BY <1>3 DEF Memories
<1>5. r.next = m.next /\ r.prev = m.prev
  BY <1>2, <1>4
<1> QED BY <1>3, <1>4, <1>5

\* The chain from i to j hung from the ends fy and by to the ends fr and br.
Hung(m, r, fr, br, fy, by, i, j) ==
  /\ r \in Memories /\ r.level = m.level
  /\ \A a \in Addr : r.next[a] = IF a = fy THEN by ELSE IF a = j THEN br
                                 ELSE IF a = fr THEN i ELSE m.next[a]
  /\ \A a \in Addr : r.prev[a] = IF a = by THEN fy ELSE IF a = br THEN j
                                 ELSE IF a = i THEN fr ELSE m.prev[a]

\* One link of n written, to x.
NextWritten(m, r, n, x) ==
  /\ r \in Memories /\ r.level = m.level /\ r.prev = m.prev
  /\ \A a \in Addr : r.next[a] = IF a = n THEN x ELSE m.next[a]

PrevWritten(m, r, n, x) ==
  /\ r \in Memories /\ r.level = m.level /\ r.next = m.next
  /\ \A a \in Addr : r.prev[a] = IF a = n THEN x ELSE m.prev[a]

LEMMA NextIsWritten ==
  ASSUME NEW m \in Memories, NEW n \in Addr, NEW x \in Addr
  PROVE  NextWritten(m, NextSet(m, n, x), n, x)
<1> PICK r : r = NextSet(m, n, x)
  OBVIOUS
<1>1. m.next \in [Addr -> Addr]
  BY DEF Memories
<1>2. /\ r \in Memories /\ r.prev = m.prev /\ r.level = m.level
      /\ r.next = [m.next EXCEPT ![n] = x]
  BY NextSetIs
<1>3. \A a \in Addr : r.next[a] = IF a = n THEN x ELSE m.next[a]
  BY <1>1, <1>2
<1>4. NextWritten(m, r, n, x)
  BY <1>2, <1>3 DEF NextWritten
<1> QED BY <1>4

LEMMA PrevIsWritten ==
  ASSUME NEW m \in Memories, NEW n \in Addr, NEW x \in Addr
  PROVE  PrevWritten(m, PrevSet(m, n, x), n, x)
<1> PICK r : r = PrevSet(m, n, x)
  OBVIOUS
<1>1. m.prev \in [Addr -> Addr]
  BY DEF Memories
<1>2. /\ r \in Memories /\ r.next = m.next /\ r.level = m.level
      /\ r.prev = [m.prev EXCEPT ![n] = x]
  BY PrevSetIs
<1>3. \A a \in Addr : r.prev[a] = IF a = n THEN x ELSE m.prev[a]
  BY <1>1, <1>2
<1>4. PrevWritten(m, r, n, x)
  BY <1>2, <1>3 DEF PrevWritten
<1> QED BY <1>4

LEMMA SpliceIs ==
  ASSUME NEW m \in Memories, NEW t \in Threads, NEW i \in CoNodes, NEW j \in CoNodes,
         i = m.next[Front(t, "yielders")], j = m.prev[Back(t, "yielders")]
  PROVE  Hung(m, Splice(m, t), Front(t, "runners"), Back(t, "runners"),
              Front(t, "yielders"), Back(t, "yielders"), i, j)
<1>0. i \in Addr /\ j \in Addr
  BY DEF Addr
<1> PICK fr \in Addr : fr = Front(t, "runners") /\ fr \notin CoNodes
  BY ListEnds
<1> PICK br \in Addr : br = Back(t, "runners") /\ br \notin CoNodes
  BY ListEnds
<1> PICK fy \in Addr : fy = Front(t, "yielders") /\ fy \notin CoNodes
  BY ListEnds
<1> PICK by \in Addr : by = Back(t, "yielders") /\ by \notin CoNodes
  BY ListEnds
<1>e. fr # br /\ fr # fy /\ br # by /\ fy # by
  <2>1. Front(t, "runners") # Front(t, "yielders") /\ Back(t, "runners") # Back(t, "yielders")
    BY EndFacts
  <2>2. Front(t, "runners") # Back(t, "runners") /\ Front(t, "yielders") # Back(t, "yielders")
    BY EndFacts
  <2> QED BY <2>1, <2>2
<1>pa. PICK a : a = NextSet(m, fr, i)
  OBVIOUS
<1>1. NextWritten(m, a, fr, i)
  BY <1>0, <1>pa, NextIsWritten
<1>1t. a \in Memories
  BY <1>1 DEF NextWritten
<1>pb. PICK b : b = PrevSet(a, i, fr)
  OBVIOUS
<1>2. PrevWritten(a, b, i, fr)
  BY <1>0, <1>1t, <1>pb, PrevIsWritten
<1>2t. b \in Memories
  BY <1>2 DEF PrevWritten
<1>pc. PICK c : c = PrevSet(b, br, j)
  OBVIOUS
<1>3. PrevWritten(b, c, br, j)
  BY <1>0, <1>2t, <1>pc, PrevIsWritten
<1>3t. c \in Memories
  BY <1>3 DEF PrevWritten
<1>pd. PICK d : d = NextSet(c, j, br)
  OBVIOUS
<1>4. NextWritten(c, d, j, br)
  BY <1>0, <1>3t, <1>pd, NextIsWritten
<1>4t. d \in Memories
  BY <1>4 DEF NextWritten
<1>pe. PICK e : e = NextSet(d, fy, by)
  OBVIOUS
<1>5. NextWritten(d, e, fy, by)
  BY <1>4t, <1>pe, NextIsWritten
<1>5t. e \in Memories
  BY <1>5 DEF NextWritten
<1>pf. PICK f : f = PrevSet(e, by, fy)
  OBVIOUS
<1>6. PrevWritten(e, f, by, fy)
  BY <1>5t, <1>pf, PrevIsWritten
<1>7. a.next[fr] = i
  BY <1>1 DEF NextWritten
<1>8. c.prev[br] = j
  BY <1>3 DEF PrevWritten
<1>9. a = [m EXCEPT !.next[fr] = m.next[fy]]
  BY <1>pa DEF NextSet
<1>10. c = [a EXCEPT !.prev[a.next[fr]] = fr, !.prev[br] = m.prev[by]]
  BY <1>7, <1>pb, <1>pc DEF PrevSet
<1>11. d = [c EXCEPT !.next[c.prev[br]] = br]
  BY <1>8, <1>pd DEF NextSet
<1>12. f = [d EXCEPT !.next[fy] = by, !.prev[by] = fy]
  BY <1>pe, <1>pf DEF NextSet, PrevSet
<1>s. f = Splice(m, t)
  <2>1. a = [m EXCEPT !.next[Front(t, "runners")] = m.next[Front(t, "yielders")]]
    BY <1>9
  <2>2. c = [a EXCEPT !.prev[a.next[Front(t, "runners")]] = Front(t, "runners"),
                      !.prev[Back(t, "runners")] = m.prev[Back(t, "yielders")]]
    BY <1>10
  <2>3. d = [c EXCEPT !.next[c.prev[Back(t, "runners")]] = Back(t, "runners")]
    BY <1>11
  <2>4. f = [d EXCEPT !.next[Front(t, "yielders")] = Back(t, "yielders"),
                      !.prev[Back(t, "yielders")] = Front(t, "yielders")]
    BY <1>12
  <2> QED BY <2>1, <2>2, <2>3, <2>4, Zenon DEF Splice
<1>13. \A y \in Addr : f.next[y] = IF y = fy THEN by ELSE IF y = j THEN br
                                   ELSE IF y = fr THEN i ELSE m.next[y]
  <2> SUFFICES ASSUME NEW y \in Addr
               PROVE  f.next[y] = IF y = fy THEN by ELSE IF y = j THEN br
                                  ELSE IF y = fr THEN i ELSE m.next[y]
    OBVIOUS
  <2>1. a.next[y] = IF y = fr THEN i ELSE m.next[y]
    BY <1>1 DEF NextWritten
  <2>2. c.next[y] = a.next[y]
    BY <1>2, <1>3 DEF PrevWritten
  <2>3. d.next[y] = IF y = j THEN br ELSE c.next[y]
    BY <1>4 DEF NextWritten
  <2>4. e.next[y] = IF y = fy THEN by ELSE d.next[y]
    BY <1>5 DEF NextWritten
  <2>5. f.next[y] = e.next[y]
    BY <1>6 DEF PrevWritten
  <2> QED BY <2>1, <2>2, <2>3, <2>4, <2>5
<1>14. \A y \in Addr : f.prev[y] = IF y = by THEN fy ELSE IF y = br THEN j
                                   ELSE IF y = i THEN fr ELSE m.prev[y]
  <2> SUFFICES ASSUME NEW y \in Addr
               PROVE  f.prev[y] = IF y = by THEN fy ELSE IF y = br THEN j
                                  ELSE IF y = i THEN fr ELSE m.prev[y]
    OBVIOUS
  <2>1. a.prev[y] = m.prev[y]
    BY <1>1 DEF NextWritten
  <2>2. b.prev[y] = IF y = i THEN fr ELSE a.prev[y]
    BY <1>2 DEF PrevWritten
  <2>3. c.prev[y] = IF y = br THEN j ELSE b.prev[y]
    BY <1>3 DEF PrevWritten
  <2>4. e.prev[y] = c.prev[y]
    <3>1. e.prev = d.prev
      BY <1>5 DEF NextWritten
    <3>2. d.prev = c.prev
      BY <1>4 DEF NextWritten
    <3> QED BY <3>1, <3>2
  <2>5. f.prev[y] = IF y = by THEN fy ELSE e.prev[y]
    BY <1>6 DEF PrevWritten
  <2> QED BY <2>1, <2>2, <2>3, <2>4, <2>5
<1>15. f \in Memories /\ f.level = m.level
  <2>1. f.level = e.level /\ f \in Memories
    BY <1>6 DEF PrevWritten
  <2>2. e.level = d.level /\ d.level = c.level
    BY <1>4, <1>5 DEF NextWritten
  <2>3. c.level = b.level /\ b.level = a.level
    BY <1>2, <1>3 DEF PrevWritten
  <2>4. a.level = m.level
    BY <1>1 DEF NextWritten
  <2> QED BY <2>1, <2>2, <2>3, <2>4
<1>16. Hung(m, f, fr, br, fy, by, i, j)
  BY <1>13, <1>14, <1>15 DEF Hung
<1> QED BY <1>s, <1>16

-----------------------------------------------------------------------------
(* A doubly linked list of the coroutines q, with its two ends.             *)

\* Where a walk along the list is after i steps.
Stop(t, list, q, i) ==
  IF i = 0 THEN Front(t, list) ELSE IF i = Len(q) + 1 THEN Back(t, list) ELSE Node(q[i])

Linked(m, t, list, q) ==
  \A i \in 0 .. Len(q) : /\ m.next[Stop(t, list, q, i)] = Stop(t, list, q, i + 1)
                         /\ m.prev[Stop(t, list, q, i + 1)] = Stop(t, list, q, i)

ListAddr(t, list, q) == NodesOf(S!Elems(q)) \cup {Front(t, list), Back(t, list)}

\* A queue, and a walk along it that comes nowhere twice.
Queue(q) == q \in Seq(Ids) /\ S!Once(q)

Walk(t, list, q) ==
  /\ \A i \in 0 .. Len(q) + 1 :
       /\ Stop(t, list, q, i) \in Addr /\ Stop(t, list, q, i) \in ListAddr(t, list, q)
       /\ Stop(t, list, q, i) = Front(t, list) => i = 0
       /\ Stop(t, list, q, i) = Back(t, list) => i = Len(q) + 1
       /\ \A co : Stop(t, list, q, i) = Node(co) => i \in 1 .. Len(q) /\ q[i] = co
  /\ \A i, j \in 0 .. Len(q) + 1 : Stop(t, list, q, i) = Stop(t, list, q, j) => i = j
  /\ Stop(t, list, q, 0) = Front(t, list) /\ Stop(t, list, q, Len(q) + 1) = Back(t, list)
  /\ \A i \in 1 .. Len(q) : Stop(t, list, q, i) = Node(q[i]) /\ q[i] \in Ids

LEMMA WalkIs ==
  ASSUME NEW t \in Threads, NEW list \in Lists, NEW q, Queue(q)
  PROVE  Walk(t, list, q)
<1> DEFINE at(i) == Stop(t, list, q, i)
<1>1. Len(q) \in Nat /\ DOMAIN q = 1 .. Len(q) /\ \A i \in 1 .. Len(q) : q[i] \in Ids
  BY DEF Queue
<1>2. at(0) = Front(t, list) /\ at(Len(q) + 1) = Back(t, list)
  BY <1>1 DEF Stop
<1>3. \A i \in 1 .. Len(q) : at(i) = Node(q[i])
  BY <1>1 DEF Stop
<1>4. \A i \in 0 .. Len(q) + 1 : i = 0 \/ i = Len(q) + 1 \/ i \in 1 .. Len(q)
  BY <1>1
<1>5. \A i, j \in 1 .. Len(q) : q[i] = q[j] => i = j
  BY <1>1 DEF Queue, S!Once
<1>6. Front(t, list) # Back(t, list)
  BY EndFacts
<1>7. \A co : Node(co) # Front(t, list) /\ Node(co) # Back(t, list)
  BY NodeFacts
<1>8. \A c, d : Node(c) = Node(d) => c = d
  BY NodeFacts
<1>9. \A i \in 1 .. Len(q) : Node(q[i]) \in Addr /\ Node(q[i]) \in NodesOf(S!Elems(q))
  BY <1>1, AddressFacts DEF NodesOf, S!Elems
<1>10. Front(t, list) \in Addr /\ Back(t, list) \in Addr
  BY DEF Addr, Ends
<1> HIDE DEF at
<1>11. \A i \in 0 .. Len(q) + 1 : at(i) \in Addr /\ at(i) \in ListAddr(t, list, q)
  BY <1>2, <1>3, <1>4, <1>9, <1>10 DEF ListAddr
<1>12. \A i \in 0 .. Len(q) + 1 :
         /\ at(i) = Front(t, list) => i = 0
         /\ at(i) = Back(t, list) => i = Len(q) + 1
         /\ \A co : at(i) = Node(co) => i \in 1 .. Len(q) /\ q[i] = co
  BY <1>2, <1>3, <1>4, <1>6, <1>7, <1>8
<1>13. \A i, j \in 0 .. Len(q) + 1 : at(i) = at(j) => i = j
  <2> SUFFICES ASSUME NEW i \in 0 .. Len(q) + 1, NEW j \in 0 .. Len(q) + 1, at(i) = at(j)
               PROVE  i = j
    OBVIOUS
  <2>1. CASE i = 0 \/ i = Len(q) + 1
    BY <2>1, <1>2, <1>12
  <2>2. CASE i \in 1 .. Len(q)
    <3>1. j \in 1 .. Len(q) /\ q[j] = q[i]
      BY <2>2, <1>3, <1>12
    <3> QED BY <2>2, <3>1, <1>5
  <2> QED BY <2>1, <2>2, <1>4
<1> QED BY <1>1, <1>2, <1>3, <1>11, <1>12, <1>13 DEF Walk, at

LEMMA LinkedKept ==
  ASSUME NEW t \in Threads, NEW list \in Lists, NEW q, Queue(q), NEW m, NEW r, NEW A,
         Linked(m, t, list, q), SameOutside(m, r, A), A \cap ListAddr(t, list, q) = {}
  PROVE  Linked(r, t, list, q)
<1>1. Walk(t, list, q)
  BY WalkIs
<1>2. Len(q) \in Nat
  BY DEF Queue
<1> SUFFICES ASSUME NEW i \in 0 .. Len(q)
             PROVE  /\ r.next[Stop(t, list, q, i)] = Stop(t, list, q, i + 1)
                    /\ r.prev[Stop(t, list, q, i + 1)] = Stop(t, list, q, i)
  BY DEF Linked
<1>3. i \in 0 .. Len(q) + 1 /\ i + 1 \in 0 .. Len(q) + 1
  BY <1>2
<1>4. Stop(t, list, q, i) \in Addr \ A /\ Stop(t, list, q, i + 1) \in Addr \ A
  BY <1>1, <1>3 DEF Walk
<1>5. /\ r.next[Stop(t, list, q, i)] = m.next[Stop(t, list, q, i)]
      /\ r.prev[Stop(t, list, q, i + 1)] = m.prev[Stop(t, list, q, i + 1)]
  BY <1>4 DEF SameOutside
<1> QED BY <1>5 DEF Linked

LEMMA AppendQueue ==
  ASSUME NEW q, Queue(q), NEW co \in Ids, co \notin S!Elems(q)
  PROVE  /\ Queue(Append(q, co)) /\ S!Elems(Append(q, co)) = S!Elems(q) \cup {co}
         /\ Len(Append(q, co)) = Len(q) + 1
<1>1. q \in Seq(Ids) /\ S!Once(q)
  BY DEF Queue
<1> QED BY <1>1, S!AppendFacts, AppendProperties DEF Queue, Ids, S!Ids

\* The coroutine co at the end of the list q.
Pushed(m, r, t, list, q, co) ==
  /\ r \in Memories
  /\ Linked(r, t, list, Append(q, co))
  /\ SameOutside(m, r, ListAddr(t, list, q) \cup {Node(co)})

LEMMA PushBackIs ==
  ASSUME NEW m \in Memories, NEW t \in Threads, NEW list \in Lists, NEW q, Queue(q),
         NEW co \in Ids, co \notin S!Elems(q), Linked(m, t, list, q), IsSelfLinked(m, Node(co))
  PROVE  Pushed(m, PushBack(m, t, list, co), t, list, q, co)
<1> PICK r : r = PushBack(m, t, list, co)
  OBVIOUS
<1> DEFINE at(i) == Stop(t, list, q, i)
           k == Append(q, co)
           to(i) == Stop(t, list, k, i)
           back == Back(t, list)
<1>1. Walk(t, list, q) /\ Len(q) \in Nat
  BY WalkIs DEF Queue
<1>2. \A i \in 1 .. Len(q) : q[i] # co
  BY DEF Queue, S!Elems
<1>3. Node(co) \in Addr
  BY AddressFacts
<1>4. r = LinkLast(m, t, list, co)
  BY <1>3, RemoveNothing DEF PushBack
<1>5. m.prev[back] = at(Len(q))
  BY <1>1 DEF Linked, Walk
<1>6. at(Len(q)) # Node(co)
  BY <1>1, <1>2 DEF Walk
<1>7. m.prev[back] # Node(co)
  BY <1>5, <1>6
<1>8. LastLinked(m, r, m.prev[back], Node(co), back)
  BY <1>4, <1>7, LinkLastIs
<1>9. LastLinked(m, r, at(Len(q)), Node(co), back)
  BY <1>5, <1>8
<1>10. r \in Memories /\ r.level = m.level
  BY <1>9 DEF LastLinked
<1>11. /\ \A a \in Addr : r.next[a] = IF a = Node(co) THEN back ELSE IF a = at(Len(q)) THEN Node(co) ELSE m.next[a]
       /\ \A a \in Addr : r.prev[a] = IF a = back THEN Node(co) ELSE IF a = Node(co) THEN at(Len(q)) ELSE m.prev[a]
  BY <1>9 DEF LastLinked
<1>12. \A i \in 0 .. Len(q) + 1 : at(i) \in Addr /\ at(i) # Node(co)
  BY <1>1, <1>2 DEF Walk
<1>13. at(0) = Front(t, list) /\ at(Len(q) + 1) = back /\ back \in Addr
  BY <1>1, AddressFacts DEF Walk
<1>14. Len(k) = Len(q) + 1 /\ k[Len(q) + 1] = co /\ \A i \in 1 .. Len(q) : k[i] = q[i]
  BY <1>1 DEF Queue
<1>15. /\ \A i \in 0 .. Len(q) : to(i) = at(i)
       /\ to(Len(q) + 1) = Node(co) /\ to(Len(q) + 2) = back
  BY <1>1, <1>14 DEF Stop
<1>16. \A i \in 0 .. Len(q) : at(i) # back /\ (i # Len(q) => at(i) # at(Len(q)))
  BY <1>1, <1>13 DEF Walk
<1>17. \A i \in 0 .. Len(q) : m.next[at(i)] = at(i + 1) /\ m.prev[at(i + 1)] = at(i)
  BY DEF Linked
<1>18. Node(co) # back
  BY NodeFacts
<1> HIDE DEF at, to, k, back
<1>19. ASSUME NEW i \in 0 .. Len(q) - 1
       PROVE  r.next[to(i)] = to(i + 1) /\ r.prev[to(i + 1)] = to(i)
  <2>1. i \in 0 .. Len(q) /\ i + 1 \in 0 .. Len(q) /\ i # Len(q)
    BY <1>1
  <2>2. to(i) = at(i) /\ to(i + 1) = at(i + 1)
    BY <2>1, <1>15
  <2>3. r.next[at(i)] = m.next[at(i)]
    BY <1>11, <1>12, <1>16, <2>1
  <2>4. r.prev[at(i + 1)] = m.prev[at(i + 1)]
    BY <1>11, <1>12, <1>16, <2>1
  <2> QED BY <2>1, <2>2, <2>3, <2>4, <1>17
<1>20. r.next[to(Len(q))] = to(Len(q) + 1) /\ r.prev[to(Len(q) + 1)] = to(Len(q))
  <2>1. to(Len(q)) = at(Len(q)) /\ at(Len(q)) \in Addr /\ at(Len(q)) # Node(co)
    BY <1>1, <1>12, <1>15
  <2> QED BY <2>1, <1>3, <1>11, <1>15, <1>18
<1>21. r.next[to(Len(q) + 1)] = to(Len(q) + 2) /\ r.prev[to(Len(q) + 2)] = to(Len(q) + 1)
  BY <1>3, <1>11, <1>13, <1>15
<1>22. \A i \in 0 .. Len(k) : r.next[to(i)] = to(i + 1) /\ r.prev[to(i + 1)] = to(i)
  <2> SUFFICES ASSUME NEW i \in 0 .. Len(q) + 1
               PROVE  r.next[to(i)] = to(i + 1) /\ r.prev[to(i + 1)] = to(i)
    BY <1>14
  <2>1. i \in 0 .. Len(q) - 1 \/ i = Len(q) \/ (i = Len(q) + 1 /\ i + 1 = Len(q) + 2)
    BY <1>1
  <2> QED BY <2>1, <1>19, <1>20, <1>21
<1>23. Linked(r, t, list, k)
  BY <1>22 DEF Linked, to
<1>24. SameOutside(m, r, ListAddr(t, list, q) \cup {Node(co)})
  <2>1. at(Len(q)) \in ListAddr(t, list, q) /\ back \in ListAddr(t, list, q)
    BY <1>1 DEF Walk, at, ListAddr, back
  <2> QED BY <1>10, <1>11, <2>1 DEF SameOutside
<1>25. Pushed(m, r, t, list, q, co)
  BY <1>10, <1>23, <1>24 DEF Pushed, k
<1> QED BY <1>25

\* The first coroutine taken out of the list q.
Popped(m, r, t, list, q) ==
  /\ r \in Memories
  /\ Linked(r, t, list, Tail(q))
  /\ IsSelfLinked(r, Node(Head(q)))
  /\ SameOutside(m, r, ListAddr(t, list, q))

LEMMA FirstOf ==
  ASSUME NEW m, NEW t \in Threads, NEW list \in Lists, NEW q, Queue(q), q # <<>>, Linked(m, t, list, q)
  PROVE  m.next[Front(t, list)] = Node(Head(q))
<1>1. Len(q) \in Nat /\ Len(q) # 0 /\ Head(q) = q[1]
  BY DEF Queue
<1>2. Stop(t, list, q, 0) = Front(t, list) /\ Stop(t, list, q, 1) = Node(q[1])
  BY <1>1 DEF Stop
<1> QED BY <1>1, <1>2, 0 \in 0 .. Len(q), 0 + 1 = 1 DEF Linked

LEMMA PopIs ==
  ASSUME NEW m \in Memories, NEW t \in Threads, NEW list \in Lists, NEW q, Queue(q), q # <<>>,
         Linked(m, t, list, q)
  PROVE  Popped(m, Remove(m, Node(Head(q))), t, list, q)
<1> DEFINE at(i) == Stop(t, list, q, i)
           k == Tail(q)
           to(i) == Stop(t, list, k, i)
<1> PICK n : n = Node(Head(q))
  OBVIOUS
<1> PICK r : r = Remove(m, n)
  OBVIOUS
<1>1. Len(q) \in Nat /\ Len(q) >= 1 /\ Head(q) = q[1] /\ q \in Seq(Ids)
  BY DEF Queue
<1>2. Walk(t, list, q)
  BY WalkIs
<1>3. \A i \in 0 .. Len(q) : m.next[at(i)] = at(i + 1) /\ m.prev[at(i + 1)] = at(i)
  BY DEF Linked
<1>4. /\ at(1) = n /\ at(0) = Front(t, list) /\ at(Len(q) + 1) = Back(t, list)
      /\ \A i \in 0 .. Len(q) + 1 : at(i) \in Addr /\ at(i) \in ListAddr(t, list, q)
      /\ \A i, j \in 0 .. Len(q) + 1 : at(i) = at(j) => i = j
  BY <1>1, <1>2 DEF Walk
<1>5. Len(k) = Len(q) - 1 /\ \A i \in 1 .. Len(q) - 1 : k[i] = q[i + 1]
  BY <1>1
<1>6. to(0) = at(0) /\ \A i \in 1 .. Len(q) : to(i) = at(i + 1)
  <2>1. to(0) = at(0)
    BY DEF Stop
  <2>2. ASSUME NEW i \in 1 .. Len(q) PROVE to(i) = at(i + 1)
    <3>1. i # 0 /\ i + 1 # 0 /\ (i = Len(q) - 1 + 1 <=> i + 1 = Len(q) + 1)
      BY <1>1
    <3>2. CASE i = Len(q)
      <4>1. to(i) = Back(t, list)
        BY <1>1, <1>5, <3>1, <3>2 DEF Stop
      <4>2. at(i + 1) = Back(t, list)
        BY <1>1, <3>1, <3>2 DEF Stop
      <4> QED BY <4>1, <4>2
    <3>3. CASE i # Len(q)
      <4>1. i \in 1 .. Len(q) - 1 /\ i # Len(q) - 1 + 1 /\ i + 1 # Len(q) + 1
        BY <1>1, <3>3
      <4>2. to(i) = Node(k[i])
        BY <1>5, <3>1, <4>1 DEF Stop
      <4>3. at(i + 1) = Node(q[i + 1])
        BY <3>1, <4>1 DEF Stop
      <4> QED BY <1>5, <4>1, <4>2, <4>3
    <3> QED BY <3>2, <3>3
  <2> QED BY <2>1, <2>2
<1> HIDE DEF at, to, k
<1>7. m.prev[n] = at(0) /\ m.next[n] = at(2) /\ n \in Addr
  BY <1>1, <1>3, <1>4, 0 \in 0 .. Len(q), 1 \in 0 .. Len(q), 0 + 1 = 1, 1 + 1 = 2
<1>8. Unlinked(m, r, at(0), n, at(2))
  BY <1>7, RemoveIs
<1>9. r \in Memories /\ r.level = m.level
  BY <1>8 DEF Unlinked
<1>10. /\ \A a \in Addr : r.next[a] = IF a = n THEN n ELSE IF a = at(0) THEN at(2) ELSE m.next[a]
       /\ \A a \in Addr : r.prev[a] = IF a = n THEN n ELSE IF a = at(2) THEN at(0) ELSE m.prev[a]
  BY <1>8 DEF Unlinked
<1>11. IsSelfLinked(r, n)
  BY <1>7, <1>10 DEF IsSelfLinked
<1>12. SameOutside(m, r, ListAddr(t, list, q))
  <2>1. n \in ListAddr(t, list, q) /\ at(0) \in ListAddr(t, list, q) /\ at(2) \in ListAddr(t, list, q)
    BY <1>1, <1>4
  <2> QED BY <1>9, <1>10, <2>1 DEF SameOutside
<1>13. r.next[to(0)] = to(1) /\ r.prev[to(1)] = to(0)
  <2>1. to(1) = at(2) /\ to(0) = at(0)
    BY <1>1, <1>6
  <2>2. at(0) # n /\ at(2) # n /\ at(0) \in Addr /\ at(2) \in Addr
    BY <1>1, <1>4
  <2> QED BY <1>10, <2>1, <2>2
<1>14. ASSUME NEW i \in 1 .. Len(q) - 1
       PROVE  r.next[to(i)] = to(i + 1) /\ r.prev[to(i + 1)] = to(i)
  <2>1. i + 1 \in 2 .. Len(q) /\ i + 2 \in 3 .. Len(q) + 1
    BY <1>1
  <2>2. to(i) = at(i + 1) /\ to(i + 1) = at(i + 2)
    BY <1>1, <1>6
  <2>3. at(i + 1) # n /\ at(i + 1) # at(0) /\ at(i + 1) \in Addr
    BY <1>1, <1>4, <2>1
  <2>4. at(i + 2) # n /\ at(i + 2) # at(2) /\ at(i + 2) \in Addr
    BY <1>1, <1>4, <2>1
  <2>5. r.next[at(i + 1)] = m.next[at(i + 1)] /\ r.prev[at(i + 2)] = m.prev[at(i + 2)]
    BY <1>10, <2>3, <2>4
  <2>6. m.next[at(i + 1)] = at(i + 2) /\ m.prev[at(i + 2)] = at(i + 1)
    BY <1>1, <1>3, <2>1, (i + 1) + 1 = i + 2
  <2> QED BY <2>2, <2>5, <2>6
<1>15. \A i \in 0 .. Len(k) : r.next[to(i)] = to(i + 1) /\ r.prev[to(i + 1)] = to(i)
  <2> SUFFICES ASSUME NEW i \in 0 .. Len(q) - 1
               PROVE  r.next[to(i)] = to(i + 1) /\ r.prev[to(i + 1)] = to(i)
    BY <1>5
  <2>1. (i = 0 /\ i + 1 = 1) \/ i \in 1 .. Len(q) - 1
    BY <1>1
  <2> QED BY <2>1, <1>13, <1>14
<1>16. Linked(r, t, list, k)
  BY <1>15 DEF Linked, to
<1>17. Popped(m, r, t, list, q)
  BY <1>9, <1>11, <1>12, <1>16 DEF Popped, k
<1> QED BY <1>17

\* The yielders q moved to the list of runners.
Spliced(m, r, t, q) ==
  /\ r \in Memories
  /\ Linked(r, t, "runners", q) /\ Linked(r, t, "yielders", <<>>)
  /\ SameOutside(m, r, ListAddr(t, "runners", q) \cup ListAddr(t, "yielders", q))

LEMMA SpliceMoves ==
  ASSUME NEW m \in Memories, NEW t \in Threads, NEW q, Queue(q), q # <<>>, Linked(m, t, "yielders", q)
  PROVE  Spliced(m, Splice(m, t), t, q)
<1> DEFINE at(i) == Stop(t, "yielders", q, i)
           to(i) == Stop(t, "runners", q, i)
<1> PICK fr \in Addr : fr = Front(t, "runners") /\ fr \notin CoNodes
  BY ListEnds
<1> PICK br \in Addr : br = Back(t, "runners") /\ br \notin CoNodes
  BY ListEnds
<1> PICK fy \in Addr : fy = Front(t, "yielders") /\ fy \notin CoNodes
  BY ListEnds
<1> PICK by \in Addr : by = Back(t, "yielders") /\ by \notin CoNodes
  BY ListEnds
<1>e. fr # br /\ fr # fy /\ br # by /\ fy # by /\ fr # by /\ br # fy
  <2>1. Front(t, "runners") # Front(t, "yielders") /\ Back(t, "runners") # Back(t, "yielders")
    BY EndFacts
  <2>2. Front(t, "runners") # Back(t, "runners") /\ Front(t, "yielders") # Back(t, "yielders")
    BY EndFacts
  <2>3. Front(t, "runners") # Back(t, "yielders") /\ Front(t, "yielders") # Back(t, "runners")
    BY EndFacts
  <2> QED BY <2>1, <2>2, <2>3
<1>1. Len(q) \in Nat /\ Len(q) >= 1
  BY DEF Queue
<1>2. Walk(t, "yielders", q) /\ Walk(t, "runners", q)
  BY WalkIs DEF Lists
<1>3. \A i \in 0 .. Len(q) : m.next[at(i)] = at(i + 1) /\ m.prev[at(i + 1)] = at(i)
  BY DEF Linked
<1>4. /\ at(0) = fy /\ at(Len(q) + 1) = by
      /\ \A i \in 1 .. Len(q) : at(i) \in CoNodes /\ at(i) \in Addr
      /\ \A i, j \in 0 .. Len(q) + 1 : at(i) = at(j) => i = j
  BY <1>1, <1>2 DEF Walk, CoNodes
<1>5. to(0) = fr /\ to(Len(q) + 1) = br /\ \A i \in 1 .. Len(q) : to(i) = at(i)
  BY <1>1, <1>2 DEF Walk
<1>6. /\ fr \in ListAddr(t, "runners", q) /\ br \in ListAddr(t, "runners", q)
      /\ \A i \in 0 .. Len(q) + 1 : at(i) \in ListAddr(t, "yielders", q)
  BY <1>2 DEF Walk, ListAddr
<1>7. Linked(m, t, "yielders", q)
  OBVIOUS
<1> HIDE DEF at, to
<1> PICK i \in CoNodes : i = at(1)
  BY <1>1, <1>4
<1> PICK j \in CoNodes : j = at(Len(q))
  BY <1>1, <1>4
<1>8. m.next[fy] = i /\ m.prev[by] = j
  <2>1. m.next[at(0)] = at(1)
    BY <1>1, <1>3, 0 \in 0 .. Len(q), 0 + 1 = 1
  <2>2. m.prev[at(Len(q) + 1)] = at(Len(q))
    BY <1>1, <1>3
  <2> QED BY <2>1, <2>2, <1>4
<1> PICK r : r = Splice(m, t)
  OBVIOUS
<1>9. Hung(m, r, Front(t, "runners"), Back(t, "runners"), Front(t, "yielders"), Back(t, "yielders"), i, j)
  BY <1>8, SpliceIs
<1>10. Hung(m, r, fr, br, fy, by, i, j)
  BY <1>9
<1>11. r \in Memories /\ r.level = m.level
  BY <1>10 DEF Hung
<1>12. /\ \A a \in Addr : r.next[a] = IF a = fy THEN by ELSE IF a = j THEN br
                                       ELSE IF a = fr THEN i ELSE m.next[a]
       /\ \A a \in Addr : r.prev[a] = IF a = by THEN fy ELSE IF a = br THEN j
                                       ELSE IF a = i THEN fr ELSE m.prev[a]
  BY <1>10 DEF Hung
<1>13. r.next[to(0)] = to(1) /\ r.prev[to(1)] = to(0)
  <2>1. to(1) = i /\ to(0) = fr /\ i \in Addr
    BY <1>1, <1>4, <1>5
  <2> QED BY <2>1, <1>e, <1>12
<1>14. r.next[to(Len(q))] = to(Len(q) + 1) /\ r.prev[to(Len(q) + 1)] = to(Len(q))
  <2>1. to(Len(q)) = j /\ to(Len(q) + 1) = br /\ j \in Addr
    BY <1>1, <1>4, <1>5
  <2> QED BY <2>1, <1>e, <1>12
<1>15. ASSUME NEW k \in 1 .. Len(q) - 1
       PROVE  r.next[to(k)] = to(k + 1) /\ r.prev[to(k + 1)] = to(k)
  <2>1. k \in 1 .. Len(q) /\ k + 1 \in 1 .. Len(q) /\ k # Len(q) /\ k + 1 # 1
    BY <1>1
  <2>2. to(k) = at(k) /\ to(k + 1) = at(k + 1)
    BY <1>5, <2>1
  <2>3. at(k) # j /\ at(k) \in Addr /\ at(k) \in CoNodes
    BY <1>1, <1>4, <2>1
  <2>4. at(k + 1) # i /\ at(k + 1) \in Addr /\ at(k + 1) \in CoNodes
    BY <1>1, <1>4, <2>1
  <2>5. r.next[at(k)] = m.next[at(k)]
    BY <1>12, <2>3
  <2>6. r.prev[at(k + 1)] = m.prev[at(k + 1)]
    BY <1>12, <2>4
  <2>7. m.next[at(k)] = at(k + 1) /\ m.prev[at(k + 1)] = at(k)
    BY <1>1, <1>3, <2>1
  <2> QED BY <2>2, <2>5, <2>6, <2>7
<1>16. Linked(r, t, "runners", q)
  <2>1. \A k \in 0 .. Len(q) : r.next[to(k)] = to(k + 1) /\ r.prev[to(k + 1)] = to(k)
    <3> SUFFICES ASSUME NEW k \in 0 .. Len(q)
                 PROVE  r.next[to(k)] = to(k + 1) /\ r.prev[to(k + 1)] = to(k)
      OBVIOUS
    <3>1. (k = 0 /\ k + 1 = 1) \/ k = Len(q) \/ k \in 1 .. Len(q) - 1
      BY <1>1
    <3> QED BY <3>1, <1>13, <1>14, <1>15
  <2> QED BY <2>1 DEF Linked, to
<1>17. Linked(r, t, "yielders", <<>>)
  <2>1. r.next[fy] = by /\ r.prev[by] = fy
    BY <1>12, <1>e
  <2>2. Stop(t, "yielders", <<>>, 0) = fy /\ Stop(t, "yielders", <<>>, 1) = by
    BY DEF Stop
  <2>3. \A k \in 0 .. Len(<<>>) : k = 0 /\ k + 1 = 1
    OBVIOUS
  <2> QED BY <2>1, <2>2, <2>3 DEF Linked
<1>18. SameOutside(m, r, ListAddr(t, "runners", q) \cup ListAddr(t, "yielders", q))
  <2>1. /\ i \in ListAddr(t, "yielders", q) /\ j \in ListAddr(t, "yielders", q)
        /\ fy \in ListAddr(t, "yielders", q) /\ by \in ListAddr(t, "yielders", q)
    BY <1>1, <1>4, <1>6
  <2> QED BY <1>6, <1>11, <1>12, <2>1 DEF SameOutside
<1>19. Spliced(m, r, t, q)
  BY <1>11, <1>16, <1>17, <1>18 DEF Spliced
<1> QED BY <1>19

-----------------------------------------------------------------------------
(* Recursion over numbers: what steps along the links lead to.              *)

\* One step of the trees and of the chains of the memory m.
StepOf(kind, m, back, x) == IF kind = "trees" THEN Higher(m, x) ELSE Longer(m, back, x)

Iterates(f, b, kind, m, back) ==
  f = [h \in Nat |-> IF h = 0 THEN b ELSE StepOf(kind, m, back, f[h - 1])]

HasIteration(b, kind, m, back) == \E f : Iterates(f, b, kind, m, back)

LEMMA NumberRecursion ==
  ASSUME NEW b, NEW kind, NEW m, NEW back
  PROVE  HasIteration(b, kind, m, back)
<1> DEFINE g(x) == StepOf(kind, m, back, x)
           Up(f, n) == f[0] = b /\ \A h \in 1 .. n : f[h] = g(f[h - 1])
           D == {n \in Nat : ~\E f : Up(f, n)}
<1> HIDE DEF g
<1>1. D = {}
  <2> SUFFICES ASSUME D # {} PROVE FALSE
    OBVIOUS
  <2>0. D \subseteq Nat
    OBVIOUS
  <2>1. PICK n \in D : \A k \in D : n <= k
    BY <2>0, LeastNumber, Zenon
  <2>2. n # 0
    <3>1. Up([h \in 0 .. 0 |-> b], 0)
      OBVIOUS
    <3> QED BY <3>1
  <2>3. n \in Nat /\ n - 1 \in Nat /\ n - 1 \notin D
    <3>1. n \in Nat
      BY <2>1
    <3>2. n - 1 \in Nat /\ ~(n <= n - 1)
      BY <2>2, <3>1
    <3> HIDE DEF D
    <3>3. n - 1 \notin D
      BY <2>1, <3>2
    <3> QED BY <3>1, <3>2, <3>3
  <2>4. PICK f : Up(f, n - 1)
    BY <2>3
  <2> DEFINE e == [h \in 0 .. n |-> IF h = n THEN g(f[n - 1]) ELSE f[h]]
  <2>7. e[0] = b
    BY <2>2, <2>3, <2>4
  <2>8. \A h \in 1 .. n : e[h] = g(e[h - 1])
    <3> SUFFICES ASSUME NEW h \in 1 .. n PROVE e[h] = g(e[h - 1])
      OBVIOUS
    <3>1. h - 1 \in 0 .. n /\ h - 1 # n /\ e[h - 1] = f[h - 1]
      BY <2>3
    <3>2. CASE h = n
      BY <2>3, <3>1, <3>2
    <3>3. CASE h # n
      <4>1. h \in 1 .. n - 1 /\ e[h] = f[h]
        BY <2>3, <3>3
      <4> QED BY <2>4, <3>1, <4>1
    <3> QED BY <3>2, <3>3
  <2>9. Up(e, n)
    BY <2>7, <2>8
  <2> QED BY <2>1, <2>9
<1> DEFINE up(n) == CHOOSE f : Up(f, n)
           all == [n \in Nat |-> up(n)[n]]
<1>2. \A n \in Nat : Up(up(n), n)
  BY <1>1
<1> HIDE DEF up
<1>3. \A n \in Nat : up(n)[0] = b
  BY <1>2
<1>4. \A i, n \in Nat : i <= n => up(i)[i] = up(n)[i]
  <2> DEFINE E == {i \in Nat : \E n \in Nat : i <= n /\ up(i)[i] # up(n)[i]}
  <2> SUFFICES ASSUME E # {} PROVE FALSE
    OBVIOUS
  <2>0. E \subseteq Nat
    OBVIOUS
  <2>1. PICK i \in E : \A k \in E : i <= k
    BY <2>0, LeastNumber, Zenon
  <2>2. PICK n \in Nat : i <= n /\ up(i)[i] # up(n)[i]
    BY <2>1
  <2>3. i # 0
    BY <1>3, <2>2
  <2>4. i - 1 \in Nat /\ i - 1 \notin E
    BY <2>1, <2>3
  <2>5. i - 1 <= i /\ i - 1 <= n /\ i \in Nat
    BY <2>1, <2>2
  <2>6. up(i - 1)[i - 1] = up(i)[i - 1] /\ up(i - 1)[i - 1] = up(n)[i - 1]
    BY <2>4, <2>5
  <2>7. up(i)[i] = g(up(i)[i - 1])
    BY <1>2, <2>3, <2>5, i \in 1 .. i
  <2>8. up(n)[i] = g(up(n)[i - 1])
    BY <1>2, <2>2, <2>3, <2>5, i \in 1 .. n
  <2> QED BY <2>2, <2>6, <2>7, <2>8
<1>6. \A h \in Nat : all[h] = IF h = 0 THEN b ELSE g(all[h - 1])
  <2> SUFFICES ASSUME NEW h \in Nat PROVE all[h] = IF h = 0 THEN b ELSE g(all[h - 1])
    OBVIOUS
  <2>1. CASE h = 0
    BY <1>3, <2>1
  <2>2. CASE h # 0
    <3>1. h - 1 \in Nat /\ h - 1 <= h
      BY <2>2
    <3>2. up(h - 1)[h - 1] = up(h)[h - 1]
      BY <1>4, <3>1
    <3>3. up(h)[h] = g(up(h)[h - 1])
      BY <1>2, <2>2, h \in 1 .. h
    <3>4. all[h] = up(h)[h] /\ all[h - 1] = up(h - 1)[h - 1]
      BY <3>1
    <3> QED BY <2>2, <3>2, <3>3, <3>4
  <2> QED BY <2>1, <2>2
<1>7. all = [h \in Nat |-> all[h]]
  OBVIOUS
<1> HIDE DEF all
<1>8. all = [h \in Nat |-> IF h = 0 THEN b ELSE g(all[h - 1])]
  BY <1>6, <1>7, Zenon
<1>9. Iterates(all, b, kind, m, back)
  BY <1>8 DEF Iterates, g
<1> QED BY <1>9 DEF HasIteration

-----------------------------------------------------------------------------
(* Following the links of a list.                                           *)

\* The chains of no steps, and of all.
NoChains(m, back) == [n \in DOMAIN m.next |-> IF n = back THEN <<>> ELSE <<NONE>>]

ChainsAre(F, m, back) ==
  F = [k \in Nat |-> IF k = 0 THEN NoChains(m, back) ELSE Longer(m, back, F[k - 1])]

LEMMA SomeChains ==
  ASSUME NEW m, NEW back
  PROVE  \E F : ChainsAre(F, m, back)
<1>1. PICK F : Iterates(F, NoChains(m, back), "chains", m, back)
  BY NumberRecursion DEF HasIteration
<1>2. \A x : StepOf("chains", m, back, x) = Longer(m, back, x)
  BY DEF StepOf
<1>3. F = [k \in Nat |-> IF k = 0 THEN NoChains(m, back) ELSE StepOf("chains", m, back, F[k - 1])]
  BY <1>1 DEF Iterates
<1>4. F = [k \in Nat |-> IF k = 0 THEN NoChains(m, back) ELSE Longer(m, back, F[k - 1])]
  BY <1>2, <1>3
<1> QED BY <1>4 DEF ChainsAre

LEMMA ListIsChain ==
  ASSUME NEW m \in Memories, NEW t, NEW list
  PROVE  \E F : ChainsAre(F, m, Back(t, list)) /\ List(m, t, list) = F[MaxId][m.next[Front(t, list)]]
<1> DEFINE back == Back(t, list)
           F == CHOOSE F : F = [k \in Nat |->
                  IF k = 0 THEN [n \in DOMAIN m.next |-> IF n = back THEN <<>> ELSE <<NONE>>]
                  ELSE Longer(m, back, F[k - 1])]
<1>1. List(m, t, list) = F[MaxId][m.next[Front(t, list)]]
  BY DEF List
<1>2. \E G : G = [k \in Nat |->
                  IF k = 0 THEN [n \in DOMAIN m.next |-> IF n = back THEN <<>> ELSE <<NONE>>]
                  ELSE Longer(m, back, G[k - 1])]
  <2>1. PICK G : ChainsAre(G, m, back)
    BY SomeChains
  <2>2. G = [k \in Nat |->
                  IF k = 0 THEN [n \in DOMAIN m.next |-> IF n = back THEN <<>> ELSE <<NONE>>]
                  ELSE Longer(m, back, G[k - 1])]
    BY <2>1, Zenon DEF ChainsAre, NoChains
  <2> QED BY <2>2, Zenon
<1>3. F = [k \in Nat |->
                  IF k = 0 THEN [n \in DOMAIN m.next |-> IF n = back THEN <<>> ELSE <<NONE>>]
                  ELSE Longer(m, back, F[k - 1])]
  BY <1>2, Zenon
<1>4. ChainsAre(F, m, back)
  BY <1>3, Zenon DEF ChainsAre, NoChains
<1> QED BY <1>1, <1>4

LEMMA QueueBound ==
  ASSUME NEW q, Queue(q)
  PROVE  Len(q) \in Nat /\ Len(q) <= MaxId
<1>1. q \in Seq(Ids) /\ Len(q) \in Nat /\ DOMAIN q = 1 .. Len(q)
  BY DEF Queue
<1>2. IsFiniteSet(1 .. Len(q)) /\ Cardinality(1 .. Len(q)) = Len(q)
  BY <1>1, FS_Interval
<1>3. IsFiniteSet(Ids) /\ Cardinality(Ids) = MaxId
  BY MaxIdAssumption, FS_Interval DEF Ids
<1>4. q \in [1 .. Len(q) -> Ids]
  BY <1>1
<1>5. \A i, j \in 1 .. Len(q) : q[i] = q[j] => i = j
  BY <1>1 DEF Queue, S!Once
<1>6. ~(Cardinality(Ids) < Cardinality(1 .. Len(q)))
  BY <1>2, <1>3, <1>4, <1>5, FS_PigeonHole
<1> QED BY <1>1, <1>2, <1>3, <1>6, MaxIdAssumption

\* What is left of the queue after i steps.
Rest(q, i) == SubSeq(q, i + 1, Len(q))

LEMMA RestFacts ==
  ASSUME NEW q, Queue(q)
  PROVE  /\ Rest(q, 0) = q /\ Rest(q, Len(q)) = <<>>
         /\ \A i \in 1 .. Len(q) : <<q[i]>> \o Rest(q, i) = Rest(q, i - 1)
<1>1. q \in Seq(Ids) /\ Len(q) \in Nat
  BY DEF Queue
<1>2. Rest(q, 0) = q /\ Rest(q, Len(q)) = <<>>
  BY <1>1 DEF Rest
<1>3. ASSUME NEW i \in 1 .. Len(q) PROVE <<q[i]>> \o Rest(q, i) = Rest(q, i - 1)
  <2>1. Len(q) \in i .. Len(q) /\ (i - 1) + 1 = i
    BY <1>1
  <2>2. SubSeq(q, i, Len(q)) = <<q[i]>> \o SubSeq(q, i + 1, Len(q))
    BY <1>1, <2>1, SubSeqRecursiveFirst
  <2> QED BY <2>1, <2>2 DEF Rest
<1> QED BY <1>2, <1>3

LEMMA ListIs ==
  ASSUME NEW m \in Memories, NEW t \in Threads, NEW list \in Lists, NEW q, Queue(q),
         Linked(m, t, list, q)
  PROVE  List(m, t, list) = q
<1> DEFINE at(i) == Stop(t, list, q, i)
           back == Back(t, list)
<1>1. PICK F : ChainsAre(F, m, back) /\ List(m, t, list) = F[MaxId][m.next[Front(t, list)]]
  BY ListIsChain
<1>2. Len(q) \in Nat /\ Len(q) <= MaxId
  BY QueueBound
<1>3. Walk(t, list, q)
  BY WalkIs
<1>4. DOMAIN m.next = Addr
  BY DEF Memories
<1>5. F[0] = NoChains(m, back) /\ \A k \in Nat \ {0} : F[k] = Longer(m, back, F[k - 1])
  BY <1>1 DEF ChainsAre
<1>6. at(Len(q) + 1) = back /\ back \in Addr /\ at(0) = Front(t, list)
  BY <1>2, <1>3, Len(q) + 1 \in 0 .. Len(q) + 1 DEF Walk
<1>7. \A i \in 0 .. Len(q) : m.next[at(i)] = at(i + 1)
  BY DEF Linked
<1>8. \A i \in 1 .. Len(q) : /\ at(i) = Node(q[i]) /\ at(i) \in CoNodes /\ at(i) # back /\ at(i) \in Addr
                             /\ at(i)[1] = q[i]
  <2> SUFFICES ASSUME NEW i \in 1 .. Len(q)
               PROVE  /\ at(i) = Node(q[i]) /\ at(i) \in CoNodes /\ at(i) # back /\ at(i) \in Addr
                      /\ at(i)[1] = q[i]
    OBVIOUS
  <2>1. at(i) = Node(q[i]) /\ q[i] \in Ids
    BY <1>3 DEF Walk
  <2> QED BY <2>1, NodeFacts DEF CoNodes, Addr
<1> HIDE DEF at, back
<1>9. \A k \in Nat : F[k][back] = <<>>
  <2> SUFFICES ASSUME NEW k \in Nat PROVE F[k][back] = <<>>
    OBVIOUS
  <2>1. NoChains(m, back)[back] = <<>>
    BY <1>4, <1>6 DEF NoChains
  <2>2. k # 0 => Longer(m, back, F[k - 1])[back] = <<>>
    BY <1>4, <1>6 DEF Longer
  <2> QED BY <1>5, <2>1, <2>2
<1>10. \A k \in Nat \ {0} : \A i \in 1 .. Len(q) : F[k][at(i)] = <<q[i]>> \o F[k - 1][at(i + 1)]
  <2> SUFFICES ASSUME NEW k \in Nat \ {0}, NEW i \in 1 .. Len(q)
               PROVE  F[k][at(i)] = <<q[i]>> \o F[k - 1][at(i + 1)]
    OBVIOUS
  <2>1. F[k][at(i)] = <<at(i)[1]>> \o F[k - 1][m.next[at(i)]]
    <3>1. F[k] = Longer(m, back, F[k - 1]) /\ at(i) \in DOMAIN m.next /\ at(i) \in CoNodes /\ at(i) # back
      BY <1>4, <1>5, <1>8
    <3> QED BY <3>1 DEF Longer
  <2>2. m.next[at(i)] = at(i + 1)
    BY <1>2, <1>7
  <2> QED BY <1>8, <2>1, <2>2
<1>11. \A k \in Nat : \A i \in 0 .. Len(q) : Len(q) - i <= k => F[k][at(i + 1)] = Rest(q, i)
  <2> DEFINE D == {k \in Nat : \E i \in 0 .. Len(q) : Len(q) - i <= k /\ F[k][at(i + 1)] # Rest(q, i)}
  <2> SUFFICES ASSUME D # {} PROVE FALSE
    OBVIOUS
  <2>0. D \subseteq Nat
    OBVIOUS
  <2>1. PICK k \in D : \A j \in D : k <= j
    BY <2>0, LeastNumber, Zenon
  <2>2. PICK i \in 0 .. Len(q) : Len(q) - i <= k /\ F[k][at(i + 1)] # Rest(q, i)
    BY <2>1
  <2>3. i # Len(q)
    BY <1>2, <1>6, <1>9, <2>1, <2>2, RestFacts
  <2>4. k \in Nat \ {0} /\ k - 1 \in Nat /\ k - 1 \notin D
    BY <1>2, <2>1, <2>2, <2>3
  <2>5. i + 1 \in 1 .. Len(q) /\ i + 1 \in 0 .. Len(q) /\ Len(q) - (i + 1) <= k - 1
    BY <1>2, <2>2, <2>3, <2>4
  <2>6. F[k - 1][at((i + 1) + 1)] = Rest(q, i + 1)
    BY <2>4, <2>5
  <2>7. F[k][at(i + 1)] = <<q[i + 1]>> \o F[k - 1][at((i + 1) + 1)]
    BY <1>10, <2>4, <2>5
  <2>8. <<q[i + 1]>> \o Rest(q, i + 1) = Rest(q, i)
    <3>1. (i + 1) - 1 = i
      BY <1>2
    <3>2. <<q[i + 1]>> \o Rest(q, i + 1) = Rest(q, (i + 1) - 1)
      BY <2>5, RestFacts
    <3> QED BY <3>1, <3>2
  <2> QED BY <2>2, <2>6, <2>7, <2>8
<1>12. F[MaxId][at(1)] = Rest(q, 0)
  BY <1>2, <1>11, MaxIdAssumption, 0 + 1 = 1, 0 \in 0 .. Len(q)
<1>13. m.next[Front(t, list)] = at(1)
  BY <1>2, <1>6, <1>7, 0 + 1 = 1, 0 \in 0 .. Len(q)
<1> QED BY <1>1, <1>12, <1>13, RestFacts

-----------------------------------------------------------------------------
(* Trees of coroutines in memory.                                           *)

\* The equation of TreeAt's function.
NoTrees(m) == [n \in DOMAIN m.prev |-> NIL]

TreesAre(F, m) == F = [h \in Nat |-> IF h = 0 THEN NoTrees(m) ELSE Higher(m, F[h - 1])]

LEMMA SomeTrees ==
  ASSUME NEW m
  PROVE  \E F : TreesAre(F, m)
<1>1. PICK F : Iterates(F, NoTrees(m), "trees", m, NIL)
  BY NumberRecursion DEF HasIteration
<1>2. \A x : StepOf("trees", m, NIL, x) = Higher(m, x)
  BY DEF StepOf
<1>3. F = [h \in Nat |-> IF h = 0 THEN NoTrees(m) ELSE StepOf("trees", m, NIL, F[h - 1])]
  BY <1>1 DEF Iterates
<1>4. F = [h \in Nat |-> IF h = 0 THEN NoTrees(m) ELSE Higher(m, F[h - 1])]
  BY <1>2, <1>3
<1> QED BY <1>4 DEF TreesAre

LEMMA TreeAtIsTree ==
  ASSUME NEW m, NEW n
  PROVE  \E F : TreesAre(F, m) /\ TreeAt(m, n) = F[MaxId][n]
<1> DEFINE F == CHOOSE F : F = [h \in Nat |-> IF h = 0 THEN [x \in DOMAIN m.prev |-> NIL] ELSE Higher(m, F[h - 1])]
<1>1. TreeAt(m, n) = F[MaxId][n]
  BY DEF TreeAt
<1>2. \E G : G = [h \in Nat |-> IF h = 0 THEN [x \in DOMAIN m.prev |-> NIL] ELSE Higher(m, G[h - 1])]
  <2>1. PICK G : TreesAre(G, m)
    BY SomeTrees
  <2>2. G = [h \in Nat |-> IF h = 0 THEN [x \in DOMAIN m.prev |-> NIL] ELSE Higher(m, G[h - 1])]
    BY <2>1, Zenon DEF TreesAre, NoTrees
  <2> QED BY <2>2, Zenon
<1>3. F = [h \in Nat |-> IF h = 0 THEN [x \in DOMAIN m.prev |-> NIL] ELSE Higher(m, F[h - 1])]
  BY <1>2, Zenon
<1>4. TreesAre(F, m)
  BY <1>3, Zenon DEF TreesAre, NoTrees
<1> QED BY <1>1, <1>4

\* A tree's nodes are not empty, and their subtrees are part of it.
NodesInside(t) ==
  \A x \in Nodes[t] : /\ x \in Tree /\ x # NIL
                      /\ Nodes[x.left] \subseteq Nodes[t] /\ Nodes[x.right] \subseteq Nodes[t]

LEMMA NodesAreInside ==
  ASSUME Heights = Nat, NEW t \in Tree
  PROVE  NodesInside(t)
<1> DEFINE P == {u \in Tree : NodesInside(u)}
<1>1. NIL \in P
  BY NILIsATree, NothingInNIL DEF NodesInside
<1>2. ASSUME NEW u \in Tree, u # NIL, u.left \in P, u.right \in P
      PROVE  u \in P
  <2>1. Nodes[u] = {u} \cup Nodes[u.left] \cup Nodes[u.right]
    BY <1>2, NodesDef DEF NodesEquation, NodesBody, IsNode
  <2>2. NodesInside(u.left) /\ NodesInside(u.right)
    BY <1>2
  <2>3. NodesInside(u)
    BY <1>2, <2>1, <2>2 DEF NodesInside
  <2> QED BY <1>2, <2>3
<1> HIDE DEF P
<1>3. Tree \subseteq P
  BY <1>1, <1>2, TreeInduction, Zenon
<1> QED BY <1>3 DEF P

\* No two nodes have the same key.
KeysTell(t) == \A x, y \in Nodes[t] : x.key = y.key => x = y

LEMMA KeysTellNodes ==
  ASSUME Heights = Nat, NEW t \in Tree, Ordered(t)
  PROVE  KeysTell(t)
<1> DEFINE P == {u \in Tree : Ordered(u) => KeysTell(u)}
<1>1. NIL \in P
  BY NILIsATree, NothingInNIL DEF KeysTell
<1>2. ASSUME NEW u \in Tree, u # NIL, u.left \in P, u.right \in P
      PROVE  u \in P
  <2> SUFFICES ASSUME Ordered(u) PROVE KeysTell(u)
    BY <1>2
  <2>1. Nodes[u] = {u} \cup Nodes[u.left] \cup Nodes[u.right]
    BY <1>2, NodesDef DEF NodesEquation, NodesBody, IsNode
  <2>2. Joins(u, u.key, u.left, u.right)
    BY <1>2, NodeJoins
  <2>3. KeysTell(u.left) /\ KeysTell(u.right)
    BY <1>2, <2>2 DEF Joins, SubtreesInOrder
  <2>4. /\ u.key \in Int
        /\ \A x \in Nodes[u.left] : x.key \in Int /\ x.key < u.key
        /\ \A x \in Nodes[u.right] : x.key \in Int /\ u.key < x.key
    BY <2>2 DEF Joins, SubtreesInOrder, Below, Above, KeysOf
  <2>5. ASSUME NEW x \in Nodes[u], NEW y \in Nodes[u], x.key = y.key PROVE x = y
    <3>1. CASE x \in Nodes[u.left]
      <4>1. y \in Nodes[u.left]
        BY <2>1, <2>4, <2>5, <3>1
      <4> QED BY <2>3, <2>5, <3>1, <4>1 DEF KeysTell
    <3>2. CASE x \in Nodes[u.right]
      <4>1. y \in Nodes[u.right]
        BY <2>1, <2>4, <2>5, <3>2
      <4> QED BY <2>3, <2>5, <3>2, <4>1 DEF KeysTell
    <3>3. CASE x = u
      BY <2>1, <2>4, <2>5, <3>3
    <3> QED BY <2>1, <3>1, <3>2, <3>3
  <2> QED BY <2>5 DEF KeysTell
<1> HIDE DEF P
<1>3. Tree \subseteq P
  BY <1>1, <1>2, TreeInduction, Zenon
<1> QED BY <1>3 DEF P

\* A search tree of coroutines, and the nodes of one in memory.
IdTree(t) == t \in Tree /\ Ordered(t) /\ KeysOf(t) \subseteq Ids

TreeLaid(m, t) ==
  \A x \in Nodes[t] : /\ m.prev[Node(x.key)] = Pointer(x.left) /\ m.next[Node(x.key)] = Pointer(x.right)
                      /\ m.level[Node(x.key)] = x.level

LEMMA SubtreesToo ==
  ASSUME Heights = Nat, NEW t, IdTree(t), t # NIL
  PROVE  /\ IdTree(t.left) /\ IdTree(t.right)
         /\ KeysOf(t) = {t.key} \cup KeysOf(t.left) \cup KeysOf(t.right)
         /\ t.key \notin KeysOf(t.left) /\ t.key \notin KeysOf(t.right)
         /\ t.key \in Ids /\ t \in Nodes[t]
         /\ Nodes[t.left] \subseteq Nodes[t] /\ Nodes[t.right] \subseteq Nodes[t]
<1>1. t \in Tree /\ Ordered(t) /\ KeysOf(t) \subseteq Ids
  BY DEF IdTree
<1>2. Joins(t, t.key, t.left, t.right)
  BY <1>1, NodeJoins
<1>3. t.left \in Tree /\ t.right \in Tree
  BY <1>1, TreeIsBranch DEF IsBranch
<1>4. Nodes[t] = {t} \cup Nodes[t.left] \cup Nodes[t.right]
  BY <1>1, NodesDef DEF NodesEquation, NodesBody, IsNode
<1>5. KeysOf(t) = {t.key} \cup KeysOf(t.left) \cup KeysOf(t.right)
  BY <1>2 DEF Joins
<1>6. t.key \notin KeysOf(t.left) /\ t.key \notin KeysOf(t.right)
  BY <1>1, <1>2 DEF Joins, SubtreesInOrder, Below, Above
<1>7. Ordered(t.left) /\ Ordered(t.right)
  BY <1>1, <1>2 DEF Joins, SubtreesInOrder
<1>8. IdTree(t.left) /\ IdTree(t.right)
  BY <1>1, <1>3, <1>5, <1>7 DEF IdTree
<1> QED BY <1>1, <1>4, <1>5, <1>6, <1>8

LEMMA IdsAreFinite ==
  ASSUME NEW A \in SUBSET Ids
  PROVE  IsFiniteSet(A) /\ Cardinality(A) \in Nat /\ Cardinality(A) <= MaxId
<1>1. IsFiniteSet(Ids) /\ Cardinality(Ids) = MaxId
  BY MaxIdAssumption, FS_Interval DEF Ids
<1>2. IsFiniteSet(A) /\ Cardinality(A) <= Cardinality(Ids)
  BY <1>1, FS_Subset
<1> QED BY <1>1, <1>2, FS_CardinalityType

\* Following the links from the root of a tree leads to that tree.
LEMMA TreeIsAt ==
  ASSUME Heights = Nat, NEW m \in Memories, NEW t, IdTree(t), TreeLaid(m, t)
  PROVE  TreeAt(m, Pointer(t)) = t
<1>1. PICK F : TreesAre(F, m) /\ TreeAt(m, Pointer(t)) = F[MaxId][Pointer(t)]
  BY TreeAtIsTree
<1>2. DOMAIN m.prev = Addr
  BY DEF Memories
<1>3. F[0] = NoTrees(m) /\ \A h \in Nat \ {0} : F[h] = Higher(m, F[h - 1])
  BY <1>1 DEF TreesAre
<1> DEFINE Small(u, h) == IdTree(u) /\ TreeLaid(m, u) /\ Cardinality(KeysOf(u)) <= h
           D == {h \in Nat : \E u : Small(u, h) /\ F[h][Pointer(u)] # u}
<1>4. \A h \in Nat : F[h][Pointer(NIL)] = NIL
  <2> SUFFICES ASSUME NEW h \in Nat PROVE F[h][Pointer(NIL)] = NIL
    OBVIOUS
  <2>1. Pointer(NIL) = NULL /\ NULL \in Addr /\ NULL \notin CoNodes
    BY NowhereFacts DEF Pointer
  <2>2. NoTrees(m)[NULL] = NIL
    BY <1>2, <2>1 DEF NoTrees
  <2>3. h # 0 => Higher(m, F[h - 1])[NULL] = NIL
    BY <1>2, <2>1 DEF Higher
  <2> QED BY <1>3, <2>1, <2>2, <2>3
<1>5. D = {}
  <2> SUFFICES ASSUME D # {} PROVE FALSE
    OBVIOUS
  <2>0. D \subseteq Nat
    OBVIOUS
  <2>1. PICK h \in D : \A j \in D : h <= j
    BY <2>0, LeastNumber, Zenon
  <2>2. PICK u : Small(u, h) /\ F[h][Pointer(u)] # u
    BY <2>1
  <2>3. u # NIL /\ h \in Nat
    BY <1>4, <2>1, <2>2
  <2>4. /\ IdTree(u.left) /\ IdTree(u.right)
        /\ KeysOf(u) = {u.key} \cup KeysOf(u.left) \cup KeysOf(u.right)
        /\ u.key \notin KeysOf(u.left) /\ u.key \notin KeysOf(u.right)
        /\ u.key \in Ids /\ u \in Nodes[u]
        /\ Nodes[u.left] \subseteq Nodes[u] /\ Nodes[u.right] \subseteq Nodes[u]
    BY <2>2, <2>3, SubtreesToo
  <2>5. TreeLaid(m, u) /\ TreeLaid(m, u.left) /\ TreeLaid(m, u.right)
    BY <2>2, <2>4 DEF TreeLaid
  <2>6. /\ KeysOf(u) \in SUBSET Ids /\ KeysOf(u.left) \in SUBSET (KeysOf(u) \ {u.key})
        /\ KeysOf(u.right) \in SUBSET (KeysOf(u) \ {u.key}) /\ u.key \in KeysOf(u)
    BY <2>2, <2>4 DEF IdTree
  <2>7. Cardinality(KeysOf(u.left)) <= h - 1 /\ Cardinality(KeysOf(u.right)) <= h - 1 /\ h # 0
    <3>1. IsFiniteSet(KeysOf(u)) /\ Cardinality(KeysOf(u)) \in Nat /\ Cardinality(KeysOf(u)) <= h
      BY <2>2, <2>6, IdsAreFinite
    <3>2. /\ Cardinality(KeysOf(u) \ {u.key}) = Cardinality(KeysOf(u)) - 1
          /\ IsFiniteSet(KeysOf(u) \ {u.key})
      BY <2>6, <3>1, FS_RemoveElement
    <3>3. Cardinality(KeysOf(u) \ {u.key}) \in Nat
      BY <3>2, FS_CardinalityType
    <3>4. Cardinality(KeysOf(u.left)) <= Cardinality(KeysOf(u) \ {u.key})
      BY <2>6, <3>2, FS_Subset
    <3>5. Cardinality(KeysOf(u.right)) <= Cardinality(KeysOf(u) \ {u.key})
      BY <2>6, <3>2, FS_Subset
    <3>6. Cardinality(KeysOf(u.left)) \in Nat /\ Cardinality(KeysOf(u.right)) \in Nat
      BY <2>4, IdsAreFinite DEF IdTree
    <3> QED BY <2>3, <3>1, <3>2, <3>3, <3>4, <3>5, <3>6
  <2>8. h - 1 \in Nat /\ h - 1 \notin D /\ h \in Nat \ {0}
    BY <2>1, <2>3, <2>7
  <2>9. F[h - 1][Pointer(u.left)] = u.left /\ F[h - 1][Pointer(u.right)] = u.right
    BY <2>4, <2>5, <2>7, <2>8
  <2>10. Pointer(u) = Node(u.key) /\ Node(u.key) \in CoNodes /\ Node(u.key) \in Addr /\ Node(u.key)[1] = u.key
    BY <2>3, <2>4, NodeFacts DEF Pointer, CoNodes, Addr
  <2>11. /\ m.prev[Node(u.key)] = Pointer(u.left) /\ m.next[Node(u.key)] = Pointer(u.right)
         /\ m.level[Node(u.key)] = u.level
    BY <2>4, <2>5 DEF TreeLaid
  <2>12. Higher(m, F[h - 1])[Node(u.key)] =
           [key |-> u.key, level |-> u.level, left |-> u.left, right |-> u.right]
    BY <1>2, <2>9, <2>10, <2>11 DEF Higher
  <2>13. u = Branch(u.key, u.level, u.left, u.right)
    BY <2>2, <2>3, TreeIsBranch DEF IsBranch, HasFields, IdTree
  <2>14. F[h][Pointer(u)] = u
    BY <1>3, <2>8, <2>10, <2>12, <2>13 DEF Branch
  <2> QED BY <2>2, <2>14
<1>6. KeysOf(t) \in SUBSET Ids
  BY DEF IdTree
<1>7. Cardinality(KeysOf(t)) <= MaxId
  BY <1>6, IdsAreFinite
<1>8. Small(t, MaxId)
  BY <1>7
<1>9. MaxId \in Nat
  BY MaxIdAssumption
<1>10. MaxId \notin D
  BY <1>5
<1>11. F[MaxId][Pointer(t)] = t
  BY <1>8, <1>9, <1>10
<1> QED BY <1>1, <1>11

-----------------------------------------------------------------------------
(* Writing the nodes of a tree.                                             *)

LEMMA PointerType ==
  ASSUME Heights = Nat, NEW t, IdTree(t)
  PROVE  Pointer(t) \in Addr
<1>1. NULL \in Addr
  BY NowhereFacts
<1>2. t # NIL => Node(t.key) \in Addr
  BY SubtreesToo DEF Addr, CoNodes
<1> QED BY <1>1, <1>2 DEF Pointer

\* What is written into the node of x.
NodeTyped(x) ==
  /\ x.key \in Ids /\ x.level \in Nat /\ Node(x.key) \in CoNodes
  /\ Pointer(x.left) \in Addr /\ Pointer(x.right) \in Addr

LEMMA NodesTyped ==
  ASSUME Heights = Nat, NEW t, IdTree(t), NEW x \in Nodes[t]
  PROVE  NodeTyped(x)
<1>1. t \in Tree /\ KeysOf(t) \subseteq Ids /\ NodesInside(t)
  BY NodesAreInside DEF IdTree
<1>2. x \in Tree /\ x # NIL /\ Nodes[x.left] \subseteq Nodes[t] /\ Nodes[x.right] \subseteq Nodes[t]
  BY <1>1 DEF NodesInside
<1>3. x.left \in Tree /\ x.right \in Tree /\ x.level \in Nat
  BY <1>2, TreeIsBranch DEF IsBranch
<1>4. \A y \in Nodes[t] : y.key \in Ids
  BY <1>1 DEF KeysOf
<1>5. ASSUME NEW y \in Tree, Nodes[y] \subseteq Nodes[t] PROVE Pointer(y) \in Addr
  <2>1. CASE y = NIL
    BY <2>1, NowhereFacts DEF Pointer
  <2>2. CASE y # NIL
    <3>1. y \in Nodes[y]
      BY <1>5, <2>2, NodesDef DEF NodesEquation, NodesBody, IsNode
    <3> QED BY <1>4, <1>5, <2>2, <3>1 DEF Pointer, Addr, CoNodes
  <2> QED BY <2>1, <2>2
<1> QED BY <1>2, <1>3, <1>4, <1>5 DEF NodeTyped, CoNodes

LEMMA NodesAtIs ==
  ASSUME Heights = Nat, NEW t, IdTree(t)
  PROVE  /\ DOMAIN NodesAt(t) = NodesOf(KeysOf(t))
         /\ \A x \in Nodes[t] : Node(x.key) \in NodesOf(KeysOf(t)) /\ NodesAt(t)[Node(x.key)] = x
         /\ \A n \in NodesOf(KeysOf(t)) : NodesAt(t)[n] \in Nodes[t] /\ Node(NodesAt(t)[n].key) = n
<1>1. DOMAIN NodesAt(t) = NodesOf(KeysOf(t))
  BY DEF NodesAt, NodesOf
<1>2. \A n \in NodesOf(KeysOf(t)) : NodesAt(t)[n] = CHOOSE x \in Nodes[t] : Node(x.key) = n
  BY DEF NodesAt, NodesOf
<1>3. \A n \in NodesOf(KeysOf(t)) : \E x \in Nodes[t] : Node(x.key) = n
  BY DEF KeysOf, NodesOf
<1>4. \A n \in NodesOf(KeysOf(t)) : NodesAt(t)[n] \in Nodes[t] /\ Node(NodesAt(t)[n].key) = n
  BY <1>2, <1>3
<1>5. KeysTell(t)
  BY KeysTellNodes DEF IdTree
<1>6. ASSUME NEW x \in Nodes[t] PROVE Node(x.key) \in NodesOf(KeysOf(t)) /\ NodesAt(t)[Node(x.key)] = x
  <2>1. Node(x.key) \in NodesOf(KeysOf(t))
    BY DEF KeysOf, NodesOf
  <2>2. NodesAt(t)[Node(x.key)] \in Nodes[t] /\ Node(NodesAt(t)[Node(x.key)].key) = Node(x.key)
    BY <1>4, <2>1
  <2>3. NodesAt(t)[Node(x.key)].key = x.key
    BY <2>2, NodeFacts
  <2> QED BY <1>5, <2>1, <2>2, <2>3 DEF KeysTell
<1> QED BY <1>1, <1>4, <1>6

\* The tree t written.
LaidOut(m, r, t) ==
  /\ r \in Memories /\ TreeLaid(r, t) /\ SameOutside(m, r, NodesOf(KeysOf(t)))

LEMMA LaidIs ==
  ASSUME Heights = Nat, NEW m \in Memories, NEW t, IdTree(t)
  PROVE  LaidOut(m, Laid(m, NodesAt(t)), t)
<1> PICK at : at = NodesAt(t)
  OBVIOUS
<1> PICK N : N = NodesOf(KeysOf(t))
  OBVIOUS
<1> PICK r : r = Laid(m, at)
  OBVIOUS
<1>1. /\ DOMAIN at = N
      /\ \A x \in Nodes[t] : Node(x.key) \in N /\ at[Node(x.key)] = x
      /\ \A n \in N : at[n] \in Nodes[t] /\ Node(at[n].key) = n
  BY NodesAtIs
<1>2. \A x \in Nodes[t] : NodeTyped(x)
  BY NodesTyped
<1>3. \A n \in N : n \in CoNodes /\ Pointer(at[n].left) \in Addr /\ Pointer(at[n].right) \in Addr /\ at[n].level \in Nat
  BY <1>1, <1>2 DEF NodeTyped
<1>4. m.prev \in [Addr -> Addr] /\ m.next \in [Addr -> Addr] /\ m.level \in [CoNodes -> Nat]
  BY DEF Memories
<1>5. r = [prev  |-> [n \in Addr |-> IF n \in N THEN Pointer(at[n].left) ELSE m.prev[n]],
           next  |-> [n \in Addr |-> IF n \in N THEN Pointer(at[n].right) ELSE m.next[n]],
           level |-> [n \in CoNodes |-> IF n \in N THEN at[n].level ELSE m.level[n]]]
  BY <1>1, <1>4 DEF Laid
<1>6. r \in Memories
  BY <1>3, <1>4, <1>5 DEF Memories
<1>7. /\ \A n \in Addr : r.prev[n] = IF n \in N THEN Pointer(at[n].left) ELSE m.prev[n]
      /\ \A n \in Addr : r.next[n] = IF n \in N THEN Pointer(at[n].right) ELSE m.next[n]
      /\ \A n \in CoNodes : r.level[n] = IF n \in N THEN at[n].level ELSE m.level[n]
  BY <1>5
<1>8. TreeLaid(r, t)
  <2> SUFFICES ASSUME NEW x \in Nodes[t]
               PROVE  /\ r.prev[Node(x.key)] = Pointer(x.left) /\ r.next[Node(x.key)] = Pointer(x.right)
                      /\ r.level[Node(x.key)] = x.level
    BY DEF TreeLaid
  <2>1. Node(x.key) \in N /\ at[Node(x.key)] = x /\ Node(x.key) \in CoNodes /\ Node(x.key) \in Addr
    BY <1>1, <1>3 DEF Addr
  <2> QED BY <1>7, <2>1
<1>9. SameOutside(m, r, N)
  BY <1>7 DEF SameOutside
<1> QED BY <1>6, <1>8, <1>9 DEF LaidOut

LEMMA TreeKept ==
  ASSUME Heights = Nat, NEW t, IdTree(t), NEW m, NEW r, NEW A, TreeLaid(m, t), SameOutside(m, r, A),
         A \cap NodesOf(KeysOf(t)) = {}
  PROVE  TreeLaid(r, t)
<1> SUFFICES ASSUME NEW x \in Nodes[t]
             PROVE  /\ r.prev[Node(x.key)] = Pointer(x.left) /\ r.next[Node(x.key)] = Pointer(x.right)
                    /\ r.level[Node(x.key)] = x.level
  BY DEF TreeLaid
<1>1. NodeTyped(x)
  BY NodesTyped
<1>2. Node(x.key) \in CoNodes \ A /\ Node(x.key) \in Addr \ A
  BY <1>1 DEF NodeTyped, NodesOf, KeysOf, Addr
<1> QED BY <1>2 DEF SameOutside, TreeLaid

-----------------------------------------------------------------------------
(* Maps: a tree in each shard.                                              *)

Shards == 0 .. NShards - 1

InShard(ids, s) == {co \in ids : Shard(co) = s}

Maps == [roots : [Shards -> Addr], count : Int]

IsTreeOf(m, map, ids, s, t) ==
  /\ IdTree(t) /\ KeysOf(t) = InShard(ids, s)
  /\ TreeLaid(m, t) /\ map.roots[s] = Pointer(t)

\* The coroutines in the map are ids.
MapIs(m, map, ids) ==
  /\ map \in Maps /\ ids \subseteq Ids
  /\ \A s \in Shards : \E t : IsTreeOf(m, map, ids, s, t)

LEMMA ShardType == \A co \in Ids : Shard(co) \in Shards
<1>1. NShards \in Nat /\ NShards > 0
  BY NShardsAssumption
<1> QED BY <1>1, MaxIdAssumption DEF Ids, Shard, Shards

LEMMA TreeIsThere ==
  ASSUME Heights = Nat, NEW m \in Memories, NEW map, NEW ids, MapIs(m, map, ids), NEW s \in Shards
  PROVE  IsTreeOf(m, map, ids, s, TreeAt(m, map.roots[s]))
<1>1. PICK t : IsTreeOf(m, map, ids, s, t)
  BY DEF MapIs
<1>2. TreeAt(m, Pointer(t)) = t
  BY <1>1, TreeIsAt DEF IsTreeOf
<1>3. map.roots[s] = Pointer(t)
  BY <1>1 DEF IsTreeOf
<1> QED BY <1>1, <1>2, <1>3

LEMMA MembersAre ==
  ASSUME Heights = Nat, NEW m \in Memories, NEW map, NEW ids, MapIs(m, map, ids)
  PROVE  Members(m, map) = ids
<1>1. DOMAIN map.roots = Shards /\ ids \subseteq Ids
  BY DEF MapIs, Maps
<1>2. \A s \in Shards : KeysOf(TreeAt(m, map.roots[s])) = InShard(ids, s)
  BY TreeIsThere DEF IsTreeOf
<1>3. Members(m, map) = UNION {InShard(ids, s) : s \in Shards}
  BY <1>1, <1>2 DEF Members
<1> QED BY <1>1, <1>3, ShardType DEF InShard

LEMMA HoldsIs ==
  ASSUME Heights = Nat, NEW m \in Memories, NEW map, NEW ids, MapIs(m, map, ids), NEW co \in Ids
  PROVE  Holds(m, map, co) <=> co \in ids
<1> PICK s \in Shards : s = Shard(co)
  BY ShardType
<1> PICK t : t = TreeAt(m, map.roots[s])
  OBVIOUS
<1>1. IdTree(t) /\ KeysOf(t) = InShard(ids, s)
  BY TreeIsThere DEF IsTreeOf
<1>2. co \in Int /\ co # NoKey
  BY MaxIdAssumption DEF Ids, NoKey
<1>3. search[t][co] = IF co \in KeysOf(t) THEN co ELSE NoKey
  BY <1>1, <1>2, SearchFinds DEF IdTree
<1>4. co \in KeysOf(t) <=> co \in ids
  BY <1>1 DEF InShard
<1> QED BY <1>2, <1>3, <1>4 DEF Holds

LEMMA MapKept ==
  ASSUME Heights = Nat, NEW m, NEW r, NEW A, NEW map, NEW ids,
         MapIs(m, map, ids), SameOutside(m, r, A), A \cap NodesOf(ids) = {}
  PROVE  MapIs(r, map, ids)
<1> SUFFICES ASSUME NEW s \in Shards PROVE \E t : IsTreeOf(r, map, ids, s, t)
  BY DEF MapIs
<1>1. PICK t : IsTreeOf(m, map, ids, s, t)
  BY DEF MapIs
<1>2. KeysOf(t) \subseteq ids /\ IdTree(t) /\ TreeLaid(m, t)
  BY <1>1 DEF IsTreeOf, InShard
<1>3. A \cap NodesOf(KeysOf(t)) = {}
  BY <1>2 DEF NodesOf
<1>4. TreeLaid(r, t)
  BY <1>2, <1>3, TreeKept
<1> QED BY <1>1, <1>4 DEF IsTreeOf

\* A new tree for one shard: the map has the coroutines new in place of ids.
Replaced(m, ids, r, new) ==
  /\ r.mem \in Memories /\ MapIs(r.mem, r.map, new)
  /\ SameOutside(m, r.mem, NodesOf(ids \cup new))

LEMMA WithTreeIs ==
  ASSUME Heights = Nat, NEW m \in Memories, NEW map, NEW ids, MapIs(m, map, ids),
         NEW co \in Ids, NEW t, IdTree(t), NEW more \in Int, NEW new \in SUBSET Ids,
         KeysOf(t) = InShard(new, Shard(co)), \A s \in Shards : s # Shard(co) => InShard(new, s) = InShard(ids, s)
  PROVE  Replaced(m, ids, WithTree(m, map, co, t, more), new)
<1> PICK k \in Shards : k = Shard(co)
  BY ShardType
<1> PICK z : z = WithTree(m, map, co, t, more)
  OBVIOUS
<1> PICK r : r = Laid(m, NodesAt(t))
  OBVIOUS
<1> DEFINE roots == [map.roots EXCEPT ![k] = Pointer(t)]
           count == map.count + more
<1>1. z.mem = r /\ z.map = [map EXCEPT !.roots[k] = Pointer(t), !.count = @ + more]
  BY DEF WithTree
<1>2. map \in Maps /\ map.roots \in [Shards -> Addr] /\ map.count \in Int
  BY DEF MapIs, Maps
<1>3. Pointer(t) \in Addr
  BY PointerType
<1>4. roots \in [Shards -> Addr] /\ count \in Int
  BY <1>2, <1>3
<1>5. z.map = [[map EXCEPT !.roots = roots] EXCEPT !.count = @ + more]
  BY <1>1
<1>6. /\ roots[k] = Pointer(t)
      /\ \A s \in Shards : s # k => roots[s] = map.roots[s]
  BY <1>2
<1>7. map = [roots |-> map.roots, count |-> map.count]
  BY <1>2 DEF Maps
<1> HIDE DEF roots
<1>8. [map EXCEPT !.roots = roots] = [roots |-> roots, count |-> map.count]
  BY <1>7
<1>9. z.map = [roots |-> roots, count |-> count]
  BY <1>5, <1>8
<1> HIDE DEF count
<1>10. z.map \in Maps /\ z.map.roots = roots
  BY <1>4, <1>9 DEF Maps
<1>11. LaidOut(m, r, t)
  BY LaidIs
<1>12. r \in Memories /\ TreeLaid(r, t) /\ SameOutside(m, r, NodesOf(KeysOf(t)))
  BY <1>11 DEF LaidOut
<1>13. ASSUME NEW s \in Shards PROVE \E u : IsTreeOf(r, z.map, new, s, u)
  <2>1. CASE s = k
    BY <1>6, <1>10, <1>12, <2>1 DEF IsTreeOf
  <2>2. CASE s # k
    <3>1. PICK u : IsTreeOf(m, map, ids, s, u)
      BY DEF MapIs
    <3>2. IdTree(u) /\ KeysOf(u) = InShard(new, s) /\ TreeLaid(m, u) /\ map.roots[s] = Pointer(u)
      BY <2>2, <3>1 DEF IsTreeOf
    <3>3. KeysOf(t) \cap KeysOf(u) = {}
      BY <2>2, <3>2 DEF InShard
    <3>4. NodesOf(KeysOf(t)) \cap NodesOf(KeysOf(u)) = {}
      BY <3>3, NodeFacts DEF NodesOf
    <3>5. TreeLaid(r, u)
      BY <1>12, <3>2, <3>4, TreeKept
    <3> QED BY <1>6, <1>10, <2>2, <3>2, <3>5 DEF IsTreeOf
  <2> QED BY <2>1, <2>2
<1>14. MapIs(r, z.map, new)
  BY <1>10, <1>13 DEF MapIs
<1>15. SameOutside(m, r, NodesOf(ids \cup new))
  <2>1. NodesOf(KeysOf(t)) \subseteq NodesOf(ids \cup new)
    BY DEF InShard, NodesOf
  <2> QED BY <1>12, <2>1, SameWider
<1>16. Replaced(m, ids, z, new)
  BY <1>1, <1>12, <1>14, <1>15 DEF Replaced
<1> QED BY <1>16

LEMMA ShardTree ==
  ASSUME Heights = Nat, NEW m \in Memories, NEW map, NEW ids, MapIs(m, map, ids), NEW co \in Ids
  PROVE  IsTreeOf(m, map, ids, Shard(co), TreeAt(m, map.roots[Shard(co)]))
<1> PICK s \in Shards : s = Shard(co)
  BY ShardType
<1>1. IsTreeOf(m, map, ids, s, TreeAt(m, map.roots[s]))
  BY TreeIsThere
<1> QED BY <1>1

LEMMA MapInsertIs ==
  ASSUME Heights = Nat, NEW m \in Memories, NEW map, NEW ids, MapIs(m, map, ids), NEW co \in Ids
  PROVE  Replaced(m, ids, MapInsert(m, map, co), ids \cup {co})
<1> PICK t : t = TreeAt(m, map.roots[Shard(co)])
  OBVIOUS
<1> PICK u : u = insert0[t][co]
  OBVIOUS
<1> PICK more \in Int : more = IF Holds(m, map, co) THEN 0 ELSE 1
  OBVIOUS
<1>1. IsTreeOf(m, map, ids, Shard(co), t)
  BY ShardTree
<1>2. t \in Tree /\ Ordered(t) /\ KeysOf(t) = InShard(ids, Shard(co)) /\ ids \subseteq Ids
  BY <1>1 DEF IsTreeOf, IdTree, MapIs
<1>3. co \in Int
  BY MaxIdAssumption DEF Ids
<1>4. Put(t, u, co)
  BY <1>2, <1>3, InsertPuts
<1>5. u \in Tree
  BY <1>2, <1>3, InsertDef
<1>6. KeysOf(u) = InShard(ids, Shard(co)) \cup {co} /\ Ordered(u)
  BY <1>2, <1>4 DEF Put
<1>7. KeysOf(u) = InShard(ids \cup {co}, Shard(co))
  BY <1>6 DEF InShard
<1>8. \A s \in Shards : s # Shard(co) => InShard(ids \cup {co}, s) = InShard(ids, s)
  BY DEF InShard
<1>9. IdTree(u)
  BY <1>2, <1>5, <1>6 DEF IdTree, InShard
<1>10. ids \cup {co} \in SUBSET Ids
  BY <1>2
<1>11. Replaced(m, ids, WithTree(m, map, co, u, more), ids \cup {co})
  BY <1>7, <1>8, <1>9, <1>10, WithTreeIs
<1>12. MapInsert(m, map, co) = WithTree(m, map, co, u, more)
  BY DEF MapInsert
<1> QED BY <1>11, <1>12

ClearedAt(m, r, n) == r \in Memories /\ SameOutside(m, r, {n})

LEMMA ClearedIs ==
  ASSUME NEW m \in Memories, NEW n \in CoNodes
  PROVE  ClearedAt(m, Cleared(m, n), n)
<1>1. n \in Addr /\ NULL \in Addr
  BY NowhereFacts DEF Addr
<1> PICK a : a = PrevSet(m, n, NULL)
  OBVIOUS
<1>2. a \in Memories /\ a.next = m.next /\ a.level = m.level /\ a.prev = [m.prev EXCEPT ![n] = NULL]
  BY <1>1, PrevSetIs
<1> PICK b : b = NextSet(a, n, NULL)
  OBVIOUS
<1>3. b \in Memories /\ b.prev = a.prev /\ b.level = a.level /\ b.next = [a.next EXCEPT ![n] = NULL]
  BY <1>1, <1>2, NextSetIs
<1> PICK c : c = [b EXCEPT !.level[n] = 0]
  OBVIOUS
<1>4. c = Cleared(m, n)
  BY DEF Cleared, PrevSet, NextSet
<1>5. /\ b.next \in [Addr -> Addr] /\ b.prev \in [Addr -> Addr] /\ b.level \in [CoNodes -> Nat]
      /\ b = [prev |-> b.prev, next |-> b.next, level |-> b.level]
  BY <1>3 DEF Memories
<1> DEFINE f == [b.level EXCEPT ![n] = 0]
<1>6. f \in [CoNodes -> Nat] /\ \A x \in CoNodes \ {n} : f[x] = b.level[x]
  BY <1>5
<1>7. c = [b EXCEPT !.level = f]
  OBVIOUS
<1> HIDE DEF f
<1>8. c = [prev |-> b.prev, next |-> b.next, level |-> f]
  BY <1>5, <1>7
<1>9. c \in Memories /\ c.prev = b.prev /\ c.next = b.next /\ c.level = f
  BY <1>5, <1>6, <1>8 DEF Memories
<1>10. m.next \in [Addr -> Addr] /\ m.prev \in [Addr -> Addr]
  BY DEF Memories
<1>11. \A x \in Addr \ {n} : b.prev[x] = m.prev[x] /\ b.next[x] = m.next[x]
  BY <1>2, <1>3, <1>10
<1>12. SameOutside(m, c, {n})
  <2>1. \A x \in Addr \ {n} : c.prev[x] = m.prev[x] /\ c.next[x] = m.next[x]
    BY <1>9, <1>11
  <2>2. \A x \in CoNodes \ {n} : c.level[x] = m.level[x]
    <3>1. b.level = m.level
      BY <1>2, <1>3
    <3> QED BY <1>6, <1>9, <3>1
  <2> QED BY <2>1, <2>2 DEF SameOutside
<1> QED BY <1>4, <1>9, <1>12 DEF ClearedAt

LEMMA MapDeleteIs ==
  ASSUME Heights = Nat, NEW m \in Memories, NEW map, NEW ids, MapIs(m, map, ids), NEW co \in ids
  PROVE  Replaced(m, ids, MapDelete(m, map, co), ids \ {co})
<1>0. ids \subseteq Ids /\ co \in Ids
  BY DEF MapIs
<1> PICK t : t = TreeAt(m, map.roots[Shard(co)])
  OBVIOUS
<1> PICK u : u = delete0[t][co]
  OBVIOUS
<1>1. IsTreeOf(m, map, ids, Shard(co), t)
  BY <1>0, ShardTree
<1>2. t \in Tree /\ Ordered(t) /\ KeysOf(t) = InShard(ids, Shard(co))
  BY <1>1 DEF IsTreeOf, IdTree
<1>3. co \in Int
  BY <1>0, MaxIdAssumption DEF Ids
<1>4. Taken(t, u, co)
  BY <1>2, <1>3, DeleteTakes
<1>5. u \in Tree
  BY <1>2, <1>3, DeleteDef
<1>6. KeysOf(u) = InShard(ids, Shard(co)) \ {co} /\ Ordered(u)
  BY <1>2, <1>4 DEF Taken
<1>7. KeysOf(u) = InShard(ids \ {co}, Shard(co))
  BY <1>6 DEF InShard
<1>8. \A s \in Shards : s # Shard(co) => InShard(ids \ {co}, s) = InShard(ids, s)
  BY DEF InShard
<1>9. IdTree(u)
  BY <1>0, <1>5, <1>6 DEF IdTree, InShard
<1>10. ids \ {co} \in SUBSET Ids /\ -1 \in Int
  BY <1>0
<1> PICK w : w = WithTree(m, map, co, u, -1)
  OBVIOUS
<1>11. Replaced(m, ids, w, ids \ {co})
  BY <1>0, <1>7, <1>8, <1>9, <1>10, WithTreeIs
<1>12. w.mem \in Memories /\ MapIs(w.mem, w.map, ids \ {co}) /\ SameOutside(m, w.mem, NodesOf(ids))
  <2>1. ids \cup (ids \ {co}) = ids
    OBVIOUS
  <2> QED BY <1>11, <2>1 DEF Replaced
<1> PICK n \in CoNodes : n = Node(co)
  BY <1>0 DEF CoNodes
<1> PICK c : c = Cleared(w.mem, n)
  OBVIOUS
<1>13. c \in Memories /\ SameOutside(w.mem, c, {n})
  BY <1>12, ClearedIs DEF ClearedAt
<1> PICK z : z = MapDelete(m, map, co)
  OBVIOUS
<1>14. z.mem = c /\ z.map = w.map
  <2>1. z = [mem |-> Cleared(w.mem, Node(co)), map |-> w.map]
    BY Zenon DEF MapDelete
  <2> QED BY <2>1
<1>15. MapIs(c, w.map, ids \ {co})
  <2>1. {n} \cap NodesOf(ids \ {co}) = {}
    BY NodeFacts DEF NodesOf
  <2> QED BY <1>12, <1>13, <2>1, MapKept
<1>16. SameOutside(m, c, NodesOf(ids \cup (ids \ {co})))
  <2>1. SameOutside(m, c, NodesOf(ids) \cup {n})
    BY <1>12, <1>13, SameTwice
  <2>2. NodesOf(ids) \cup {n} = NodesOf(ids \cup (ids \ {co}))
    BY DEF NodesOf
  <2> QED BY <2>1, <2>2
<1>17. Replaced(m, ids, z, ids \ {co})
  BY <1>13, <1>14, <1>15, <1>16 DEF Replaced
<1> QED BY <1>17

-----------------------------------------------------------------------------
(* One thread's scheduler, and what it stands for.                          *)

SchedRecs == [cur : Ids \cup {NONE}, nrunners : Int, nyielders : Int, paused : Maps, npaused : Int,
              exit_to_main_requested : BOOLEAN]

\* The memory and the variables w of thread t are the scheduler a.
Keeps(t, w, a) ==
  /\ w.m \in Memories /\ w.s \in SchedRecs /\ S!Orderly(a)
  /\ w.s.cur = a.cur /\ w.s.exit_to_main_requested = a.exiting
  /\ w.s.nrunners = Len(a.runners) /\ w.s.nyielders = Len(a.yielders)
  /\ w.s.npaused = Cardinality(a.paused)
  /\ Linked(w.m, t, "runners", a.runners) /\ Linked(w.m, t, "yielders", a.yielders)
  /\ MapIs(w.m, w.s.paused, a.paused)

\* A step to r, which is the scheduler b, writes in the nodes of C at most.
Goes(t, w, r, b, C) == Keeps(t, r, b) /\ SameOutside(w.m, r.m, NodesOf(C) \cup EndsOf(t))

LEMMA SameIds == S!Ids = Ids
  BY DEF S!Ids, Ids

\* The parts of a scheduler, and which they are.
Parts(a) ==
  /\ a \in S!ThreadStates /\ Queue(a.runners) /\ Queue(a.yielders)
  /\ a.cur \in Ids \cup {NONE} /\ a.exiting \in BOOLEAN /\ a.paused \subseteq Ids
  /\ S!Elems(a.runners) \subseteq Ids /\ S!Elems(a.yielders) \subseteq Ids

LEMMA OrderlyParts ==
  ASSUME NEW a, S!Orderly(a)
  PROVE  Parts(a)
<1>1. /\ a.runners \in Seq(Ids) /\ a.yielders \in Seq(Ids) /\ a.paused \subseteq Ids
      /\ a.cur \in Ids \cup {NONE} /\ a.exiting \in BOOLEAN /\ a \in S!ThreadStates
  BY SameIds DEF S!Orderly, S!ThreadStates
<1>2. S!Once(a.runners) /\ S!Once(a.yielders)
  BY DEF S!Orderly
<1>3. S!Elems(a.runners) \subseteq Ids /\ S!Elems(a.yielders) \subseteq Ids
  BY <1>1 DEF S!Elems
<1> QED BY <1>1, <1>2, <1>3 DEF Parts, Queue

\* What the lists and the map have in memory is apart.
PartsApart(t, a) ==
  LET R == ListAddr(t, "runners", a.runners)
      Y == ListAddr(t, "yielders", a.yielders)
      P == NodesOf(a.paused)
  IN /\ R \cap Y = {} /\ R \cap P = {} /\ Y \cap P = {}
     /\ R \cup Y \cup P \subseteq NodesOf(S!Waiting(a)) \cup EndsOf(t)
     /\ \A co : co \notin S!Waiting(a) => Node(co) \notin R /\ Node(co) \notin Y /\ Node(co) \notin P
     /\ \A co : co \notin a.paused => Node(co) \notin P
     /\ \A co \in a.paused : Node(co) \notin R /\ Node(co) \notin Y

LEMMA PartsAreApart ==
  ASSUME NEW t \in Threads, NEW a, S!Orderly(a)
  PROVE  PartsApart(t, a)
<1> DEFINE R == ListAddr(t, "runners", a.runners)
           Y == ListAddr(t, "yielders", a.yielders)
           P == NodesOf(a.paused)
           r == S!Elems(a.runners)
           y == S!Elems(a.yielders)
<1>1. r \cap y = {} /\ a.paused \cap r = {} /\ a.paused \cap y = {}
  BY DEF S!Orderly
<1>2. S!Waiting(a) = r \cup y \cup a.paused
  BY DEF S!Waiting
<1>3. /\ R = NodesOf(r) \cup {Front(t, "runners"), Back(t, "runners")}
      /\ Y = NodesOf(y) \cup {Front(t, "yielders"), Back(t, "yielders")}
  BY DEF ListAddr
<1> HIDE DEF r, y, R, Y
<1>4. \A c, d : Node(c) = Node(d) => c = d
  BY NodeFacts
<1>5. \A c, list : Node(c) # Front(t, list) /\ Node(c) # Back(t, list)
  BY NodeFacts
<1>6. /\ {Front(t, "runners"), Back(t, "runners")} \cap {Front(t, "yielders"), Back(t, "yielders")} = {}
  BY EndFacts
<1>7. \A c, A : Node(c) \in NodesOf(A) <=> c \in A
  BY <1>4 DEF NodesOf
<1>8. NodesOf(r) \cap NodesOf(y) = {} /\ P \cap NodesOf(r) = {} /\ P \cap NodesOf(y) = {}
  BY <1>1, <1>4 DEF NodesOf
<1>9. \A A : {Front(t, "runners"), Back(t, "runners"), Front(t, "yielders"), Back(t, "yielders")} \cap NodesOf(A) = {}
  BY <1>5 DEF NodesOf
<1>10. /\ {Front(t, "runners"), Back(t, "runners"), Front(t, "yielders"), Back(t, "yielders")} \subseteq EndsOf(t)
       /\ NodesOf(r) \cup NodesOf(y) \cup P \subseteq NodesOf(S!Waiting(a))
  <2>1. {Front(t, "runners"), Back(t, "runners"), Front(t, "yielders"), Back(t, "yielders")} \subseteq EndsOf(t)
    BY DEF EndsOf, Lists
  <2>2. NodesOf(r) \cup NodesOf(y) \cup P \subseteq NodesOf(S!Waiting(a))
    BY <1>2 DEF NodesOf
  <2> QED BY <2>1, <2>2
<1> HIDE DEF P
<1>11. R \cap Y = {} /\ R \cap P = {} /\ Y \cap P = {}
  <2>1. R \cap Y = {}
    BY <1>3, <1>6, <1>8, <1>9
  <2>2. R \cap P = {} /\ Y \cap P = {}
    BY <1>3, <1>8, <1>9 DEF P
  <2> QED BY <2>1, <2>2
<1>12. R \cup Y \cup P \subseteq NodesOf(S!Waiting(a)) \cup EndsOf(t)
  BY <1>3, <1>10
<1>13. ASSUME NEW co, co \notin S!Waiting(a) PROVE Node(co) \notin R /\ Node(co) \notin Y /\ Node(co) \notin P
  BY <1>2, <1>3, <1>5, <1>7, <1>13 DEF P
<1>14. \A co : co \notin a.paused => Node(co) \notin P
  BY <1>7 DEF P
<1>15. ASSUME NEW co \in a.paused PROVE Node(co) \notin R /\ Node(co) \notin Y
  <2>1. Node(co) \in P
    BY <1>7 DEF P
  <2> QED BY <1>11, <2>1
<1> QED BY <1>11, <1>12, <1>13, <1>14, <1>15 DEF PartsApart, R, Y, P

LEMMA AddRunnerIs ==
  ASSUME Heights = Nat, NEW t \in Threads, NEW w, NEW a, Keeps(t, w, a),
         NEW co \in Ids, co \notin S!Waiting(a), IsSelfLinked(w.m, Node(co))
  PROVE  Goes(t, w, AddRunner(w, t, co), S!AddRunner(a, co), S!Waiting(a) \cup {co})
<1> PICK r : r = AddRunner(w, t, co)
  OBVIOUS
<1> PICK b : b = S!AddRunner(a, co)
  OBVIOUS
<1>1. /\ w.m \in Memories /\ w.s \in SchedRecs /\ S!Orderly(a)
      /\ w.s.cur = a.cur /\ w.s.exit_to_main_requested = a.exiting
      /\ w.s.nrunners = Len(a.runners) /\ w.s.nyielders = Len(a.yielders)
      /\ w.s.npaused = Cardinality(a.paused)
      /\ Linked(w.m, t, "runners", a.runners) /\ Linked(w.m, t, "yielders", a.yielders)
      /\ MapIs(w.m, w.s.paused, a.paused)
  BY DEF Keeps
<1>2. Parts(a) /\ PartsApart(t, a)
  BY <1>1, OrderlyParts, PartsAreApart
<1>3. Queue(a.runners) /\ Queue(a.yielders) /\ co \notin S!Elems(a.runners)
  BY <1>2 DEF Parts, S!Waiting
<1>4. "runners" \in Lists /\ "yielders" \in Lists
  BY DEF Lists
<1> PICK x : x = PushBack(w.m, t, "runners", co)
  OBVIOUS
<1>5. Pushed(w.m, x, t, "runners", a.runners, co)
  BY <1>1, <1>3, <1>4, PushBackIs
<1> DEFINE A == ListAddr(t, "runners", a.runners) \cup {Node(co)}
<1>6. x \in Memories /\ Linked(x, t, "runners", Append(a.runners, co)) /\ SameOutside(w.m, x, A)
  BY <1>5 DEF Pushed
<1>7. /\ A \cap ListAddr(t, "yielders", a.yielders) = {} /\ A \cap NodesOf(a.paused) = {}
      /\ A \subseteq NodesOf(S!Waiting(a) \cup {co}) \cup EndsOf(t)
  <2>1. NodesOf(S!Waiting(a) \cup {co}) = NodesOf(S!Waiting(a)) \cup {Node(co)}
    BY DEF NodesOf
  <2> QED BY <1>2, <2>1 DEF PartsApart
<1> HIDE DEF A
<1>8. Linked(x, t, "yielders", a.yielders)
  BY <1>1, <1>3, <1>4, <1>6, <1>7, LinkedKept
<1>9. MapIs(x, w.s.paused, a.paused)
  BY <1>1, <1>6, <1>7, MapKept
<1>10. SameOutside(w.m, x, NodesOf(S!Waiting(a) \cup {co}) \cup EndsOf(t))
  BY <1>6, <1>7, SameWider
<1>11. /\ r.m = x /\ r.s \in SchedRecs
       /\ r.s.cur = w.s.cur /\ r.s.nrunners = w.s.nrunners + 1 /\ r.s.nyielders = w.s.nyielders
       /\ r.s.paused = w.s.paused /\ r.s.npaused = w.s.npaused
       /\ r.s.exit_to_main_requested = w.s.exit_to_main_requested
  BY <1>1 DEF AddRunner, SchedRecs
<1>12. /\ S!Orderly(b) /\ b.cur = a.cur /\ b.exiting = a.exiting /\ b.runners = Append(a.runners, co)
       /\ b.yielders = a.yielders /\ b.paused = a.paused
  <2>1. S!Orderly(b)
    BY <1>1, S!AddRunnerFacts, SameIds
  <2> QED BY <1>2, <2>1 DEF Parts, S!ThreadStates, S!AddRunner
<1>13. Len(Append(a.runners, co)) = Len(a.runners) + 1
  BY <1>3, AppendQueue
<1>14. Keeps(t, r, b)
  BY <1>1, <1>6, <1>8, <1>9, <1>11, <1>12, <1>13 DEF Keeps
<1>15. Goes(t, w, r, b, S!Waiting(a) \cup {co})
  BY <1>10, <1>11, <1>14 DEF Goes
<1> QED BY <1>15

LEMMA AddYielderIs ==
  ASSUME Heights = Nat, NEW t \in Threads, NEW w, NEW a, Keeps(t, w, a),
         NEW co \in Ids, co \notin S!Waiting(a), IsSelfLinked(w.m, Node(co))
  PROVE  Goes(t, w, AddYielder(w, t, co), S!AddYielder(a, co), S!Waiting(a) \cup {co})
<1> PICK r : r = AddYielder(w, t, co)
  OBVIOUS
<1> PICK b : b = S!AddYielder(a, co)
  OBVIOUS
<1>1. /\ w.m \in Memories /\ w.s \in SchedRecs /\ S!Orderly(a)
      /\ w.s.cur = a.cur /\ w.s.exit_to_main_requested = a.exiting
      /\ w.s.nyielders = Len(a.yielders) /\ w.s.nrunners = Len(a.runners)
      /\ w.s.npaused = Cardinality(a.paused)
      /\ Linked(w.m, t, "yielders", a.yielders) /\ Linked(w.m, t, "runners", a.runners)
      /\ MapIs(w.m, w.s.paused, a.paused)
  BY DEF Keeps
<1>2. Parts(a) /\ PartsApart(t, a)
  BY <1>1, OrderlyParts, PartsAreApart
<1>3. Queue(a.yielders) /\ Queue(a.runners) /\ co \notin S!Elems(a.yielders)
  BY <1>2 DEF Parts, S!Waiting
<1>4. "yielders" \in Lists /\ "runners" \in Lists
  BY DEF Lists
<1> PICK x : x = PushBack(w.m, t, "yielders", co)
  OBVIOUS
<1>5. Pushed(w.m, x, t, "yielders", a.yielders, co)
  BY <1>1, <1>3, <1>4, PushBackIs
<1> DEFINE A == ListAddr(t, "yielders", a.yielders) \cup {Node(co)}
<1>6. x \in Memories /\ Linked(x, t, "yielders", Append(a.yielders, co)) /\ SameOutside(w.m, x, A)
  BY <1>5 DEF Pushed
<1>7. /\ A \cap ListAddr(t, "runners", a.runners) = {} /\ A \cap NodesOf(a.paused) = {}
      /\ A \subseteq NodesOf(S!Waiting(a) \cup {co}) \cup EndsOf(t)
  <2>1. NodesOf(S!Waiting(a) \cup {co}) = NodesOf(S!Waiting(a)) \cup {Node(co)}
    BY DEF NodesOf
  <2> QED BY <1>2, <2>1 DEF PartsApart
<1> HIDE DEF A
<1>8. Linked(x, t, "runners", a.runners)
  BY <1>1, <1>3, <1>4, <1>6, <1>7, LinkedKept
<1>9. MapIs(x, w.s.paused, a.paused)
  BY <1>1, <1>6, <1>7, MapKept
<1>10. SameOutside(w.m, x, NodesOf(S!Waiting(a) \cup {co}) \cup EndsOf(t))
  BY <1>6, <1>7, SameWider
<1>11. /\ r.m = x /\ r.s \in SchedRecs
       /\ r.s.cur = w.s.cur /\ r.s.nyielders = w.s.nyielders + 1 /\ r.s.nrunners = w.s.nrunners
       /\ r.s.paused = w.s.paused /\ r.s.npaused = w.s.npaused
       /\ r.s.exit_to_main_requested = w.s.exit_to_main_requested
  BY <1>1 DEF AddYielder, SchedRecs
<1>12. /\ S!Orderly(b) /\ b.cur = a.cur /\ b.exiting = a.exiting /\ b.yielders = Append(a.yielders, co)
       /\ b.runners = a.runners /\ b.paused = a.paused
  <2>1. S!Orderly(b)
    BY <1>1, S!AddYielderFacts, SameIds
  <2> QED BY <1>2, <2>1 DEF Parts, S!ThreadStates, S!AddYielder
<1>13. Len(Append(a.yielders, co)) = Len(a.yielders) + 1
  BY <1>3, AppendQueue
<1>14. Keeps(t, r, b)
  BY <1>1, <1>6, <1>8, <1>9, <1>11, <1>12, <1>13 DEF Keeps
<1>15. Goes(t, w, r, b, S!Waiting(a) \cup {co})
  BY <1>10, <1>11, <1>14 DEF Goes
<1> QED BY <1>15

PausedWritten(w, r, x, k) ==
  /\ r.m = x.mem /\ r.s \in SchedRecs
  /\ r.s.cur = w.s.cur /\ r.s.nrunners = w.s.nrunners /\ r.s.nyielders = w.s.nyielders
  /\ r.s.paused = x.map /\ r.s.npaused = w.s.npaused + k
  /\ r.s.exit_to_main_requested = w.s.exit_to_main_requested

LEMMA WithPausedIs ==
  ASSUME NEW w, w.s \in SchedRecs, NEW x, x.map \in Maps, NEW k \in Int
  PROVE  PausedWritten(w, WithPaused(w, x, k), x, k)
<1> DEFINE s == w.s
           p == x.map
           n == w.s.npaused + k
           v == [s EXCEPT !.paused = p, !.npaused = n]
<1>1. s \in SchedRecs /\ p \in Maps /\ n \in Int
  BY DEF SchedRecs
<1>2. WithPaused(w, x, k) = [m |-> x.mem, s |-> v]
  BY DEF WithPaused
<1> HIDE DEF s, p, n
<1>3. /\ v \in SchedRecs
      /\ v.cur = s.cur /\ v.nrunners = s.nrunners /\ v.nyielders = s.nyielders
      /\ v.paused = p /\ v.npaused = n
      /\ v.exit_to_main_requested = s.exit_to_main_requested
  BY <1>1 DEF SchedRecs
<1> HIDE DEF v
<1> QED BY <1>2, <1>3 DEF PausedWritten, s, p, n

\* With the coroutine co among the paused ones.
LEMMA AddPausedIs ==
  ASSUME Heights = Nat, NEW t \in Threads, NEW w, NEW a, Keeps(t, w, a),
         NEW co \in Ids, co \notin S!Waiting(a)
  PROVE  Goes(t, w, AddPaused(w, co), [a EXCEPT !.paused = @ \cup {co}], S!Waiting(a) \cup {co})
<1> PICK r : r = AddPaused(w, co)
  OBVIOUS
<1> PICK b : b = [a EXCEPT !.paused = @ \cup {co}]
  OBVIOUS
<1>1. /\ w.m \in Memories /\ w.s \in SchedRecs /\ S!Orderly(a)
      /\ w.s.cur = a.cur /\ w.s.exit_to_main_requested = a.exiting
      /\ w.s.nrunners = Len(a.runners) /\ w.s.nyielders = Len(a.yielders)
      /\ w.s.npaused = Cardinality(a.paused)
      /\ Linked(w.m, t, "runners", a.runners) /\ Linked(w.m, t, "yielders", a.yielders)
      /\ MapIs(w.m, w.s.paused, a.paused)
  BY DEF Keeps
<1>2. Parts(a) /\ PartsApart(t, a)
  BY <1>1, OrderlyParts, PartsAreApart
<1>3. Queue(a.runners) /\ Queue(a.yielders) /\ a.paused \subseteq Ids /\ co \notin a.paused
  BY <1>2 DEF Parts, S!Waiting
<1>4. "runners" \in Lists /\ "yielders" \in Lists
  BY DEF Lists
<1> PICK x : x = MapInsert(w.m, w.s.paused, co)
  OBVIOUS
<1>5. Replaced(w.m, a.paused, x, a.paused \cup {co})
  BY <1>1, MapInsertIs
<1> DEFINE A == NodesOf(a.paused \cup {co})
<1>6. x.mem \in Memories /\ MapIs(x.mem, x.map, a.paused \cup {co}) /\ SameOutside(w.m, x.mem, A)
  <2>1. a.paused \cup (a.paused \cup {co}) = a.paused \cup {co}
    OBVIOUS
  <2> QED BY <1>5, <2>1 DEF Replaced
<1>7. /\ A \cap ListAddr(t, "yielders", a.yielders) = {} /\ A \cap ListAddr(t, "runners", a.runners) = {}
      /\ A \subseteq NodesOf(S!Waiting(a) \cup {co}) \cup EndsOf(t)
  <2>1. A = NodesOf(a.paused) \cup {Node(co)}
    BY DEF NodesOf
  <2>2. A \subseteq NodesOf(S!Waiting(a) \cup {co})
    BY DEF NodesOf, S!Waiting
  <2>3. /\ NodesOf(a.paused) \cap ListAddr(t, "yielders", a.yielders) = {}
        /\ NodesOf(a.paused) \cap ListAddr(t, "runners", a.runners) = {}
    BY <1>2 DEF PartsApart
  <2>4. Node(co) \notin ListAddr(t, "yielders", a.yielders) /\ Node(co) \notin ListAddr(t, "runners", a.runners)
    BY <1>2 DEF PartsApart
  <2> QED BY <2>1, <2>2, <2>3, <2>4
<1> HIDE DEF A
<1>8. Linked(x.mem, t, "yielders", a.yielders) /\ Linked(x.mem, t, "runners", a.runners)
  BY <1>1, <1>3, <1>4, <1>6, <1>7, LinkedKept
<1>10. SameOutside(w.m, x.mem, NodesOf(S!Waiting(a) \cup {co}) \cup EndsOf(t))
  BY <1>6, <1>7, SameWider
<1>11. /\ r.m = x.mem /\ r.s \in SchedRecs
       /\ r.s.cur = w.s.cur /\ r.s.nrunners = w.s.nrunners /\ r.s.nyielders = w.s.nyielders
       /\ r.s.paused = x.map /\ r.s.npaused = w.s.npaused + 1
       /\ r.s.exit_to_main_requested = w.s.exit_to_main_requested
  <2>1. x.map \in Maps
    BY <1>6 DEF MapIs
  <2>2. r = WithPaused(w, x, 1)
    BY DEF AddPaused
  <2>3. PausedWritten(w, r, x, 1)
    BY <1>1, <2>1, <2>2, WithPausedIs
  <2> QED BY <1>1, <2>3 DEF PausedWritten, SchedRecs
<1>12. /\ S!Orderly(b) /\ b.cur = a.cur /\ b.exiting = a.exiting /\ b.runners = a.runners
       /\ b.yielders = a.yielders /\ b.paused = a.paused \cup {co}
  <2>1. a \in S!ThreadStates /\ co \in S!Ids
    BY <1>2, SameIds DEF Parts
  <2>2. /\ b \in S!ThreadStates /\ b.cur = a.cur /\ b.exiting = a.exiting /\ b.runners = a.runners
        /\ b.yielders = a.yielders /\ b.paused = a.paused \cup {co}
    BY <2>1 DEF S!ThreadStates
  <2> QED BY <1>1, <2>2 DEF S!Orderly, S!Waiting
<1>13. Cardinality(a.paused \cup {co}) = Cardinality(a.paused) + 1
  BY <1>3, IdsAreFinite, FS_AddElement
<1>14. Keeps(t, r, b)
  BY <1>1, <1>6, <1>8, <1>11, <1>12, <1>13 DEF Keeps
<1>15. Goes(t, w, r, b, S!Waiting(a) \cup {co})
  BY <1>10, <1>11, <1>14 DEF Goes
<1> QED BY <1>15

\* Without it.
LEMMA DeletePausedIs ==
  ASSUME Heights = Nat, NEW t \in Threads, NEW w, NEW a, Keeps(t, w, a), NEW co \in a.paused
  PROVE  Goes(t, w, DeletePaused(w, co), [a EXCEPT !.paused = @ \ {co}], S!Waiting(a))
<1> PICK r : r = DeletePaused(w, co)
  OBVIOUS
<1> PICK b : b = [a EXCEPT !.paused = @ \ {co}]
  OBVIOUS
<1>1. /\ w.m \in Memories /\ w.s \in SchedRecs /\ S!Orderly(a)
      /\ w.s.cur = a.cur /\ w.s.exit_to_main_requested = a.exiting
      /\ w.s.nrunners = Len(a.runners) /\ w.s.nyielders = Len(a.yielders)
      /\ w.s.npaused = Cardinality(a.paused)
      /\ Linked(w.m, t, "runners", a.runners) /\ Linked(w.m, t, "yielders", a.yielders)
      /\ MapIs(w.m, w.s.paused, a.paused)
  BY DEF Keeps
<1>2. Parts(a) /\ PartsApart(t, a)
  BY <1>1, OrderlyParts, PartsAreApart
<1>3. Queue(a.runners) /\ Queue(a.yielders) /\ a.paused \subseteq Ids
  BY <1>2 DEF Parts
<1>4. "runners" \in Lists /\ "yielders" \in Lists
  BY DEF Lists
<1> PICK x : x = MapDelete(w.m, w.s.paused, co)
  OBVIOUS
<1>5. Replaced(w.m, a.paused, x, a.paused \ {co})
  BY <1>1, MapDeleteIs
<1> DEFINE A == NodesOf(a.paused)
<1>6. x.mem \in Memories /\ MapIs(x.mem, x.map, a.paused \ {co}) /\ SameOutside(w.m, x.mem, A)
  <2>1. a.paused \cup (a.paused \ {co}) = a.paused
    OBVIOUS
  <2> QED BY <1>5, <2>1 DEF Replaced
<1>7. /\ A \cap ListAddr(t, "yielders", a.yielders) = {} /\ A \cap ListAddr(t, "runners", a.runners) = {}
      /\ A \subseteq NodesOf(S!Waiting(a)) \cup EndsOf(t)
  BY <1>2 DEF PartsApart
<1> HIDE DEF A
<1>8. Linked(x.mem, t, "yielders", a.yielders) /\ Linked(x.mem, t, "runners", a.runners)
  BY <1>1, <1>3, <1>4, <1>6, <1>7, LinkedKept
<1>10. SameOutside(w.m, x.mem, NodesOf(S!Waiting(a)) \cup EndsOf(t))
  BY <1>6, <1>7, SameWider
<1>11. /\ r.m = x.mem /\ r.s \in SchedRecs
       /\ r.s.cur = w.s.cur /\ r.s.nrunners = w.s.nrunners /\ r.s.nyielders = w.s.nyielders
       /\ r.s.paused = x.map /\ r.s.npaused = w.s.npaused - 1
       /\ r.s.exit_to_main_requested = w.s.exit_to_main_requested
  <2>1. x.map \in Maps
    BY <1>6 DEF MapIs
  <2>2. r = WithPaused(w, x, -1)
    BY DEF DeletePaused
  <2>3. PausedWritten(w, r, x, -1)
    BY <1>1, <2>1, <2>2, WithPausedIs
  <2> QED BY <1>1, <2>3 DEF PausedWritten, SchedRecs
<1>12. /\ S!Orderly(b) /\ b.cur = a.cur /\ b.exiting = a.exiting /\ b.runners = a.runners
       /\ b.yielders = a.yielders /\ b.paused = a.paused \ {co}
  <2>1. a \in S!ThreadStates
    BY <1>2 DEF Parts
  <2>2. /\ b \in S!ThreadStates /\ b.cur = a.cur /\ b.exiting = a.exiting /\ b.runners = a.runners
        /\ b.yielders = a.yielders /\ b.paused = a.paused \ {co}
    BY <2>1 DEF S!ThreadStates
  <2> QED BY <1>1, <2>2 DEF S!Orderly
<1>13. Cardinality(a.paused \ {co}) = Cardinality(a.paused) - 1
  BY <1>3, IdsAreFinite, FS_RemoveElement
<1>14. Keeps(t, r, b)
  BY <1>1, <1>6, <1>8, <1>11, <1>12, <1>13 DEF Keeps
<1>15. Goes(t, w, r, b, S!Waiting(a))
  BY <1>10, <1>11, <1>14 DEF Goes
<1> QED BY <1>15

-----------------------------------------------------------------------------
(* Who is next.                                                            *)

LEMMA KeepsUnfold ==
  ASSUME NEW t \in Threads, NEW w, NEW a, Keeps(t, w, a)
  PROVE  /\ w.m \in Memories /\ w.s \in SchedRecs /\ S!Orderly(a) /\ Parts(a) /\ PartsApart(t, a)
         /\ Linked(w.m, t, "runners", a.runners) /\ Linked(w.m, t, "yielders", a.yielders)
         /\ MapIs(w.m, w.s.paused, a.paused)
         /\ a.runners \in Seq(Ids) /\ a.yielders \in Seq(Ids) /\ Queue(a.runners) /\ Queue(a.yielders)
<1>1. S!Orderly(a)
  BY DEF Keeps
<1>2. Parts(a) /\ PartsApart(t, a)
  BY <1>1, OrderlyParts, PartsAreApart
<1> QED BY <1>1, <1>2 DEF Keeps, Parts, Queue

\* What is in no list and no map may be written.
LEMMA KeptOutside ==
  ASSUME Heights = Nat, NEW t \in Threads, NEW w, NEW a, Keeps(t, w, a), NEW r, NEW A,
         r.m \in Memories, r.s = w.s, SameOutside(w.m, r.m, A), A \cap (NodesOf(S!Waiting(a)) \cup EndsOf(t)) = {}
  PROVE  Keeps(t, r, a)
<1>1. /\ Parts(a) /\ PartsApart(t, a) /\ Queue(a.runners) /\ Queue(a.yielders)
      /\ Linked(w.m, t, "runners", a.runners) /\ Linked(w.m, t, "yielders", a.yielders)
      /\ MapIs(w.m, w.s.paused, a.paused)
  BY KeepsUnfold
<1>2. "runners" \in Lists /\ "yielders" \in Lists
  BY DEF Lists
<1>3. /\ A \cap ListAddr(t, "runners", a.runners) = {} /\ A \cap ListAddr(t, "yielders", a.yielders) = {}
      /\ A \cap NodesOf(a.paused) = {}
  BY <1>1 DEF PartsApart
<1>4. Linked(r.m, t, "runners", a.runners) /\ Linked(r.m, t, "yielders", a.yielders)
  BY <1>1, <1>2, <1>3, LinkedKept
<1>5. MapIs(r.m, w.s.paused, a.paused)
  BY <1>1, <1>3, MapKept
<1> QED BY <1>4, <1>5 DEF Keeps

LEMMA SelfLinkWritten ==
  ASSUME NEW m \in Memories, NEW n \in Addr
  PROVE  /\ SelfLinked(m, n) \in Memories /\ SameOutside(m, SelfLinked(m, n), {n})
         /\ IsSelfLinked(SelfLinked(m, n), n)
<1> PICK a : a = PrevSet(m, n, n)
  OBVIOUS
<1>1. PrevWritten(m, a, n, n)
  BY PrevIsWritten
<1> PICK b : b = NextSet(a, n, n)
  OBVIOUS
<1>2. NextWritten(a, b, n, n)
  BY <1>1, NextIsWritten DEF PrevWritten
<1>3. b = SelfLinked(m, n)
  BY SelfLinkedIs
<1>4. a.level = m.level /\ a.next = m.next /\ \A x \in Addr : a.prev[x] = IF x = n THEN n ELSE m.prev[x]
  BY <1>1 DEF PrevWritten
<1>5. b \in Memories /\ b.level = a.level /\ b.prev = a.prev /\ \A x \in Addr : b.next[x] = IF x = n THEN n ELSE a.next[x]
  BY <1>2 DEF NextWritten
<1>6. SameOutside(m, b, {n})
  BY <1>4, <1>5 DEF SameOutside
<1>7. IsSelfLinked(b, n)
  BY <1>4, <1>5 DEF IsSelfLinked
<1> QED BY <1>3, <1>5, <1>6, <1>7

LEMMA SelfLinkKept ==
  ASSUME NEW m, NEW r, NEW A, NEW n \in Addr, n \notin A, IsSelfLinked(m, n), SameOutside(m, r, A)
  PROVE  IsSelfLinked(r, n)
  BY DEF IsSelfLinked, SameOutside

LEMMA RelinkedIs ==
  ASSUME Heights = Nat, NEW t \in Threads, NEW w, NEW a, Keeps(t, w, a), NEW co \in Ids, co \notin S!Waiting(a)
  PROVE  Goes(t, w, Relinked(w, co), a, {co}) /\ IsSelfLinked(Relinked(w, co).m, Node(co))
<1> PICK x : x = SelfLinked(w.m, Node(co))
  OBVIOUS
<1> PICK r : r = Relinked(w, co)
  OBVIOUS
<1>1. w.m \in Memories /\ Node(co) \in Addr
  BY KeepsUnfold DEF Addr, CoNodes
<1>2. x \in Memories /\ SameOutside(w.m, x, {Node(co)}) /\ IsSelfLinked(x, Node(co))
  BY <1>1, SelfLinkWritten
<1>3. r.m = x /\ r.s = w.s
  BY DEF Relinked
<1>4. {Node(co)} \cap (NodesOf(S!Waiting(a)) \cup EndsOf(t)) = {}
  BY NodeFacts DEF NodesOf, EndsOf
<1>5. Keeps(t, r, a) /\ SameOutside(w.m, r.m, {Node(co)})
  <2>1. r.m \in Memories /\ SameOutside(w.m, r.m, {Node(co)})
    BY <1>2, <1>3
  <2> QED BY <1>3, <1>4, <2>1, KeptOutside
<1>6. SameOutside(w.m, r.m, NodesOf({co}) \cup EndsOf(t))
  <2>1. {Node(co)} \subseteq NodesOf({co}) \cup EndsOf(t)
    BY DEF NodesOf
  <2> QED BY <1>5, <2>1, SameWider
<1>7. Goes(t, w, r, a, {co})
  BY <1>5, <1>6 DEF Goes
<1> QED BY <1>2, <1>3, <1>7

\* A step after which the current coroutine, if there is one, is in no list.
Switched(t, w, r, b, C) ==
  Goes(t, w, r, b, C) /\ (r.s.cur # NONE => IsSelfLinked(r.m, Node(r.s.cur)))

LEMMA ReturnToMainIs ==
  ASSUME Heights = Nat, NEW t \in Threads, NEW w, NEW a, Keeps(t, w, a)
  PROVE  Switched(t, w, ReturnToMain(w), S!ReturnToMain(a), S!Waiting(a))
<1> PICK r : r = ReturnToMain(w)
  OBVIOUS
<1> PICK b : b = S!ReturnToMain(a)
  OBVIOUS
<1>1. w.s \in SchedRecs /\ Parts(a) /\ S!Orderly(a)
  BY KeepsUnfold
<1>2. /\ r.m = w.m /\ r.s \in SchedRecs /\ r.s.cur = NONE /\ r.s.exit_to_main_requested = FALSE
      /\ r.s.nrunners = w.s.nrunners /\ r.s.nyielders = w.s.nyielders
      /\ r.s.paused = w.s.paused /\ r.s.npaused = w.s.npaused
  BY <1>1 DEF ReturnToMain, SchedRecs
<1>3. /\ b \in S!ThreadStates /\ b.cur = NONE /\ b.exiting = FALSE
      /\ b.runners = a.runners /\ b.yielders = a.yielders /\ b.paused = a.paused
  BY <1>1 DEF Parts, S!ReturnToMain, S!ThreadStates
<1>4. S!Orderly(b)
  BY <1>1, <1>3 DEF S!Orderly
<1>5. Keeps(t, r, b)
  BY <1>2, <1>3, <1>4 DEF Keeps
<1>6. SameOutside(w.m, r.m, NodesOf(S!Waiting(a)) \cup EndsOf(t))
  BY <1>2 DEF SameOutside
<1>7. Switched(t, w, r, b, S!Waiting(a))
  BY <1>2, <1>5, <1>6 DEF Switched, Goes
<1> QED BY <1>7

LEMMA RunNextIs ==
  ASSUME Heights = Nat, NEW t \in Threads, NEW w, NEW a, Keeps(t, w, a), a.runners # <<>>
  PROVE  Switched(t, w, RunNext(w, t), S!RunFirst(a, a.runners), S!Waiting(a))
<1> PICK r : r = RunNext(w, t)
  OBVIOUS
<1> PICK b : b = S!RunFirst(a, a.runners)
  OBVIOUS
<1> DEFINE q == a.runners
           A == ListAddr(t, "runners", q)
<1> PICK h : h = Head(q)
  OBVIOUS
<1>1. /\ w.m \in Memories /\ w.s \in SchedRecs /\ S!Orderly(a) /\ Parts(a) /\ PartsApart(t, a)
      /\ Linked(w.m, t, "runners", q) /\ Linked(w.m, t, "yielders", a.yielders)
      /\ MapIs(w.m, w.s.paused, a.paused)
      /\ q \in Seq(Ids) /\ Queue(q) /\ Queue(a.yielders)
  BY KeepsUnfold
<1>2. "runners" \in Lists /\ "yielders" \in Lists
  BY DEF Lists
<1>3. w.m.next[Front(t, "runners")] = Node(h)
  BY <1>1, <1>2, FirstOf
<1>4. Node(h) # Back(t, "runners") /\ Node(h)[1] = h
  BY NodeFacts
<1> PICK x : x = Remove(w.m, Node(h))
  OBVIOUS
<1>5. Popped(w.m, x, t, "runners", q)
  BY <1>1, <1>2, PopIs
<1>6. x \in Memories /\ Linked(x, t, "runners", Tail(q)) /\ IsSelfLinked(x, Node(h)) /\ SameOutside(w.m, x, A)
  BY <1>5 DEF Popped
<1>7. h \in Ids /\ Tail(q) \in Seq(Ids) /\ Len(Tail(q)) = Len(q) - 1
  BY <1>1
<1>8. /\ A \cap ListAddr(t, "yielders", a.yielders) = {} /\ A \cap NodesOf(a.paused) = {}
      /\ A \subseteq NodesOf(S!Waiting(a)) \cup EndsOf(t)
  BY <1>1 DEF PartsApart
<1> HIDE DEF A
<1>9. Linked(x, t, "yielders", a.yielders)
  BY <1>1, <1>2, <1>6, <1>8, LinkedKept
<1>10. MapIs(x, w.s.paused, a.paused)
  BY <1>1, <1>6, <1>8, MapKept
<1>11. SameOutside(w.m, x, NodesOf(S!Waiting(a)) \cup EndsOf(t))
  BY <1>6, <1>8, SameWider
<1>12. /\ r.m = x /\ r.s \in SchedRecs /\ r.s.cur = h /\ r.s.nrunners = w.s.nrunners - 1
       /\ r.s.nyielders = w.s.nyielders /\ r.s.paused = w.s.paused /\ r.s.npaused = w.s.npaused
       /\ r.s.exit_to_main_requested = w.s.exit_to_main_requested
  <2> DEFINE s == w.s
             n == w.s.nrunners - 1
             v == [s EXCEPT !.cur = h, !.nrunners = n]
  <2>1. r = [m |-> x, s |-> v]
    BY <1>3, <1>4 DEF RunNext
  <2>2. s \in SchedRecs /\ n \in Int
    BY <1>1 DEF SchedRecs
  <2> HIDE DEF s, n
  <2>3. /\ v \in SchedRecs /\ v.cur = h /\ v.nrunners = n
        /\ v.nyielders = s.nyielders /\ v.paused = s.paused /\ v.npaused = s.npaused
        /\ v.exit_to_main_requested = s.exit_to_main_requested
    BY <1>7, <2>2 DEF SchedRecs
  <2> HIDE DEF v
  <2> QED BY <2>1, <2>3 DEF s, n
<1>13. /\ S!Orderly(b) /\ b.cur = h /\ b.exiting = a.exiting /\ b.runners = Tail(q)
       /\ b.yielders = a.yielders /\ b.paused = a.paused
  <2>1. S!Orderly(b)
    <3>1. NONE \notin S!Ids
      BY NoneAssumption DEF S!Ids
    <3> QED BY <1>1, <3>1, S!RunFirstFacts DEF S!Clean
  <2> QED BY <1>1, <2>1 DEF Parts, S!ThreadStates, S!RunFirst
<1>14. Keeps(t, r, b)
  BY <1>1, <1>6, <1>7, <1>9, <1>10, <1>12, <1>13 DEF Keeps
<1>15. Switched(t, w, r, b, S!Waiting(a))
  BY <1>6, <1>11, <1>12, <1>14 DEF Goes, Switched
<1> QED BY <1>15

\* The yielders as the runners, when there is no runner.
AllRun(a) == [a EXCEPT !.runners = a.yielders, !.yielders = <<>>]

LEMMA AllRunFacts ==
  ASSUME NEW a, S!Orderly(a), a.runners = <<>>
  PROVE  /\ S!Orderly(AllRun(a)) /\ S!Waiting(AllRun(a)) = S!Waiting(a)
         /\ AllRun(a).cur = a.cur /\ AllRun(a).exiting = a.exiting /\ AllRun(a).paused = a.paused
         /\ AllRun(a).runners = a.yielders /\ AllRun(a).yielders = <<>>
<1>1. a \in S!ThreadStates
  BY DEF S!Orderly
<1>2. <<>> \in Seq(S!Ids) /\ S!Once(<<>>) /\ S!Elems(<<>>) = {}
  BY S!EmptyFacts
<1> PICK b : b = AllRun(a)
  OBVIOUS
<1>3. /\ b \in S!ThreadStates /\ b.cur = a.cur /\ b.exiting = a.exiting /\ b.paused = a.paused
      /\ b.runners = a.yielders /\ b.yielders = <<>>
  BY <1>1, <1>2 DEF S!ThreadStates, AllRun
<1>4. S!Orderly(b)
  BY <1>2, <1>3 DEF S!Orderly
<1>5. S!Waiting(b) = S!Waiting(a)
  BY <1>2, <1>3 DEF S!Waiting
<1> QED BY <1>3, <1>4, <1>5

CountsAre(s, v, n, k) ==
  /\ v \in SchedRecs /\ v.cur = s.cur /\ v.nrunners = n /\ v.nyielders = k
  /\ v.paused = s.paused /\ v.npaused = s.npaused
  /\ v.exit_to_main_requested = s.exit_to_main_requested

LEMMA CountsWritten ==
  ASSUME NEW s \in SchedRecs, NEW n \in Int, NEW k \in Int
  PROVE  CountsAre(s, [s EXCEPT !.nrunners = n, !.nyielders = k], n, k)
  BY DEF SchedRecs, CountsAre

LEMMA YieldersRunIs ==
  ASSUME Heights = Nat, NEW t \in Threads, NEW w, NEW a, Keeps(t, w, a), a.runners = <<>>, a.yielders # <<>>
  PROVE  Goes(t, w, YieldersBecomeRunners(w, t), AllRun(a), S!Waiting(a))
<1> PICK r : r = YieldersBecomeRunners(w, t)
  OBVIOUS
<1> PICK b : b = AllRun(a)
  OBVIOUS
<1> DEFINE q == a.yielders
           A == ListAddr(t, "runners", q) \cup ListAddr(t, "yielders", q)
<1>1. /\ w.m \in Memories /\ w.s \in SchedRecs /\ S!Orderly(a) /\ PartsApart(t, a)
      /\ Linked(w.m, t, "yielders", q) /\ MapIs(w.m, w.s.paused, a.paused)
      /\ Queue(q)
  BY KeepsUnfold
<1> PICK x : x = Splice(w.m, t)
  OBVIOUS
<1>2. Spliced(w.m, x, t, q)
  BY <1>1, SpliceMoves
<1>3. x \in Memories /\ Linked(x, t, "runners", q) /\ Linked(x, t, "yielders", <<>>) /\ SameOutside(w.m, x, A)
  BY <1>2 DEF Spliced
<1>4. A \cap NodesOf(a.paused) = {} /\ A \subseteq NodesOf(S!Waiting(a)) \cup EndsOf(t)
  <2>1. /\ ListAddr(t, "yielders", q) \cap NodesOf(a.paused) = {}
        /\ ListAddr(t, "yielders", q) \subseteq NodesOf(S!Waiting(a)) \cup EndsOf(t)
    BY <1>1 DEF PartsApart
  <2>2. {Front(t, "runners"), Back(t, "runners")} \cap NodesOf(a.paused) = {}
    BY NodeFacts DEF NodesOf
  <2>3. {Front(t, "runners"), Back(t, "runners")} \subseteq EndsOf(t)
    BY DEF EndsOf, Lists
  <2>4. A = ListAddr(t, "yielders", q) \cup {Front(t, "runners"), Back(t, "runners")}
    BY DEF ListAddr
  <2> QED BY <2>1, <2>2, <2>3, <2>4
<1> HIDE DEF A
<1>5. MapIs(x, w.s.paused, a.paused)
  BY <1>1, <1>3, <1>4, MapKept
<1>6. SameOutside(w.m, x, NodesOf(S!Waiting(a)) \cup EndsOf(t))
  BY <1>3, <1>4, SameWider
<1>7. /\ r.m = x /\ r.s \in SchedRecs /\ r.s.cur = w.s.cur /\ r.s.nrunners = w.s.nyielders
      /\ r.s.nyielders = 0 /\ r.s.paused = w.s.paused /\ r.s.npaused = w.s.npaused
      /\ r.s.exit_to_main_requested = w.s.exit_to_main_requested
  <2> DEFINE s == w.s
             n == w.s.nyielders
             k == 0
             v == [s EXCEPT !.nrunners = n, !.nyielders = k]
  <2>1. r = [m |-> x, s |-> v]
    BY DEF YieldersBecomeRunners
  <2>2. s \in SchedRecs /\ n \in Int /\ k \in Int
    BY <1>1 DEF SchedRecs
  <2> HIDE DEF s, n, k
  <2>3. CountsAre(s, v, n, k)
    BY <2>2, CountsWritten
  <2> HIDE DEF v
  <2> QED BY <2>1, <2>3 DEF CountsAre, s, n, k
<1>8. /\ S!Orderly(b) /\ b.cur = a.cur /\ b.exiting = a.exiting /\ b.paused = a.paused
      /\ b.runners = q /\ b.yielders = <<>>
  BY <1>1, AllRunFacts
<1>9. Keeps(t, r, b)
  <2>1. /\ w.s.cur = a.cur /\ w.s.exit_to_main_requested = a.exiting
        /\ w.s.nyielders = Len(q) /\ w.s.npaused = Cardinality(a.paused)
    BY DEF Keeps
  <2>2. Len(<<>>) = 0
    OBVIOUS
  <2> QED BY <1>3, <1>5, <1>7, <1>8, <2>1, <2>2 DEF Keeps
<1>10. Goes(t, w, r, b, S!Waiting(a))
  BY <1>6, <1>7, <1>9 DEF Goes
<1> QED BY <1>10

SameFirst(b, c, h, k) == [c EXCEPT !.cur = h, !.runners = k] = [b EXCEPT !.cur = h, !.runners = k]

LEMMA SameRunFirst ==
  ASSUME NEW b \in S!ThreadStates, NEW c \in S!ThreadStates, NEW h \in S!Ids, NEW k \in Seq(S!Ids),
         b.yielders = c.yielders, b.exiting = c.exiting, b.paused = c.paused
  PROVE  SameFirst(b, c, h, k)
<1> DEFINE x == [c EXCEPT !.cur = h, !.runners = k]
           y == [b EXCEPT !.cur = h, !.runners = k]
<1>1. /\ x \in S!ThreadStates /\ x.cur = h /\ x.runners = k /\ x.yielders = c.yielders
      /\ x.exiting = c.exiting /\ x.paused = c.paused
  BY DEF S!ThreadStates
<1>2. /\ y \in S!ThreadStates /\ y.cur = h /\ y.runners = k /\ y.yielders = b.yielders
      /\ y.exiting = b.exiting /\ y.paused = b.paused
  BY DEF S!ThreadStates
<1> HIDE DEF x, y
<1>3. x = y
  BY <1>1, <1>2 DEF S!ThreadStates
<1> QED BY <1>3 DEF x, y, SameFirst

LEMMA AbstractSwitch ==
  ASSUME NEW a, S!Orderly(a), NEW main \in BOOLEAN
  PROVE  /\ a.runners # <<>> => S!Switch(a, main) = S!RunFirst(a, a.runners)
         /\ a.runners = <<>> /\ (a.yielders = <<>> \/ a.exiting \/ (~main /\ a.paused # {})) =>
              S!Switch(a, main) = S!ReturnToMain(a)
         /\ a.runners = <<>> /\ ~(a.yielders = <<>> \/ a.exiting \/ (~main /\ a.paused # {})) =>
              S!Switch(a, main) = S!RunFirst(AllRun(a), AllRun(a).runners)
<1>1. a.runners # <<>> => S!Switch(a, main) = S!RunFirst(a, a.runners)
  BY DEF S!Switch
<1>2. a.runners = <<>> /\ (a.yielders = <<>> \/ a.exiting \/ (~main /\ a.paused # {})) =>
        S!Switch(a, main) = S!ReturnToMain(a)
  BY DEF S!Switch
<1>3. ASSUME a.runners = <<>>, ~(a.yielders = <<>> \/ a.exiting \/ (~main /\ a.paused # {}))
      PROVE  S!Switch(a, main) = S!RunFirst(AllRun(a), AllRun(a).runners)
  <2>1. S!Switch(a, main) = S!RunFirst([a EXCEPT !.yielders = <<>>], a.yielders)
    BY <1>3 DEF S!Switch
  <2>2. a \in S!ThreadStates
    BY DEF S!Orderly
  <2>3. <<>> \in Seq(S!Ids)
    OBVIOUS
  <2> PICK c : c = [a EXCEPT !.yielders = <<>>]
    OBVIOUS
  <2>4. c \in S!ThreadStates /\ c.exiting = a.exiting /\ c.paused = a.paused /\ c.yielders = <<>>
    BY <2>2, <2>3 DEF S!ThreadStates
  <2> PICK b : b = AllRun(a)
    OBVIOUS
  <2>5. /\ b \in S!ThreadStates /\ b.exiting = a.exiting /\ b.paused = a.paused
        /\ b.runners = a.yielders /\ b.yielders = <<>>
    BY <1>3, AllRunFacts DEF S!Orderly
  <2>6. Head(a.yielders) \in S!Ids /\ Tail(a.yielders) \in Seq(S!Ids)
    BY <1>3, <2>2 DEF S!ThreadStates
  <2> PICK h \in S!Ids : h = Head(a.yielders)
    BY <2>6
  <2> PICK k \in Seq(S!Ids) : k = Tail(a.yielders)
    BY <2>6
  <2>7. SameFirst(b, c, h, k)
    BY <2>4, <2>5, SameRunFirst
  <2>8. S!RunFirst(c, a.yielders) = [c EXCEPT !.cur = h, !.runners = k]
    BY DEF S!RunFirst
  <2>9. S!RunFirst(b, b.runners) = [b EXCEPT !.cur = h, !.runners = k]
    BY <2>5 DEF S!RunFirst
  <2> QED BY <2>1, <2>7, <2>8, <2>9 DEF SameFirst
<1> QED BY <1>1, <1>2, <1>3

LEMMA SwitchIs ==
  ASSUME Heights = Nat, NEW t \in Threads, NEW w, NEW a, Keeps(t, w, a), NEW main \in BOOLEAN
  PROVE  Switched(t, w, Switch(w, t, main), S!Switch(a, main), S!Waiting(a))
<1>1. S!Orderly(a) /\ a.paused \subseteq Ids /\ a.runners \in Seq(Ids) /\ a.yielders \in Seq(Ids)
  BY KeepsUnfold DEF Parts
<1>2. /\ w.s.nrunners = Len(a.runners) /\ w.s.nyielders = Len(a.yielders)
      /\ w.s.npaused = Cardinality(a.paused) /\ w.s.exit_to_main_requested = a.exiting
  BY DEF Keeps
<1>3. w.s.nrunners > 0 <=> a.runners # <<>>
  BY <1>1, <1>2
<1>4. w.s.nyielders = 0 <=> a.yielders = <<>>
  BY <1>1, <1>2
<1>5. w.s.npaused > 0 <=> a.paused # {}
  BY <1>1, <1>2, IdsAreFinite, FS_EmptySet
<1> DEFINE ToMain == a.yielders = <<>> \/ a.exiting \/ (~main /\ a.paused # {})
<1>6. GoesToMain(w.s, main) <=> ToMain
  BY <1>2, <1>4, <1>5 DEF GoesToMain
<1>7. CASE a.runners # <<>>
  <2>1. Switched(t, w, RunNext(w, t), S!RunFirst(a, a.runners), S!Waiting(a))
    BY <1>7, RunNextIs
  <2>2. Switch(w, t, main) = RunNext(w, t)
    BY <1>3, <1>7 DEF Switch
  <2>3. S!Switch(a, main) = S!RunFirst(a, a.runners)
    BY <1>1, <1>7, AbstractSwitch
  <2> QED BY <2>1, <2>2, <2>3
<1>8. CASE a.runners = <<>> /\ ToMain
  <2>1. Switched(t, w, ReturnToMain(w), S!ReturnToMain(a), S!Waiting(a))
    BY ReturnToMainIs
  <2>2. Switch(w, t, main) = ReturnToMain(w)
    BY <1>3, <1>6, <1>8 DEF Switch
  <2>3. S!Switch(a, main) = S!ReturnToMain(a)
    BY <1>1, <1>8, AbstractSwitch
  <2> QED BY <2>1, <2>2, <2>3
<1>9. CASE a.runners = <<>> /\ ~ToMain
  <2> PICK y : y = YieldersBecomeRunners(w, t)
    OBVIOUS
  <2> PICK b : b = AllRun(a)
    OBVIOUS
  <2>1. Goes(t, w, y, b, S!Waiting(a))
    BY <1>9, YieldersRunIs
  <2>2. Keeps(t, y, b) /\ SameOutside(w.m, y.m, NodesOf(S!Waiting(a)) \cup EndsOf(t))
    BY <2>1 DEF Goes
  <2>3. b.runners # <<>> /\ S!Waiting(b) = S!Waiting(a)
    BY <1>1, <1>9, AllRunFacts
  <2> PICK z : z = RunNext(y, t)
    OBVIOUS
  <2> PICK d : d = S!RunFirst(b, b.runners)
    OBVIOUS
  <2>4. Switched(t, y, z, d, S!Waiting(b))
    BY <2>2, <2>3, RunNextIs
  <2>5. /\ Keeps(t, z, d) /\ (z.s.cur # NONE => IsSelfLinked(z.m, Node(z.s.cur)))
        /\ SameOutside(y.m, z.m, NodesOf(S!Waiting(a)) \cup EndsOf(t))
    BY <2>3, <2>4 DEF Switched, Goes
  <2>6. SameOutside(w.m, z.m, NodesOf(S!Waiting(a)) \cup EndsOf(t))
    <3>1. \A A : A \cup A = A
      OBVIOUS
    <3> QED BY <2>2, <2>5, <3>1, SameTwice
  <2>7. Switched(t, w, z, d, S!Waiting(a))
    BY <2>5, <2>6 DEF Switched, Goes
  <2>8. Switch(w, t, main) = z
    BY <1>3, <1>6, <1>9 DEF Switch
  <2>9. S!Switch(a, main) = d
    BY <1>1, <1>9, AbstractSwitch
  <2> QED BY <2>7, <2>8, <2>9
<1> QED BY <1>7, <1>8, <1>9

-----------------------------------------------------------------------------
(* All threads.                                                            *)

\* Each thread keeps its scheduler, in memory that shows where links are written.
Shape ==
  /\ mem \in Memories /\ sco \in [Threads -> SchedRecs]
  /\ \A t \in Threads : /\ Keeps(t, Now(t), Sched[t])
                        /\ sco[t].cur # NONE => IsSelfLinked(mem, Node(sco[t].cur))
  /\ MapIs(mem, detached, Detached)
  /\ \A n \in NodesOf(finished) \cup Nowhere : mem.prev[n] = FREED /\ mem.next[n] = FREED

\* The inductive invariant: that, and the scheduler's own.
CInv == S!IInv /\ Shape

\* Nobody but thread t has the coroutines C.
Own(t, C) ==
  /\ C \cap (Detached \cup finished) = {}
  /\ \A u \in Threads \ {t} : C \cap S!Has(u) = {}

\* The scheduler that w is.
StandsFor(t, w) ==
  [cur |-> w.s.cur, runners |-> List(w.m, t, "runners"), yielders |-> List(w.m, t, "yielders"),
   paused |-> Members(w.m, w.s.paused), exiting |-> w.s.exit_to_main_requested]

LEMMA KeptIs ==
  ASSUME Heights = Nat, NEW t \in Threads, NEW w, NEW a, Keeps(t, w, a)
  PROVE  StandsFor(t, w) = a
<1>1. /\ w.m \in Memories /\ Parts(a) /\ Queue(a.runners) /\ Queue(a.yielders)
      /\ Linked(w.m, t, "runners", a.runners) /\ Linked(w.m, t, "yielders", a.yielders)
      /\ MapIs(w.m, w.s.paused, a.paused)
  BY KeepsUnfold
<1>2. "runners" \in Lists /\ "yielders" \in Lists
  BY DEF Lists
<1>3. List(w.m, t, "runners") = a.runners /\ List(w.m, t, "yielders") = a.yielders
  BY <1>1, <1>2, ListIs
<1>4. Members(w.m, w.s.paused) = a.paused
  BY <1>1, MembersAre
<1>5. w.s.cur = a.cur /\ w.s.exit_to_main_requested = a.exiting
  BY DEF Keeps
<1>6. a = [cur |-> a.cur, runners |-> a.runners, yielders |-> a.yielders, paused |-> a.paused, exiting |-> a.exiting]
  BY <1>1 DEF Parts, S!ThreadStates
<1> QED BY <1>3, <1>4, <1>5, <1>6, Zenon DEF StandsFor

LEMMA SchedStands == Sched = [t \in Threads |-> StandsFor(t, Now(t))]
  BY DEF Sched, StandsFor, Now

\* The addresses that belong to the coroutines C and the lists of thread t are none
\* of another thread's.
LEMMA OwnApart ==
  ASSUME NEW t \in Threads, NEW C, Own(t, C), NEW u \in Threads \ {t}
  PROVE  /\ (NodesOf(C) \cup EndsOf(t)) \cap (NodesOf(S!Waiting(Sched[u])) \cup EndsOf(u)) = {}
         /\ Sched[u].cur # NONE => Node(Sched[u].cur) \notin NodesOf(C) \cup EndsOf(t)
<1> DEFINE W == S!Waiting(Sched[u])
<1>1. S!Has(u) = W \cup ({Sched[u].cur} \ {NONE})
  BY DEF S!Has, S!Owned
<1>2. C \cap S!Has(u) = {}
  BY DEF Own
<1>3. C \cap W = {} /\ (Sched[u].cur # NONE => Sched[u].cur \notin C)
  BY <1>1, <1>2
<1> HIDE DEF W
<1>4. NodesOf(C) \cap NodesOf(W) = {}
  BY <1>3, NodeFacts DEF NodesOf
<1>5. EndsOf(t) \cap EndsOf(u) = {}
  BY SetsApart
<1>6. NodesOf(C) \cap EndsOf(u) = {} /\ NodesOf(W) \cap EndsOf(t) = {}
  BY SetsApart
<1>7. Sched[u].cur # NONE => Node(Sched[u].cur) \notin NodesOf(C) \cup EndsOf(t)
  BY <1>3, NodeFacts DEF NodesOf, EndsOf
<1> QED BY <1>4, <1>5, <1>6, <1>7 DEF W

\* The step from the memory and variables of thread t to w, which is the scheduler b.
Written(t, w, b, C) ==
  /\ mem' = w.m /\ sco' = [sco EXCEPT ![t] = w.s] /\ detached' = detached
  /\ Switched(t, Now(t), w, b, C)

Reached(t, b) ==
  /\ Sched' = [Sched EXCEPT ![t] = b] /\ Detached' = Detached
  /\ mem' \in Memories /\ sco' \in [Threads -> SchedRecs]
  /\ \A u \in Threads : /\ Keeps(u, [m |-> mem', s |-> sco'[u]], Sched'[u])
                        /\ sco'[u].cur # NONE => IsSelfLinked(mem', Node(sco'[u].cur))
  /\ MapIs(mem', detached', Detached')
  /\ \A n \in NodesOf(finished) \cup Nowhere : mem'.prev[n] = FREED /\ mem'.next[n] = FREED

LEMMA LocalStep ==
  ASSUME Heights = Nat, CInv, NEW t \in Threads, NEW w, NEW b, NEW C, Written(t, w, b, C), Own(t, C)
  PROVE  Reached(t, b)
<1> DEFINE A == NodesOf(C) \cup EndsOf(t)
<1>1. /\ mem \in Memories /\ sco \in [Threads -> SchedRecs]
      /\ \A u \in Threads : /\ Keeps(u, Now(u), Sched[u])
                            /\ sco[u].cur # NONE => IsSelfLinked(mem, Node(sco[u].cur))
      /\ MapIs(mem, detached, Detached)
      /\ \A n \in NodesOf(finished) \cup Nowhere : mem.prev[n] = FREED /\ mem.next[n] = FREED
  BY DEF CInv, Shape
<1>2. mem' = w.m /\ sco' = [sco EXCEPT ![t] = w.s] /\ detached' = detached
  BY DEF Written
<1>3. Keeps(t, w, b) /\ SameOutside(mem, w.m, A) /\ (w.s.cur # NONE => IsSelfLinked(w.m, Node(w.s.cur)))
  BY DEF Written, Switched, Goes, Now
<1>4. w.m \in Memories /\ w.s \in SchedRecs
  BY <1>3 DEF Keeps
<1>5. mem' \in Memories /\ sco' \in [Threads -> SchedRecs] /\ sco'[t] = w.s
      /\ \A u \in Threads \ {t} : sco'[u] = sco[u]
  BY <1>1, <1>2, <1>4
<1>6. ASSUME NEW u \in Threads \ {t}
      PROVE  /\ Keeps(u, [m |-> mem', s |-> sco'[u]], Sched[u])
             /\ sco'[u].cur # NONE => IsSelfLinked(mem', Node(sco'[u].cur))
  <2>1. A \cap (NodesOf(S!Waiting(Sched[u])) \cup EndsOf(u)) = {}
    BY OwnApart
  <2>2. Sched[u].cur # NONE => Node(Sched[u].cur) \notin A
    BY OwnApart
  <2> HIDE DEF A
  <2>3. Keeps(u, Now(u), Sched[u]) /\ Now(u).m = mem /\ Now(u).s = sco[u]
    BY <1>1 DEF Now
  <2>4. Keeps(u, [m |-> w.m, s |-> sco[u]], Sched[u])
    <3> PICK r : r = [m |-> w.m, s |-> sco[u]]
      OBVIOUS
    <3>1. r.m = w.m /\ r.s = Now(u).s /\ r.m \in Memories /\ SameOutside(Now(u).m, r.m, A)
      BY <1>3, <1>4, <2>3
    <3>2. Keeps(u, r, Sched[u])
      BY <2>1, <2>3, <3>1, KeptOutside
    <3> QED BY <3>2
  <2>5. sco[u].cur = Sched[u].cur /\ (sco[u].cur # NONE => sco[u].cur \in Ids)
    BY <1>1, <2>3 DEF Keeps, SchedRecs
  <2>6. sco[u].cur # NONE => IsSelfLinked(w.m, Node(sco[u].cur))
    <3> SUFFICES ASSUME sco[u].cur # NONE PROVE IsSelfLinked(w.m, Node(sco[u].cur))
      OBVIOUS
    <3>1. Node(sco[u].cur) \in Addr /\ Node(sco[u].cur) \notin A /\ IsSelfLinked(mem, Node(sco[u].cur))
      BY <1>1, <2>2, <2>5 DEF Addr, CoNodes
    <3> QED BY <1>3, <3>1, SelfLinkKept
  <2> QED BY <1>2, <1>5, <2>4, <2>6
<1>7. /\ Keeps(t, [m |-> mem', s |-> sco'[t]], b)
      /\ sco'[t].cur # NONE => IsSelfLinked(mem', Node(sco'[t].cur))
  <2>1. Keeps(t, [m |-> w.m, s |-> w.s], b)
    BY <1>3 DEF Keeps
  <2> QED BY <1>2, <1>3, <1>5, <2>1
<1>8. Sched' = [Sched EXCEPT ![t] = b]
  <2>1. Sched' = [u \in Threads |-> StandsFor(u, [m |-> mem', s |-> sco'[u]])]
    BY DEF Sched, StandsFor
  <2>2. StandsFor(t, [m |-> mem', s |-> sco'[t]]) = b
    BY <1>7, KeptIs
  <2>3. \A u \in Threads \ {t} : StandsFor(u, [m |-> mem', s |-> sco'[u]]) = Sched[u]
    BY <1>6, KeptIs
  <2>4. Sched = [u \in Threads |-> Sched[u]]
    BY DEF Sched
  <2> QED BY <2>1, <2>2, <2>3, <2>4
<1>9. MapIs(mem', detached', Detached) /\ Detached' = Detached
  <2>1. A \cap NodesOf(Detached) = {}
    <3>1. C \cap Detached = {}
      BY DEF Own
    <3>2. NodesOf(C) \cap NodesOf(Detached) = {}
      BY <3>1, NodeFacts DEF NodesOf
    <3>3. EndsOf(t) \cap NodesOf(Detached) = {}
      BY SetsApart
    <3> QED BY <3>2, <3>3
  <2> HIDE DEF A
  <2>2. MapIs(w.m, detached, Detached)
    BY <1>1, <1>3, <2>1, MapKept
  <2>3. Members(w.m, detached) = Detached
    BY <1>4, <2>2, MembersAre
  <2>4. Detached' = Members(mem', detached')
    BY DEF Detached
  <2> QED BY <1>2, <2>2, <2>3, <2>4
<1>10. \A n \in NodesOf(finished) \cup Nowhere : mem'.prev[n] = FREED /\ mem'.next[n] = FREED
  <2> SUFFICES ASSUME NEW n \in NodesOf(finished) \cup Nowhere PROVE mem'.prev[n] = FREED /\ mem'.next[n] = FREED
    OBVIOUS
  <2>1. C \cap finished = {} /\ finished \subseteq Ids
    BY SameIds DEF Own, CInv, S!IInv, S!Types
  <2>2. n \in Addr
    BY <2>1 DEF NodesOf, Addr, CoNodes
  <2>3. n \notin A
    <3>1. NodesOf(C) \cap NodesOf(finished) = {}
      BY <2>1, NodeFacts DEF NodesOf
    <3>2. NodesOf(C) \cap Nowhere = {} /\ EndsOf(t) \cap Nowhere = {} /\ NodesOf(finished) \cap EndsOf(t) = {}
      BY SetsApart
    <3> QED BY <3>1, <3>2
  <2> HIDE DEF A
  <2>4. w.m.prev[n] = mem.prev[n] /\ w.m.next[n] = mem.next[n]
    BY <1>3, <2>2, <2>3 DEF SameOutside
  <2> QED BY <1>1, <1>2, <2>4
<1>11. Sched'[t] = b /\ \A u \in Threads \ {t} : Sched'[u] = Sched[u]
  <2>1. DOMAIN Sched = Threads
    BY DEF Sched
  <2> QED BY <1>8, <2>1
<1>12. \A u \in Threads : /\ Keeps(u, [m |-> mem', s |-> sco'[u]], Sched'[u])
                          /\ sco'[u].cur # NONE => IsSelfLinked(mem', Node(sco'[u].cur))
  BY <1>6, <1>7, <1>11
<1> QED BY <1>5, <1>8, <1>9, <1>10, <1>12 DEF Reached

\* The step that replaces coroutines in the map of detached ones.
Exchanged(r, new) ==
  /\ mem' = r.mem /\ detached' = r.map /\ sco' = sco
  /\ Replaced(mem, Detached, r, new)

Stayed(new) ==
  /\ Sched' = Sched /\ Detached' = new
  /\ mem' \in Memories /\ sco' \in [Threads -> SchedRecs]
  /\ \A u \in Threads : /\ Keeps(u, [m |-> mem', s |-> sco'[u]], Sched'[u])
                        /\ sco'[u].cur # NONE => IsSelfLinked(mem', Node(sco'[u].cur))
  /\ MapIs(mem', detached', Detached')
  /\ \A n \in NodesOf(finished) \cup Nowhere : mem'.prev[n] = FREED /\ mem'.next[n] = FREED

LEMMA SharedStep ==
  ASSUME Heights = Nat, CInv, NEW r, NEW new, Exchanged(r, new), new \cap finished = {},
         \A u \in Threads : new \cap S!Has(u) = {}
  PROVE  Stayed(new)
<1> DEFINE C == Detached \cup new
           A == NodesOf(C)
<1>1. /\ mem \in Memories /\ sco \in [Threads -> SchedRecs]
      /\ \A u \in Threads : /\ Keeps(u, Now(u), Sched[u])
                            /\ sco[u].cur # NONE => IsSelfLinked(mem, Node(sco[u].cur))
      /\ \A n \in NodesOf(finished) \cup Nowhere : mem.prev[n] = FREED /\ mem.next[n] = FREED
  BY DEF CInv, Shape
<1>2. mem' = r.mem /\ sco' = sco /\ detached' = r.map
  BY DEF Exchanged
<1>3. r.mem \in Memories /\ MapIs(r.mem, r.map, new) /\ SameOutside(mem, r.mem, A)
  BY DEF Exchanged, Replaced
<1>4. /\ C \cap finished = {} /\ finished \subseteq Ids
      /\ \A u \in Threads : C \cap S!Has(u) = {}
  BY SameIds DEF CInv, S!IInv, S!Parted, S!Types
<1>5. ASSUME NEW u \in Threads
      PROVE  /\ Keeps(u, [m |-> mem', s |-> sco'[u]], Sched[u])
             /\ sco'[u].cur # NONE => IsSelfLinked(mem', Node(sco'[u].cur))
  <2> DEFINE W == S!Waiting(Sched[u])
  <2>1. S!Has(u) = W \cup ({Sched[u].cur} \ {NONE})
    BY DEF S!Has, S!Owned
  <2>2. C \cap W = {} /\ (Sched[u].cur # NONE => Sched[u].cur \notin C)
    BY <1>4, <2>1
  <2> HIDE DEF C
  <2>3. A \cap (NodesOf(W) \cup EndsOf(u)) = {}
    <3>1. NodesOf(C) \cap NodesOf(W) = {}
      BY <2>2, NodeFacts DEF NodesOf
    <3>2. NodesOf(C) \cap EndsOf(u) = {}
      BY SetsApart
    <3> QED BY <3>1, <3>2
  <2>4. Sched[u].cur # NONE => Node(Sched[u].cur) \notin A
    BY <2>2, NodeFacts DEF NodesOf
  <2> HIDE DEF A
  <2>5. Keeps(u, Now(u), Sched[u]) /\ Now(u).m = mem /\ Now(u).s = sco[u]
    BY <1>1 DEF Now
  <2>6. Keeps(u, [m |-> r.mem, s |-> sco[u]], Sched[u])
    <3> PICK z : z = [m |-> r.mem, s |-> sco[u]]
      OBVIOUS
    <3>1. z.m = r.mem /\ z.s = Now(u).s /\ z.m \in Memories /\ SameOutside(Now(u).m, z.m, A)
      BY <1>3, <2>5
    <3>2. Keeps(u, z, Sched[u])
      BY <2>3, <2>5, <3>1, KeptOutside
    <3> QED BY <3>2
  <2>7. sco[u].cur = Sched[u].cur /\ (sco[u].cur # NONE => sco[u].cur \in Ids)
    BY <1>1, <2>5 DEF Keeps, SchedRecs
  <2>8. sco[u].cur # NONE => IsSelfLinked(r.mem, Node(sco[u].cur))
    <3> SUFFICES ASSUME sco[u].cur # NONE PROVE IsSelfLinked(r.mem, Node(sco[u].cur))
      OBVIOUS
    <3>1. Node(sco[u].cur) \in Addr /\ Node(sco[u].cur) \notin A /\ IsSelfLinked(mem, Node(sco[u].cur))
      BY <1>1, <2>4, <2>7 DEF Addr, CoNodes
    <3> QED BY <1>3, <3>1, SelfLinkKept
  <2> QED BY <1>2, <2>6, <2>8
<1>6. Sched' = Sched
  <2>1. Sched' = [u \in Threads |-> StandsFor(u, [m |-> mem', s |-> sco'[u]])]
    BY DEF Sched, StandsFor
  <2>2. \A u \in Threads : StandsFor(u, [m |-> mem', s |-> sco'[u]]) = Sched[u]
    BY <1>5, KeptIs
  <2>3. Sched = [u \in Threads |-> Sched[u]]
    BY DEF Sched
  <2> QED BY <2>1, <2>2, <2>3
<1>7. Detached' = new
  <2>1. Members(r.mem, r.map) = new
    BY <1>3, MembersAre
  <2>2. Detached' = Members(mem', detached')
    BY DEF Detached
  <2> QED BY <1>2, <2>1, <2>2
<1>8. \A n \in NodesOf(finished) \cup Nowhere : mem'.prev[n] = FREED /\ mem'.next[n] = FREED
  <2> SUFFICES ASSUME NEW n \in NodesOf(finished) \cup Nowhere PROVE mem'.prev[n] = FREED /\ mem'.next[n] = FREED
    OBVIOUS
  <2>1. n \in Addr
    BY <1>4 DEF NodesOf, Addr, CoNodes
  <2>2. n \notin A
    <3>1. C \cap finished = {}
      BY <1>4
    <3> HIDE DEF C
    <3>2. NodesOf(C) \cap NodesOf(finished) = {}
      BY <3>1, NodeFacts DEF NodesOf
    <3>3. NodesOf(C) \cap Nowhere = {}
      BY NodeFacts DEF NodesOf
    <3> QED BY <3>2, <3>3
  <2> HIDE DEF A
  <2>3. r.mem.prev[n] = mem.prev[n] /\ r.mem.next[n] = mem.next[n]
    BY <1>3, <2>1, <2>2 DEF SameOutside
  <2> QED BY <1>1, <1>2, <2>3
<1>9. \A u \in Threads : /\ Keeps(u, [m |-> mem', s |-> sco'[u]], Sched'[u])
                         /\ sco'[u].cur # NONE => IsSelfLinked(mem', Node(sco'[u].cur))
  BY <1>5, <1>6
<1>10. mem' \in Memories /\ sco' \in [Threads -> SchedRecs] /\ MapIs(mem', detached', Detached')
  BY <1>1, <1>2, <1>3, <1>7
<1> QED BY <1>6, <1>7, <1>8, <1>9, <1>10 DEF Stayed

-----------------------------------------------------------------------------
(* The entry points.                                                        *)

\* What the invariant says of thread t and the coroutines it may use.
ThreadNow(t) ==
  /\ Keeps(t, Now(t), Sched[t]) /\ Now(t).m = mem /\ Now(t).s = sco[t]
  /\ S!Orderly(Sched[t]) /\ Sched[t].cur = sco[t].cur
  /\ sco[t].cur # NONE => /\ IsSelfLinked(mem, Node(sco[t].cur))
                          /\ sco[t].cur \in Ids /\ sco[t].cur \notin S!Waiting(Sched[t])
  /\ mem \in Memories

LEMMA ThreadIs ==
  ASSUME CInv, NEW t \in Threads
  PROVE  ThreadNow(t)
<1>1. /\ Keeps(t, Now(t), Sched[t]) /\ mem \in Memories
      /\ sco[t].cur # NONE => IsSelfLinked(mem, Node(sco[t].cur))
  BY DEF CInv, Shape
<1>2. Now(t).m = mem /\ Now(t).s = sco[t]
  BY DEF Now
<1>3. Sched[t].cur = sco[t].cur
  BY <1>1, <1>2 DEF Keeps
<1>4. /\ S!Orderly(Sched[t])
      /\ Sched[t].cur # NONE => Sched[t].cur \in S!Ids \ S!Waiting(Sched[t])
  BY S!ThreadFacts DEF CInv
<1> QED BY <1>1, <1>2, <1>3, <1>4, SameIds DEF ThreadNow

LEMMA OwnHas ==
  ASSUME CInv, NEW t \in Threads, NEW C, C \subseteq S!Has(t) \cup S!Moved(t)
  PROVE  Own(t, C)
<1>1. /\ (S!Has(t) \cup S!Moved(t)) \cap (Detached \cup finished) = {}
      /\ \A u \in Threads \ {t} : S!Has(t) \cap S!Has(u) = {} /\ S!Has(u) \cap S!Moved(t) = {}
  BY DEF CInv, S!IInv, S!Parted
<1> QED BY <1>1 DEF Own

LEMMA HasIs ==
  ASSUME NEW t \in Threads
  PROVE  /\ S!Waiting(Sched[t]) \subseteq S!Has(t)
         /\ Sched[t].cur # NONE => Sched[t].cur \in S!Has(t)
  BY DEF S!Has, S!Owned

LEMMA ReachedShape ==
  ASSUME NEW t, NEW b, Reached(t, b), finished' = finished
  PROVE  Shape'
  BY DEF Reached, Shape, Now

LEMMA ReachedBecomes ==
  ASSUME NEW t \in Threads, NEW w, NEW b, Reached(t, b), Becomes(t, w), w.s.cur = b.cur
  PROVE  S!Becomes(t, b)
  BY DEF Reached, Becomes, S!Becomes

LEMMA ResumeMainIs ==
  ASSUME Heights = Nat, CInv, NEW t \in Threads, ResumeMain(t)
  PROVE  S!ResumeMain(t) /\ Shape'
<1> PICK w : w = Switch(Now(t), t, TRUE)
  OBVIOUS
<1> PICK b : b = S!Switch(Sched[t], TRUE)
  OBVIOUS
<1> PICK C : C = S!Waiting(Sched[t])
  OBVIOUS
<1>1. /\ InMain(t) /\ Becomes(t, w) /\ UNCHANGED <<next_id, detached, ndetached, moving, finished>>
  BY DEF ResumeMain
<1>2. ThreadNow(t)
  BY ThreadIs
<1>3. Keeps(t, Now(t), Sched[t]) /\ Sched[t].cur = sco[t].cur
  BY <1>2 DEF ThreadNow
<1>4. Switched(t, Now(t), w, b, C)
  BY <1>3, SwitchIs
<1>5. Written(t, w, b, C)
  BY <1>1, <1>4 DEF Written, Becomes
<1>6. Own(t, C)
  BY HasIs, OwnHas
<1>7. Reached(t, b)
  BY <1>5, <1>6, LocalStep
<1>8. w.s.cur = b.cur
  BY <1>4 DEF Switched, Goes, Keeps
<1>9. S!Becomes(t, b)
  BY <1>1, <1>7, <1>8, ReachedBecomes
<1>10. Detached' = Detached
  BY <1>7 DEF Reached
<1>11. S!ResumeMain(t)
  BY <1>1, <1>3, <1>9, <1>10 DEF S!ResumeMain, S!InMain, S!Free, InMain, Free, NotMoving, S!NotMoving
<1>12. Shape'
  BY <1>1, <1>7, ReachedShape
<1> QED BY <1>11, <1>12

LEMMA GoesThenSwitches ==
  ASSUME NEW t, NEW w, NEW y, NEW z, NEW a, NEW b, NEW C, Goes(t, w, y, a, C), Switched(t, y, z, b, C)
  PROVE  Switched(t, w, z, b, C)
<1> DEFINE A == NodesOf(C) \cup EndsOf(t)
<1>1. SameOutside(w.m, y.m, A) /\ SameOutside(y.m, z.m, A)
  BY DEF Goes, Switched
<1> HIDE DEF A
<1>2. SameOutside(w.m, z.m, A)
  BY <1>1, SameTwice
<1> QED BY <1>2 DEF Goes, Switched, A

LEMMA GoesTwice ==
  ASSUME NEW t, NEW w, NEW y, NEW z, NEW a, NEW b, NEW C, Goes(t, w, y, a, C), Goes(t, y, z, b, C)
  PROVE  Goes(t, w, z, b, C)
<1> DEFINE A == NodesOf(C) \cup EndsOf(t)
<1>1. SameOutside(w.m, y.m, A) /\ SameOutside(y.m, z.m, A)
  BY DEF Goes
<1> HIDE DEF A
<1>2. SameOutside(w.m, z.m, A)
  BY <1>1, SameTwice
<1> QED BY <1>2 DEF Goes, A

LEMMA GoesWider ==
  ASSUME NEW t, NEW w, NEW z, NEW b, NEW C, NEW D, Goes(t, w, z, b, C), C \subseteq D
  PROVE  Goes(t, w, z, b, D)
<1>1. NodesOf(C) \cup EndsOf(t) \subseteq NodesOf(D) \cup EndsOf(t)
  BY DEF NodesOf
<1>2. SameOutside(w.m, z.m, NodesOf(C) \cup EndsOf(t))
  BY DEF Goes
<1>3. SameOutside(w.m, z.m, NodesOf(D) \cup EndsOf(t))
  BY <1>1, <1>2, SameWider
<1> QED BY <1>3 DEF Goes

LEMMA YieldIs ==
  ASSUME Heights = Nat, CInv, NEW t \in Threads, Yield(t)
  PROVE  S!Yield(t) /\ Shape'
<1> DEFINE co == sco[t].cur
           a == Sched[t]
           C == S!Waiting(a) \cup {co}
<1> PICK y : y = AddYielder(Now(t), t, co)
  OBVIOUS
<1> PICK x : x = S!AddYielder(a, co)
  OBVIOUS
<1> PICK w : w = Switch(y, t, FALSE)
  OBVIOUS
<1> PICK b : b = S!Switch(x, FALSE)
  OBVIOUS
<1>1. /\ Free(t) /\ co # NONE /\ Becomes(t, w) /\ UNCHANGED <<next_id, detached, ndetached, moving, finished>>
  BY DEF Yield, InCoroutine
<1>2. ThreadNow(t)
  BY ThreadIs
<1>3. /\ Keeps(t, Now(t), a) /\ a.cur = co /\ Now(t).m = mem /\ S!Orderly(a)
      /\ IsSelfLinked(mem, Node(co)) /\ co \in Ids /\ co \notin S!Waiting(a)
  BY <1>1, <1>2 DEF ThreadNow
<1>4. S!Waiting(x) = C
  BY <1>3, SameIds, S!AddYielderFacts
<1>5. C \subseteq S!Has(t)
  BY <1>1, <1>3, HasIs
<1> HIDE DEF a, co
<1>6. Goes(t, Now(t), y, x, C)
  BY <1>3, AddYielderIs
<1> HIDE DEF C
<1>7. Keeps(t, y, x)
  BY <1>6 DEF Goes
<1>8. Switched(t, y, w, b, C)
  BY <1>4, <1>7, SwitchIs
<1>9. Switched(t, Now(t), w, b, C)
  BY <1>6, <1>8, GoesThenSwitches
<1>10. Written(t, w, b, C)
  BY <1>1, <1>9 DEF Written, Becomes
<1>11. Own(t, C)
  BY <1>5, OwnHas
<1>12. Reached(t, b)
  BY <1>10, <1>11, LocalStep
<1>13. w.s.cur = b.cur
  BY <1>9 DEF Switched, Goes, Keeps
<1>14. S!Becomes(t, b)
  BY <1>1, <1>12, <1>13, ReachedBecomes
<1>15. Detached' = Detached
  BY <1>12 DEF Reached
<1>16. S!Yield(t)
  <2>1. S!Becomes(t, S!Switch(S!AddYielder(Sched[t], Sched[t].cur), FALSE))
    BY <1>3, <1>14 DEF a
  <2>2. S!InCoroutine(t)
    BY <1>1, <1>3 DEF S!InCoroutine, S!Free, Free, NotMoving, S!NotMoving, a
  <2> QED BY <1>1, <1>15, <2>1, <2>2 DEF S!Yield
<1>17. Shape'
  BY <1>1, <1>12, ReachedShape
<1> QED BY <1>16, <1>17

LEMMA PausedFacts ==
  ASSUME NEW a, S!Orderly(a), NEW co \in Ids, co \notin S!Waiting(a)
  PROVE  S!Waiting([a EXCEPT !.paused = @ \cup {co}]) = S!Waiting(a) \cup {co}
<1> PICK b : b = [a EXCEPT !.paused = @ \cup {co}]
  OBVIOUS
<1>1. a \in S!ThreadStates
  BY DEF S!Orderly
<1>2. b.runners = a.runners /\ b.yielders = a.yielders /\ b.paused = a.paused \cup {co}
  BY <1>1 DEF S!ThreadStates
<1>3. S!Waiting(b) = S!Waiting(a) \cup {co}
  BY <1>2 DEF S!Waiting
<1> QED BY <1>3

LEMMA PauseIs ==
  ASSUME Heights = Nat, CInv, NEW t \in Threads, Pause(t)
  PROVE  S!Pause(t) /\ Shape'
<1> DEFINE co == sco[t].cur
           a == Sched[t]
           C == S!Waiting(a) \cup {co}
           x == [a EXCEPT !.paused = @ \cup {co}]
<1> PICK y : y = AddPaused(Now(t), co)
  OBVIOUS
<1> PICK w : w = Switch(y, t, FALSE)
  OBVIOUS
<1> PICK b : b = S!Switch(x, FALSE)
  OBVIOUS
<1>1. /\ Free(t) /\ co # NONE /\ Becomes(t, w) /\ UNCHANGED <<next_id, detached, ndetached, moving, finished>>
  BY DEF Pause, InCoroutine
<1>2. ThreadNow(t)
  BY ThreadIs
<1>3. /\ Keeps(t, Now(t), a) /\ a.cur = co /\ S!Orderly(a) /\ co \in Ids /\ co \notin S!Waiting(a)
  BY <1>1, <1>2 DEF ThreadNow
<1>5. C \subseteq S!Has(t)
  BY <1>1, <1>3, HasIs
<1> HIDE DEF a, co
<1>4. S!Waiting(x) = C
  BY <1>3, PausedFacts
<1>6. Goes(t, Now(t), y, x, C)
  BY <1>3, AddPausedIs
<1> HIDE DEF C, x
<1>7. Keeps(t, y, x)
  BY <1>6 DEF Goes
<1>8. Switched(t, y, w, b, C)
  BY <1>4, <1>7, SwitchIs
<1>9. Switched(t, Now(t), w, b, C)
  BY <1>6, <1>8, GoesThenSwitches
<1>10. Written(t, w, b, C)
  BY <1>1, <1>9 DEF Written, Becomes
<1>11. Own(t, C)
  BY <1>5, OwnHas
<1>12. Reached(t, b)
  BY <1>10, <1>11, LocalStep
<1>13. w.s.cur = b.cur
  BY <1>9 DEF Switched, Goes, Keeps
<1>14. S!Becomes(t, b)
  BY <1>1, <1>12, <1>13, ReachedBecomes
<1>15. Detached' = Detached
  BY <1>12 DEF Reached
<1>16. S!Pause(t)
  <2>1. x = [Sched[t] EXCEPT !.paused = @ \cup {Sched[t].cur}]
    BY <1>3, Zenon DEF x, a
  <2>2. S!Becomes(t, S!Switch([Sched[t] EXCEPT !.paused = @ \cup {Sched[t].cur}], FALSE))
    BY <1>14, <2>1, Zenon
  <2>3. S!InCoroutine(t)
    BY <1>1, <1>3 DEF S!InCoroutine, S!Free, Free, NotMoving, S!NotMoving, a
  <2> QED BY <1>1, <1>15, <2>2, <2>3 DEF S!Pause
<1>17. Shape'
  BY <1>1, <1>12, ReachedShape
<1> QED BY <1>16, <1>17

\* A switch for good from a coroutine, whose node is freed.
Left(t, v, r, b, C, co) ==
  /\ Switched(t, v, r, b, C)
  /\ r.m.prev[Node(co)] = FREED /\ r.m.next[Node(co)] = FREED

LEMMA FreedIs ==
  ASSUME Heights = Nat, NEW t \in Threads, NEW v, NEW z, NEW b, NEW C, Switched(t, v, z, b, C),
         NEW co, co \in C, co \in Ids, co \notin S!Owned(b)
  PROVE  Left(t, v, Freed(z, co), b, C, co)
<1> PICK n \in Addr : n = Node(co)
  BY DEF Addr, CoNodes
<1>1. /\ Goes(t, v, z, b, C) /\ Keeps(t, z, b) /\ SameOutside(v.m, z.m, NodesOf(C) \cup EndsOf(t))
      /\ (z.s.cur # NONE => IsSelfLinked(z.m, Node(z.s.cur))) /\ z.s.cur = b.cur
      /\ z.m \in Memories /\ z.s \in SchedRecs
  BY DEF Switched, Goes, Keeps
<1> PICK p : p = PrevSet(z.m, n, FREED)
  OBVIOUS
<1>2. PrevWritten(z.m, p, n, FREED)
  BY <1>1, NowhereFacts, PrevIsWritten
<1> PICK q : q = NextSet(p, n, FREED)
  OBVIOUS
<1>3. p \in Memories /\ p.level = z.m.level /\ p.next = z.m.next
      /\ \A x \in Addr : p.prev[x] = IF x = n THEN FREED ELSE z.m.prev[x]
  BY <1>2 DEF PrevWritten
<1>4. NextWritten(p, q, n, FREED)
  BY <1>3, NowhereFacts, NextIsWritten
<1>5. q \in Memories /\ q.level = p.level /\ q.prev = p.prev
      /\ \A x \in Addr : q.next[x] = IF x = n THEN FREED ELSE p.next[x]
  BY <1>4 DEF NextWritten
<1>6. SameOutside(z.m, q, {n})
  BY <1>3, <1>5 DEF SameOutside
<1> PICK r : r = Freed(z, co)
  OBVIOUS
<1>7. r.m = q /\ r.s = z.s
  <2>1. q = [z.m EXCEPT !.prev[Node(co)] = FREED, !.next[Node(co)] = FREED]
    BY DEF PrevSet, NextSet
  <2>2. r = [m |-> [z.m EXCEPT !.prev[Node(co)] = FREED, !.next[Node(co)] = FREED], s |-> z.s]
    BY Zenon DEF Freed
  <2>3. r = [m |-> q, s |-> z.s]
    BY <2>1, <2>2, Zenon
  <2> QED BY <2>3
<1>8. co \notin S!Waiting(b) /\ (b.cur # NONE => co # b.cur)
  BY DEF S!Owned
<1>9. {n} \cap (NodesOf(S!Waiting(b)) \cup EndsOf(t)) = {}
  BY <1>8, NodeFacts DEF NodesOf, EndsOf
<1>10. SameOutside(z.m, r.m, {n}) /\ r.m \in Memories
  BY <1>5, <1>6, <1>7
<1>11. Keeps(t, r, b)
  BY <1>1, <1>7, <1>9, <1>10, KeptOutside
<1>12. SameOutside(v.m, r.m, NodesOf(C) \cup EndsOf(t))
  <2>1. SameOutside(v.m, r.m, (NodesOf(C) \cup EndsOf(t)) \cup {n})
    BY <1>1, <1>10, SameTwice
  <2>2. (NodesOf(C) \cup EndsOf(t)) \cup {n} = NodesOf(C) \cup EndsOf(t)
    BY DEF NodesOf
  <2> QED BY <2>1, <2>2
<1>13. r.s.cur # NONE => IsSelfLinked(r.m, Node(r.s.cur))
  <2> SUFFICES ASSUME r.s.cur # NONE PROVE IsSelfLinked(r.m, Node(r.s.cur))
    OBVIOUS
  <2>1. z.s.cur \in Ids /\ r.s.cur = z.s.cur /\ IsSelfLinked(z.m, Node(z.s.cur)) /\ co # z.s.cur
    BY <1>1, <1>7, <1>8 DEF SchedRecs
  <2>2. Node(z.s.cur) \in Addr /\ Node(z.s.cur) \notin {n}
    BY <2>1, NodeFacts DEF Addr, CoNodes
  <2>3. IsSelfLinked(r.m, Node(z.s.cur))
    BY <1>10, <2>1, <2>2, SelfLinkKept
  <2> QED BY <2>1, <2>3
<1>14. r.m.prev[n] = FREED /\ r.m.next[n] = FREED
  BY <1>3, <1>5, <1>7
<1>15. Switched(t, v, r, b, C)
  BY <1>11, <1>12, <1>13 DEF Switched, Goes
<1>16. Left(t, v, r, b, C, co)
  BY <1>14, <1>15 DEF Left
<1> QED BY <1>16

LEMMA ReachedFinished ==
  ASSUME NEW t, NEW b, Reached(t, b), NEW co, finished' = finished \cup {co},
         mem'.prev[Node(co)] = FREED, mem'.next[Node(co)] = FREED
  PROVE  Shape'
<1>1. /\ mem' \in Memories /\ sco' \in [Threads -> SchedRecs]
      /\ \A u \in Threads : /\ Keeps(u, [m |-> mem', s |-> sco'[u]], Sched'[u])
                            /\ sco'[u].cur # NONE => IsSelfLinked(mem', Node(sco'[u].cur))
      /\ MapIs(mem', detached', Detached')
  BY DEF Reached
<1>2. ASSUME NEW n \in NodesOf(finished') \cup Nowhere PROVE mem'.prev[n] = FREED /\ mem'.next[n] = FREED
  <2>1. n = Node(co) \/ n \in NodesOf(finished) \cup Nowhere
    BY <1>2 DEF NodesOf
  <2> QED BY <2>1 DEF Reached
<1> QED BY <1>1, <1>2 DEF Shape, Now

LEMMA FinishIs ==
  ASSUME Heights = Nat, CInv, NEW t \in Threads, Finish(t)
  PROVE  S!Finish(t) /\ Shape'
<1> DEFINE co == sco[t].cur
           a == Sched[t]
           C == S!Waiting(a) \cup {co}
<1> PICK z : z = Switch(Now(t), t, FALSE)
  OBVIOUS
<1> PICK w : w = Freed(z, co)
  OBVIOUS
<1> PICK b : b = S!Switch(a, FALSE)
  OBVIOUS
<1>1. /\ Free(t) /\ co # NONE /\ Becomes(t, w) /\ finished' = finished \cup {co}
      /\ UNCHANGED <<next_id, detached, ndetached, moving>>
  BY DEF Finish, InCoroutine
<1>2. ThreadNow(t)
  BY ThreadIs
<1>3. /\ Keeps(t, Now(t), a) /\ a.cur = co /\ S!Orderly(a) /\ co \in Ids /\ co \notin S!Waiting(a)
  BY <1>1, <1>2 DEF ThreadNow
<1>4. co \notin S!Owned(b)
  <2>1. NONE \notin S!Ids
    BY NoneAssumption DEF S!Ids
  <2> QED BY <1>3, <2>1, S!SwitchFacts
<1>5. C \subseteq S!Has(t)
  BY <1>1, <1>3, HasIs
<1>6. S!Waiting(a) \subseteq C /\ co \in C
  OBVIOUS
<1> HIDE DEF a, co, C
<1>7. Switched(t, Now(t), z, b, S!Waiting(a))
  BY <1>3, SwitchIs
<1>8. Switched(t, Now(t), z, b, C)
  <2>1. Goes(t, Now(t), z, b, C)
    BY <1>6, <1>7, GoesWider DEF Switched
  <2> QED BY <1>7, <2>1 DEF Switched
<1>9. Switched(t, Now(t), w, b, C) /\ w.m.prev[Node(co)] = FREED /\ w.m.next[Node(co)] = FREED
  <2>1. co \in C /\ co \in Ids
    BY <1>3, <1>6
  <2>2. Left(t, Now(t), w, b, C, co)
    BY <1>4, <1>8, <2>1, FreedIs
  <2> QED BY <2>2 DEF Left
<1>10. Written(t, w, b, C)
  BY <1>1, <1>9 DEF Written, Becomes
<1>11. Own(t, C)
  BY <1>5, OwnHas
<1>12. Reached(t, b)
  BY <1>10, <1>11, LocalStep
<1>13. w.s.cur = b.cur
  BY <1>9 DEF Switched, Goes, Keeps
<1>14. S!Becomes(t, b)
  BY <1>1, <1>12, <1>13, ReachedBecomes
<1>15. Detached' = Detached
  BY <1>12 DEF Reached
<1>16. S!Finish(t)
  <2>1. S!Becomes(t, S!Switch(Sched[t], FALSE))
    BY <1>14 DEF a
  <2>2. S!InCoroutine(t)
    BY <1>1, <1>3 DEF S!InCoroutine, S!Free, Free, NotMoving, S!NotMoving, a
  <2>3. finished' = finished \cup {Sched[t].cur}
    BY <1>1, <1>3 DEF a
  <2> QED BY <1>1, <1>15, <2>1, <2>2, <2>3 DEF S!Finish
<1>17. Shape'
  <2>1. mem' = w.m
    BY <1>1 DEF Becomes
  <2> QED BY <1>1, <1>9, <1>12, <2>1, ReachedFinished
<1> QED BY <1>16, <1>17

\* With the request to exit to main.
Asked(a) == [a EXCEPT !.exiting = TRUE]

LEMMA AskedFacts ==
  ASSUME NEW a, S!Orderly(a)
  PROVE  /\ S!Orderly(Asked(a)) /\ S!Waiting(Asked(a)) = S!Waiting(a)
         /\ Asked(a).cur = a.cur /\ Asked(a).exiting = TRUE /\ Asked(a).paused = a.paused
         /\ Asked(a).runners = a.runners /\ Asked(a).yielders = a.yielders
<1> PICK b : b = Asked(a)
  OBVIOUS
<1>1. a \in S!ThreadStates
  BY DEF S!Orderly
<1>2. /\ b \in S!ThreadStates /\ b.cur = a.cur /\ b.exiting = TRUE /\ b.paused = a.paused
      /\ b.runners = a.runners /\ b.yielders = a.yielders
  BY <1>1 DEF S!ThreadStates, Asked
<1>3. S!Orderly(b)
  BY <1>2 DEF S!Orderly
<1>4. S!Waiting(b) = S!Waiting(a)
  BY <1>2 DEF S!Waiting
<1> QED BY <1>2, <1>3, <1>4

LEMMA AskedIs ==
  ASSUME NEW t \in Threads, NEW a, Keeps(t, Now(t), a)
  PROVE  Keeps(t, [m |-> mem, s |-> [sco[t] EXCEPT !.exit_to_main_requested = TRUE]], Asked(a))
<1> DEFINE s == sco[t]
           v == [s EXCEPT !.exit_to_main_requested = TRUE]
<1>1. s \in SchedRecs /\ S!Orderly(a)
  BY DEF Keeps, Now
<1> PICK b : b = Asked(a)
  OBVIOUS
<1>2. /\ S!Orderly(b) /\ b.cur = a.cur /\ b.exiting = TRUE /\ b.paused = a.paused
      /\ b.runners = a.runners /\ b.yielders = a.yielders
  BY <1>1, AskedFacts
<1>3. /\ mem \in Memories /\ s.cur = a.cur
      /\ s.nrunners = Len(a.runners) /\ s.nyielders = Len(a.yielders) /\ s.npaused = Cardinality(a.paused)
      /\ Linked(mem, t, "runners", a.runners) /\ Linked(mem, t, "yielders", a.yielders)
      /\ MapIs(mem, s.paused, a.paused)
  BY DEF Keeps, Now
<1> HIDE DEF s
<1>4. /\ v \in SchedRecs /\ v.cur = s.cur /\ v.nrunners = s.nrunners /\ v.nyielders = s.nyielders
      /\ v.paused = s.paused /\ v.npaused = s.npaused /\ v.exit_to_main_requested = TRUE
  BY <1>1 DEF SchedRecs
<1> HIDE DEF v
<1> PICK w : w = [m |-> mem, s |-> v]
  OBVIOUS
<1>5. w.m = mem /\ w.s = v
  OBVIOUS
<1>6. Keeps(t, w, b)
  BY <1>2, <1>3, <1>4, <1>5 DEF Keeps
<1> QED BY <1>6 DEF v, s

LEMMA ExitIs ==
  ASSUME Heights = Nat, CInv, NEW t \in Threads, Exit(t)
  PROVE  S!Exit(t) /\ Shape'
<1> DEFINE co == sco[t].cur
           a == Sched[t]
           C == S!Waiting(a) \cup {co}
           yielders == {List(mem, t, "yielders")[k] : k \in DOMAIN List(mem, t, "yielders")}
<1> PICK v : v = [m |-> mem, s |-> [sco[t] EXCEPT !.exit_to_main_requested = TRUE]]
  OBVIOUS
<1> PICK x : x = Asked(a)
  OBVIOUS
<1> PICK z : z = Switch(v, t, FALSE)
  OBVIOUS
<1> PICK w : w = Freed(z, co)
  OBVIOUS
<1> PICK b : b = S!Switch(x, FALSE)
  OBVIOUS
<1>1. /\ Free(t) /\ co # NONE /\ mem' = w.m /\ sco' = [sco EXCEPT ![t] = w.s]
      /\ barred' = [barred EXCEPT ![t] = IF w.s.cur = NONE THEN {} ELSE yielders]
      /\ finished' = finished \cup {co}
      /\ UNCHANGED <<next_id, detached, ndetached, moving>>
  BY Zenon DEF Exit, InCoroutine
<1>2. ThreadNow(t)
  BY ThreadIs
<1>3. /\ Keeps(t, Now(t), a) /\ a.cur = co /\ S!Orderly(a) /\ co \in Ids /\ co \notin S!Waiting(a)
  BY <1>1, <1>2 DEF ThreadNow
<1>4. S!Orderly(x) /\ S!Waiting(x) = S!Waiting(a)
  BY <1>3, AskedFacts
<1>5. co \notin S!Owned(b)
  <2>1. NONE \notin S!Ids
    BY NoneAssumption DEF S!Ids
  <2> QED BY <1>3, <1>4, <2>1, S!SwitchFacts
<1>6. C \subseteq S!Has(t)
  BY <1>1, <1>3, HasIs
<1>7. S!Waiting(a) \subseteq C /\ co \in C
  OBVIOUS
<1>8. yielders = {Sched[t].yielders[k] : k \in DOMAIN Sched[t].yielders}
  BY DEF Sched
<1> HIDE DEF a, co, C, yielders
<1>9. Keeps(t, v, x)
  BY <1>3, AskedIs
<1>10. Switched(t, v, z, b, S!Waiting(a))
  BY <1>4, <1>9, SwitchIs
<1>11. Switched(t, Now(t), z, b, C)
  <2>1. Goes(t, v, z, b, C)
    BY <1>7, <1>10, GoesWider DEF Switched
  <2>2. v.m = Now(t).m
    BY DEF Now
  <2> QED BY <1>10, <2>1, <2>2 DEF Switched, Goes
<1>12. Switched(t, Now(t), w, b, C) /\ w.m.prev[Node(co)] = FREED /\ w.m.next[Node(co)] = FREED
  <2>1. co \in C /\ co \in Ids
    BY <1>3, <1>7
  <2>2. Left(t, Now(t), w, b, C, co)
    BY <1>5, <1>11, <2>1, FreedIs
  <2> QED BY <2>2 DEF Left
<1>13. Written(t, w, b, C)
  BY <1>1, <1>12 DEF Written
<1>14. Own(t, C)
  BY <1>6, OwnHas
<1>15. Reached(t, b)
  BY <1>13, <1>14, LocalStep
<1>16. w.s.cur = b.cur
  BY <1>12 DEF Switched, Goes, Keeps
<1>17. Detached' = Detached /\ Sched' = [Sched EXCEPT ![t] = b]
  BY <1>15 DEF Reached
<1>18. S!Exit(t)
  <2>1. b = S!Switch([Sched[t] EXCEPT !.exiting = TRUE], FALSE)
    BY Zenon DEF a, Asked
  <2>2. S!InCoroutine(t)
    BY <1>1, <1>3 DEF S!InCoroutine, S!Free, Free, NotMoving, S!NotMoving, a
  <2>3. finished' = finished \cup {Sched[t].cur}
    BY <1>1, <1>3 DEF a
  <2>4. barred' = [barred EXCEPT ![t] =
                     IF b.cur = NONE THEN {} ELSE {Sched[t].yielders[k] : k \in DOMAIN Sched[t].yielders}]
    BY <1>1, <1>8, <1>16
  <2> QED BY <1>1, <1>17, <2>1, <2>2, <2>3, <2>4, Zenon DEF S!Exit
<1>19. Shape'
  BY <1>1, <1>12, <1>15, ReachedFinished
<1> QED BY <1>18, <1>19

\* A thread goes on with the coroutine that is current.
LEMMA StaysCurrent ==
  ASSUME NEW t \in Threads, NEW w, NEW r, NEW b, NEW C, Goes(t, w, r, b, C), b.cur = w.s.cur,
         w.s.cur # NONE => w.s.cur \in Ids \ C /\ IsSelfLinked(w.m, Node(w.s.cur))
  PROVE  Switched(t, w, r, b, C)
<1>1. SameOutside(w.m, r.m, NodesOf(C) \cup EndsOf(t)) /\ r.s.cur = w.s.cur
  BY DEF Goes, Keeps
<1>2. ASSUME r.s.cur # NONE PROVE IsSelfLinked(r.m, Node(r.s.cur))
  <2>1. w.s.cur \in Ids /\ w.s.cur \notin C /\ IsSelfLinked(w.m, Node(w.s.cur))
    BY <1>1, <1>2
  <2>2. Node(w.s.cur) \in Addr
    BY <2>1 DEF Addr, CoNodes
  <2>3. Node(w.s.cur) \notin NodesOf(C) \cup EndsOf(t)
    BY <2>1, NodeFacts DEF NodesOf, EndsOf
  <2>4. IsSelfLinked(r.m, Node(w.s.cur))
    BY <1>1, <2>1, <2>2, <2>3, SelfLinkKept
  <2> QED BY <1>1, <2>4
<1> QED BY <1>2 DEF Switched

\* The current coroutine is set.
Current(a, co) == [a EXCEPT !.cur = co]

LEMMA CurrentFacts ==
  ASSUME NEW a, S!Orderly(a), NEW co \in Ids
  PROVE  /\ S!Orderly(Current(a, co)) /\ S!Waiting(Current(a, co)) = S!Waiting(a)
         /\ Current(a, co).cur = co /\ Current(a, co).exiting = a.exiting /\ Current(a, co).paused = a.paused
         /\ Current(a, co).runners = a.runners /\ Current(a, co).yielders = a.yielders
<1> PICK b : b = Current(a, co)
  OBVIOUS
<1>1. a \in S!ThreadStates
  BY DEF S!Orderly
<1>2. /\ b \in S!ThreadStates /\ b.cur = co /\ b.exiting = a.exiting /\ b.paused = a.paused
      /\ b.runners = a.runners /\ b.yielders = a.yielders
  BY <1>1, SameIds DEF S!ThreadStates, Current
<1>3. S!Orderly(b)
  BY <1>2 DEF S!Orderly
<1>4. S!Waiting(b) = S!Waiting(a)
  BY <1>2 DEF S!Waiting
<1> QED BY <1>2, <1>3, <1>4

LEMMA RunsIs ==
  ASSUME NEW t \in Threads, NEW w, NEW a, Keeps(t, w, a), NEW co \in Ids, IsSelfLinked(w.m, Node(co)), NEW C
  PROVE  Switched(t, w, Runs(w, co), Current(a, co), C)
<1> PICK s : s = w.s
  OBVIOUS
<1> DEFINE v == [s EXCEPT !.cur = co]
<1>1. s \in SchedRecs /\ S!Orderly(a)
  BY DEF Keeps
<1> PICK b : b = Current(a, co)
  OBVIOUS
<1>2. /\ S!Orderly(b) /\ b.cur = co /\ b.exiting = a.exiting /\ b.paused = a.paused
      /\ b.runners = a.runners /\ b.yielders = a.yielders
  BY <1>1, CurrentFacts
<1>3. /\ w.m \in Memories /\ s.exit_to_main_requested = a.exiting
      /\ s.nrunners = Len(a.runners) /\ s.nyielders = Len(a.yielders) /\ s.npaused = Cardinality(a.paused)
      /\ Linked(w.m, t, "runners", a.runners) /\ Linked(w.m, t, "yielders", a.yielders)
      /\ MapIs(w.m, s.paused, a.paused)
  BY DEF Keeps
<1>4. /\ v \in SchedRecs /\ v.cur = co /\ v.nrunners = s.nrunners /\ v.nyielders = s.nyielders
      /\ v.paused = s.paused /\ v.npaused = s.npaused
      /\ v.exit_to_main_requested = s.exit_to_main_requested
  BY <1>1 DEF SchedRecs
<1> PICK r : r = Runs(w, co)
  OBVIOUS
<1>5. r.m = w.m /\ r.s = v
  BY DEF Runs
<1> HIDE DEF v
<1>6. Keeps(t, r, b)
  BY <1>2, <1>3, <1>4, <1>5 DEF Keeps
<1>7. SameOutside(w.m, r.m, NodesOf(C) \cup EndsOf(t))
  BY <1>5 DEF SameOutside
<1>8. Switched(t, w, r, b, C)
  BY <1>4, <1>5, <1>6, <1>7 DEF Switched, Goes
<1> QED BY <1>8

\* The coroutine that starts another one becomes a runner.
Waits(w, t) == IF w.s.cur = NONE THEN w ELSE AddRunner(w, t, w.s.cur)
WaitsHere(a) == IF a.cur = NONE THEN a ELSE S!AddRunner(a, a.cur)

LEMMA WaitsIs ==
  ASSUME Heights = Nat, NEW t \in Threads, NEW w, NEW a, Keeps(t, w, a),
         a.cur # NONE => a.cur \in Ids /\ a.cur \notin S!Waiting(a) /\ IsSelfLinked(w.m, Node(a.cur))
  PROVE  Goes(t, w, Waits(w, t), WaitsHere(a), S!Owned(a))
<1>1. w.s.cur = a.cur
  BY DEF Keeps
<1>2. CASE a.cur = NONE
  <2>1. Waits(w, t) = w /\ WaitsHere(a) = a
    BY <1>1, <1>2 DEF Waits, WaitsHere
  <2>2. Goes(t, w, w, a, S!Owned(a))
    BY DEF Goes, SameOutside
  <2> QED BY <2>1, <2>2
<1>3. CASE a.cur # NONE
  <2>1. Waits(w, t) = AddRunner(w, t, a.cur) /\ WaitsHere(a) = S!AddRunner(a, a.cur)
    BY <1>1, <1>3 DEF Waits, WaitsHere
  <2>2. S!Owned(a) = S!Waiting(a) \cup {a.cur}
    BY <1>3 DEF S!Owned
  <2> PICK co : co = a.cur
    OBVIOUS
  <2>3. co \in Ids /\ co \notin S!Waiting(a) /\ IsSelfLinked(w.m, Node(co))
    BY <1>3
  <2>4. Goes(t, w, AddRunner(w, t, co), S!AddRunner(a, co), S!Waiting(a) \cup {co})
    BY <2>3, AddRunnerIs
  <2> QED BY <2>1, <2>2, <2>4
<1> QED BY <1>2, <1>3

LEMMA StartIs ==
  ASSUME Heights = Nat, CInv, NEW t \in Threads, Start(t)
  PROVE  S!Start(t) /\ Shape'
<1> DEFINE co == next_id + 1
           a == Sched[t]
           C == S!Owned(a) \cup {co}
<1> PICK z : z = Relinked(Now(t), co)
  OBVIOUS
<1> PICK y : y = Waits(z, t)
  OBVIOUS
<1> PICK x : x = WaitsHere(a)
  OBVIOUS
<1> PICK w : w = Runs(y, co)
  OBVIOUS
<1> PICK b : b = Current(x, co)
  OBVIOUS
<1>1. /\ Free(t) /\ next_id < MaxId /\ next_id' = co /\ Becomes(t, w)
      /\ UNCHANGED <<detached, ndetached, moving, finished>>
  <2>1. z = [m |-> SelfLinked(mem, Node(next_id + 1)), s |-> sco[t]]
    BY DEF Relinked, Now
  <2> QED BY <2>1 DEF Start, Waits
<1>2. ThreadNow(t)
  BY ThreadIs
<1>3. /\ next_id \in Nat /\ co \in Ids /\ co \notin 1 .. next_id
  <2>1. next_id \in 0 .. MaxId /\ MaxId \in Nat
    BY MaxIdAssumption DEF CInv, S!IInv, S!Types
  <2> QED BY <1>1, <2>1 DEF Ids
<1>4. co \notin Detached \cup finished /\ \A u \in Threads : co \notin S!Has(u) \cup S!Moved(u)
  BY <1>3 DEF CInv, S!IInv, S!Complete
<1>5. S!Has(t) = S!Owned(a)
  BY DEF S!Has
<1>6. Own(t, C)
  <2>1. Own(t, S!Owned(a))
    BY <1>5, OwnHas
  <2> QED BY <1>4, <2>1 DEF Own
<1>7. /\ Keeps(t, Now(t), a) /\ Now(t).m = mem /\ a.cur = sco[t].cur
      /\ a.cur # NONE => a.cur \in Ids /\ a.cur \notin S!Waiting(a) /\ IsSelfLinked(mem, Node(a.cur))
  BY <1>2 DEF ThreadNow
<1>8. co \notin S!Owned(a)
  BY <1>4, <1>5
<1>9. co \notin S!Waiting(a) /\ (a.cur # NONE => a.cur # co)
  BY <1>8 DEF S!Owned
<1> HIDE DEF a, co
<1>10. Goes(t, Now(t), z, a, {co}) /\ IsSelfLinked(z.m, Node(co))
  BY <1>3, <1>7, <1>9, RelinkedIs
<1>11. Keeps(t, z, a) /\ SameOutside(mem, z.m, NodesOf({co}) \cup EndsOf(t))
  BY <1>7, <1>10 DEF Goes
<1>12. a.cur # NONE => a.cur \in Ids /\ a.cur \notin S!Waiting(a) /\ IsSelfLinked(z.m, Node(a.cur))
  <2> SUFFICES ASSUME a.cur # NONE PROVE IsSelfLinked(z.m, Node(a.cur))
    BY <1>7
  <2>1. a.cur \in Ids /\ a.cur # co /\ IsSelfLinked(mem, Node(a.cur))
    BY <1>7, <1>9
  <2>2. Node(a.cur) \in Addr /\ Node(a.cur) \notin NodesOf({co}) \cup EndsOf(t)
    BY <2>1, NodeFacts DEF NodesOf, EndsOf, Addr, CoNodes
  <2> QED BY <1>11, <2>1, <2>2, SelfLinkKept
<1>13. Goes(t, z, y, x, S!Owned(a))
  BY <1>11, <1>12, WaitsIs
<1>14. Keeps(t, y, x) /\ SameOutside(z.m, y.m, NodesOf(S!Owned(a)) \cup EndsOf(t))
  BY <1>13 DEF Goes
<1>15. IsSelfLinked(y.m, Node(co))
  <2>1. Node(co) \in Addr /\ Node(co) \notin NodesOf(S!Owned(a)) \cup EndsOf(t)
    BY <1>3, <1>8, NodeFacts DEF NodesOf, EndsOf, Addr, CoNodes
  <2> QED BY <1>10, <1>14, <2>1, SelfLinkKept
<1>16. Switched(t, y, w, b, C)
  BY <1>3, <1>14, <1>15, RunsIs
<1>17. Goes(t, Now(t), y, x, C)
  <2>1. {co} \subseteq C /\ S!Owned(a) \subseteq C
    OBVIOUS
  <2> HIDE DEF C
  <2>2. Goes(t, Now(t), z, a, C) /\ Goes(t, z, y, x, C)
    BY <1>10, <1>13, <2>1, GoesWider
  <2> QED BY <2>2, GoesTwice
<1> HIDE DEF C
<1>18. Switched(t, Now(t), w, b, C)
  BY <1>16, <1>17, GoesThenSwitches
<1>19. Written(t, w, b, C)
  BY <1>1, <1>18 DEF Written, Becomes
<1>20. Reached(t, b)
  BY <1>6, <1>19, LocalStep
<1>21. w.s.cur = b.cur
  BY <1>18 DEF Switched, Goes, Keeps
<1>22. S!Becomes(t, b)
  BY <1>1, <1>20, <1>21, ReachedBecomes
<1>23. Detached' = Detached
  BY <1>20 DEF Reached
<1>24. S!Start(t)
  <2>1. b = [IF Sched[t].cur = NONE THEN Sched[t] ELSE S!AddRunner(Sched[t], Sched[t].cur)
               EXCEPT !.cur = next_id + 1]
    BY Zenon DEF Current, WaitsHere, a, co
  <2> QED BY <1>1, <1>22, <1>23, <2>1, Zenon DEF S!Start, S!Free, Free, NotMoving, S!NotMoving, co
<1>25. Shape'
  BY <1>1, <1>20, ReachedShape
<1> QED BY <1>24, <1>25

LEMMA ResumedFacts ==
  ASSUME NEW a, S!Clean(a), NEW co \in a.paused
  PROVE  LET r == [a EXCEPT !.paused = @ \ {co}] IN
         /\ S!Clean(r) /\ S!Orderly(r) /\ S!Waiting(a) = S!Waiting(r) \cup {co}
         /\ r.cur = a.cur /\ co \in Ids /\ co \notin S!Waiting(r) /\ co # a.cur
<1>1. a.paused \subseteq Ids
  BY SameIds DEF S!Clean, S!Orderly, S!ThreadStates
<1> QED BY <1>1, S!Unpaused DEF S!Clean

\* The coroutine that resumes another one yields.
YieldsHere(a) == IF a.cur = NONE THEN a ELSE S!Switch(S!AddYielder(a, a.cur), FALSE)

LEMMA YieldsAfterIs ==
  ASSUME Heights = Nat, NEW t \in Threads, NEW w, NEW a, Keeps(t, w, a),
         a.cur # NONE => a.cur \in Ids /\ a.cur \notin S!Waiting(a) /\ IsSelfLinked(w.m, Node(a.cur))
  PROVE  Switched(t, w, YieldsAfter(w, t), YieldsHere(a), S!Owned(a))
<1>1. w.s.cur = a.cur
  BY DEF Keeps
<1>2. CASE a.cur = NONE
  <2>1. YieldsAfter(w, t) = w /\ YieldsHere(a) = a
    BY <1>1, <1>2 DEF YieldsAfter, YieldsHere
  <2>2. Switched(t, w, w, a, S!Owned(a))
    BY <1>1, <1>2 DEF Switched, Goes, SameOutside
  <2> QED BY <2>1, <2>2
<1>3. CASE a.cur # NONE
  <2> PICK co : co = a.cur
    OBVIOUS
  <2> PICK y : y = AddYielder(w, t, co)
    OBVIOUS
  <2> PICK x : x = S!AddYielder(a, co)
    OBVIOUS
  <2>1. YieldsAfter(w, t) = Switch(y, t, FALSE) /\ YieldsHere(a) = S!Switch(x, FALSE)
    BY <1>1, <1>3 DEF YieldsAfter, YieldsHere
  <2>2. S!Owned(a) = S!Waiting(a) \cup {co}
    BY <1>3 DEF S!Owned
  <2>3. co \in Ids /\ co \notin S!Waiting(a) /\ IsSelfLinked(w.m, Node(co)) /\ S!Orderly(a)
    BY <1>3 DEF Keeps
  <2> PICK C : C = S!Waiting(a) \cup {co}
    OBVIOUS
  <2>4. Goes(t, w, y, x, C)
    BY <2>3, AddYielderIs
  <2>5. S!Waiting(x) = C /\ Keeps(t, y, x)
    <3>1. S!Waiting(x) = C
      BY <2>3, SameIds, S!AddYielderFacts
    <3> QED BY <2>4, <3>1 DEF Goes
  <2>6. Switched(t, y, Switch(y, t, FALSE), S!Switch(x, FALSE), C)
    BY <2>5, SwitchIs
  <2>7. Switched(t, w, Switch(y, t, FALSE), S!Switch(x, FALSE), C)
    BY <2>4, <2>6, GoesThenSwitches
  <2> QED BY <2>1, <2>2, <2>7
<1> QED BY <1>2, <1>3

LEMMA ResumeIs ==
  ASSUME Heights = Nat, CInv, NEW t \in Threads, NEW co \in Ids, Resume(t, co)
  PROVE  S!Resume(t, co) /\ Shape'
<1> DEFINE a == Sched[t]
           C == S!Has(t)
           d == [a EXCEPT !.paused = @ \ {co}]
<1> PICK v : v = DeletePaused(Now(t), co)
  OBVIOUS
<1> PICK z : z = Relinked(v, co)
  OBVIOUS
<1> PICK y : y = AddYielder(z, t, co)
  OBVIOUS
<1> PICK w : w = YieldsAfter(y, t)
  OBVIOUS
<1> PICK x : x = S!AddYielder(d, co)
  OBVIOUS
<1> PICK b : b = YieldsHere(x)
  OBVIOUS
<1>1. /\ Free(t) /\ Holds(mem, sco[t].paused, co) /\ Becomes(t, w)
      /\ UNCHANGED <<next_id, detached, ndetached, moving, finished>>
  BY DEF Resume
<1>2. ThreadNow(t)
  BY ThreadIs
<1>3. /\ Keeps(t, Now(t), a) /\ Now(t).m = mem /\ Now(t).s = sco[t] /\ a.cur = sco[t].cur
      /\ a.cur # NONE => a.cur \in Ids /\ a.cur \notin S!Waiting(a) /\ IsSelfLinked(mem, Node(a.cur))
      /\ mem \in Memories
  BY <1>2 DEF ThreadNow
<1>4. co \in a.paused
  <2>1. MapIs(mem, sco[t].paused, a.paused)
    BY <1>3 DEF Keeps
  <2> QED BY <1>1, <1>3, <2>1, HoldsIs
<1>5. S!Clean(a)
  BY S!ThreadFacts DEF CInv
<1>6. /\ S!Waiting(a) \subseteq C /\ (a.cur # NONE => a.cur \in C) /\ C = S!Owned(a)
  BY DEF S!Has, S!Owned
<1> HIDE DEF a
<1>7. /\ S!Clean(d) /\ S!Orderly(d) /\ S!Waiting(a) = S!Waiting(d) \cup {co}
      /\ d.cur = a.cur /\ co \notin S!Waiting(d) /\ co # a.cur
  BY <1>4, <1>5, ResumedFacts
<1>8. Goes(t, Now(t), v, d, S!Waiting(a))
  BY <1>3, <1>4, DeletePausedIs
<1> HIDE DEF d
<1>9. Keeps(t, v, d)
  BY <1>8 DEF Goes
<1>10. Goes(t, v, z, d, {co}) /\ IsSelfLinked(z.m, Node(co))
  BY <1>7, <1>9, RelinkedIs
<1>11. Keeps(t, z, d)
  BY <1>10 DEF Goes
<1>12. Goes(t, z, y, x, S!Waiting(d) \cup {co})
  BY <1>7, <1>10, <1>11, AddYielderIs
<1>13. Goes(t, Now(t), y, x, S!Waiting(a))
  <2>1. {co} \subseteq S!Waiting(a) /\ S!Waiting(d) \cup {co} = S!Waiting(a)
    BY <1>7
  <2> PICK D : D = S!Waiting(a)
    OBVIOUS
  <2>2. Goes(t, v, z, d, D)
    BY <1>10, <2>1, GoesWider
  <2>3. Goes(t, z, y, x, D) /\ Goes(t, Now(t), v, d, D)
    BY <1>8, <1>12, <2>1
  <2>4. Goes(t, v, y, x, D)
    BY <2>2, <2>3, GoesTwice
  <2>5. Goes(t, Now(t), y, x, D)
    BY <2>3, <2>4, GoesTwice
  <2> QED BY <2>5
<1>14. S!Waiting(x) = S!Waiting(a) /\ x.cur = a.cur
  BY <1>7, SameIds, S!AddYielderFacts
<1>15. Keeps(t, y, x)
  BY <1>13 DEF Goes
<1>16. x.cur # NONE => x.cur \in Ids /\ x.cur \notin S!Waiting(x) /\ IsSelfLinked(y.m, Node(x.cur))
  <2> SUFFICES ASSUME a.cur # NONE PROVE IsSelfLinked(y.m, Node(a.cur))
    BY <1>3, <1>14
  <2>1. a.cur \in Ids /\ a.cur \notin S!Waiting(a) /\ IsSelfLinked(mem, Node(a.cur))
    BY <1>3
  <2>2. Node(a.cur) \in Addr /\ Node(a.cur) \notin NodesOf(S!Waiting(a)) \cup EndsOf(t)
    BY <2>1, NodeFacts DEF NodesOf, EndsOf, Addr, CoNodes
  <2>3. SameOutside(mem, y.m, NodesOf(S!Waiting(a)) \cup EndsOf(t))
    BY <1>3, <1>13 DEF Goes
  <2> QED BY <2>1, <2>2, <2>3, SelfLinkKept
<1>17. Switched(t, y, w, b, S!Owned(x))
  BY <1>15, <1>16, YieldsAfterIs
<1>18. S!Owned(x) = C
  BY <1>6, <1>14 DEF S!Owned
<1> HIDE DEF C
<1>19. Goes(t, Now(t), y, x, C)
  BY <1>6, <1>13, GoesWider
<1>20. Switched(t, Now(t), w, b, C)
  BY <1>17, <1>18, <1>19, GoesThenSwitches
<1>21. Written(t, w, b, C)
  BY <1>1, <1>20 DEF Written, Becomes
<1>22. Own(t, C)
  BY OwnHas DEF C
<1>23. Reached(t, b)
  BY <1>21, <1>22, LocalStep
<1>24. w.s.cur = b.cur
  BY <1>20 DEF Switched, Goes, Keeps
<1>25. S!Becomes(t, b)
  BY <1>1, <1>23, <1>24, ReachedBecomes
<1>26. Detached' = Detached
  BY <1>23 DEF Reached
<1>27. S!Resume(t, co)
  <2>1. x = S!AddYielder([Sched[t] EXCEPT !.paused = @ \ {co}], co)
    BY Zenon DEF a, d
  <2>2. b = IF x.cur = NONE THEN x ELSE S!Switch(S!AddYielder(x, x.cur), FALSE)
    BY Zenon DEF YieldsHere
  <2>3. S!Free(t) /\ co \in Sched[t].paused
    BY <1>1, <1>4 DEF a, S!Free, Free, NotMoving, S!NotMoving
  <2> QED BY <1>1, <1>25, <1>26, <2>1, <2>2, <2>3, Zenon DEF S!Resume
<1>28. Shape'
  BY <1>1, <1>23, ReachedShape
<1> QED BY <1>27, <1>28

LEMMA DetachIs ==
  ASSUME Heights = Nat, CInv, NEW t \in Threads, NEW co \in Ids, Detach(t, co)
  PROVE  S!Detach(t, co) /\ Shape'
<1> DEFINE a == Sched[t]
           C == S!Waiting(a)
           b == [a EXCEPT !.paused = @ \ {co}]
<1> PICK w : w = DeletePaused(Now(t), co)
  OBVIOUS
<1>1. /\ Free(t) /\ Holds(mem, sco[t].paused, co) /\ Becomes(t, w)
      /\ moving' = [moving EXCEPT ![t] = [op |-> "detach", id |-> co]]
      /\ UNCHANGED <<next_id, detached, ndetached, finished>>
  BY DEF Detach
<1>2. ThreadNow(t)
  BY ThreadIs
<1>3. /\ Keeps(t, Now(t), a) /\ Now(t).m = mem /\ Now(t).s = sco[t] /\ a.cur = sco[t].cur
      /\ a.cur # NONE => a.cur \in Ids /\ a.cur \notin S!Waiting(a) /\ IsSelfLinked(mem, Node(a.cur))
      /\ mem \in Memories
  BY <1>2 DEF ThreadNow
<1>4. co \in a.paused
  <2>1. MapIs(mem, sco[t].paused, a.paused)
    BY <1>3 DEF Keeps
  <2> QED BY <1>1, <1>3, <2>1, HoldsIs
<1>5. S!Clean(a) /\ C \subseteq S!Has(t)
  BY S!ThreadFacts, HasIs DEF CInv
<1> HIDE DEF a
<1>6. b.cur = a.cur
  BY <1>4, <1>5, ResumedFacts
<1>7. Goes(t, Now(t), w, b, C)
  BY <1>3, <1>4, DeletePausedIs
<1>8. Now(t).s.cur = b.cur /\ (b.cur # NONE => b.cur \in Ids \ C /\ IsSelfLinked(Now(t).m, Node(b.cur)))
  BY <1>3, <1>6
<1> HIDE DEF b, C
<1>9. Switched(t, Now(t), w, b, C)
  BY <1>7, <1>8, StaysCurrent
<1>10. Written(t, w, b, C)
  BY <1>1, <1>9 DEF Written, Becomes
<1>11. Own(t, C)
  BY <1>5, OwnHas
<1>12. Reached(t, b)
  BY <1>10, <1>11, LocalStep
<1>13. w.s.cur = b.cur
  BY <1>9 DEF Switched, Goes, Keeps
<1>14. S!Becomes(t, b)
  BY <1>1, <1>12, <1>13, ReachedBecomes
<1>15. Detached' = Detached
  BY <1>12 DEF Reached
<1>16. S!Detach(t, co)
  <2>1. b = [Sched[t] EXCEPT !.paused = @ \ {co}]
    BY Zenon DEF a, b
  <2>2. S!Free(t) /\ co \in Sched[t].paused
    BY <1>1, <1>4 DEF a, S!Free, Free, NotMoving, S!NotMoving
  <2> QED BY <1>1, <1>14, <1>15, <2>1, <2>2, Zenon DEF S!Detach
<1>17. Shape'
  BY <1>1, <1>12, ReachedShape
<1> QED BY <1>16, <1>17

\* The coroutine a thread has in hand.
InHand(t, co) ==
  /\ co = moving[t].id /\ co \in Ids /\ co \in S!Moved(t)
  /\ co \notin Detached \cup finished /\ \A u \in Threads : co \notin S!Has(u)

LEMMA InHandIs ==
  ASSUME CInv, NEW t \in Threads, moving[t].op # "none"
  PROVE  InHand(t, moving[t].id)
<1>1. moving[t] \in {S!NotMoving} \cup [op : {"detach", "attach"}, id : Ids]
  BY SameIds DEF CInv, S!IInv, S!Types
<1>2. moving[t].id \in Ids
  BY <1>1 DEF S!NotMoving
<1>3. moving[t].id \in S!Moved(t)
  BY <1>2, NoneAssumption DEF S!Moved, Ids
<1> QED BY <1>2, <1>3 DEF InHand, CInv, S!IInv, S!Parted

LEMMA AttachInsertIs ==
  ASSUME Heights = Nat, CInv, NEW t \in Threads, AttachInsert(t)
  PROVE  S!AttachInsert(t) /\ Shape'
<1> DEFINE co == moving[t].id
           a == Sched[t]
           C == S!Waiting(a) \cup {co}
           b == [a EXCEPT !.paused = @ \cup {co}]
<1> PICK w : w = AddPaused(Now(t), co)
  OBVIOUS
<1>1. /\ moving[t].op = "attach" /\ Becomes(t, w) /\ moving' = [moving EXCEPT ![t] = NotMoving]
      /\ UNCHANGED <<next_id, detached, ndetached, finished>>
  BY DEF AttachInsert
<1>2. ThreadNow(t)
  BY ThreadIs
<1>3. /\ Keeps(t, Now(t), a) /\ Now(t).m = mem /\ Now(t).s = sco[t] /\ a.cur = sco[t].cur
      /\ a.cur # NONE => a.cur \in Ids /\ a.cur \notin S!Waiting(a) /\ IsSelfLinked(mem, Node(a.cur))
      /\ mem \in Memories /\ S!Orderly(a)
  BY <1>2 DEF ThreadNow
<1>4. InHand(t, co)
  BY <1>1, InHandIs
<1>5. co \in Ids /\ co \notin S!Waiting(a) /\ (a.cur # NONE => co # a.cur) /\ C \subseteq S!Has(t) \cup S!Moved(t)
  BY <1>4, HasIs DEF InHand
<1> HIDE DEF a, co
<1>6. b.cur = a.cur
  BY <1>3 DEF S!Orderly, S!ThreadStates
<1>7. Goes(t, Now(t), w, b, C)
  BY <1>3, <1>5, AddPausedIs
<1>8. Now(t).s.cur = b.cur /\ (b.cur # NONE => b.cur \in Ids \ C /\ IsSelfLinked(Now(t).m, Node(b.cur)))
  BY <1>3, <1>5, <1>6
<1> HIDE DEF b, C
<1>9. Switched(t, Now(t), w, b, C)
  BY <1>7, <1>8, StaysCurrent
<1>10. Written(t, w, b, C)
  BY <1>1, <1>9 DEF Written, Becomes
<1>11. Own(t, C)
  BY <1>5, OwnHas
<1>12. Reached(t, b)
  BY <1>10, <1>11, LocalStep
<1>13. w.s.cur = b.cur
  BY <1>9 DEF Switched, Goes, Keeps
<1>14. S!Becomes(t, b)
  BY <1>1, <1>12, <1>13, ReachedBecomes
<1>15. Detached' = Detached
  BY <1>12 DEF Reached
<1>16. S!AttachInsert(t)
  <2>1. b = [Sched[t] EXCEPT !.paused = @ \cup {moving[t].id}]
    BY Zenon DEF a, b, co
  <2>2. S!NotMoving = NotMoving
    BY DEF S!NotMoving, NotMoving
  <2> QED BY <1>1, <1>14, <1>15, <2>1, <2>2, Zenon DEF S!AttachInsert
<1>17. Shape'
  BY <1>1, <1>12, ReachedShape
<1> QED BY <1>16, <1>17

LEMMA StayedShape ==
  ASSUME NEW new, Stayed(new), finished' = finished
  PROVE  Shape'
  BY DEF Stayed, Shape, Now

LEMMA DetachInsertIs ==
  ASSUME Heights = Nat, CInv, NEW t \in Threads, DetachInsert(t)
  PROVE  S!DetachInsert(t) /\ Shape'
<1> DEFINE co == moving[t].id
           new == Detached \cup {co}
<1> PICK r : r = MapInsert(mem, detached, co)
  OBVIOUS
<1>1. /\ moving[t].op = "detach" /\ mem' = r.mem /\ detached' = r.map /\ moving' = [moving EXCEPT ![t] = NotMoving]
      /\ UNCHANGED <<sco, next_id, finished, barred>>
  BY DEF DetachInsert
<1>2. InHand(t, co)
  BY <1>1, InHandIs
<1>3. co \in Ids /\ co \notin finished /\ \A u \in Threads : co \notin S!Has(u)
  BY <1>2 DEF InHand
<1>4. mem \in Memories /\ MapIs(mem, detached, Detached)
  BY DEF CInv, Shape
<1> HIDE DEF co
<1>5. Replaced(mem, Detached, r, new)
  BY <1>3, <1>4, MapInsertIs
<1>6. new \cap finished = {} /\ \A u \in Threads : new \cap S!Has(u) = {}
  BY <1>3 DEF CInv, S!IInv, S!Parted
<1> HIDE DEF new
<1>7. Exchanged(r, new)
  BY <1>1, <1>5 DEF Exchanged
<1>8. Stayed(new)
  BY <1>6, <1>7, SharedStep
<1>9. Sched' = Sched /\ Detached' = new
  BY <1>8 DEF Stayed
<1>10. S!DetachInsert(t)
  <2>1. S!NotMoving = NotMoving
    BY DEF S!NotMoving, NotMoving
  <2> QED BY <1>1, <1>9, <2>1 DEF S!DetachInsert, new, co
<1>11. Shape'
  BY <1>1, <1>8, StayedShape
<1> QED BY <1>10, <1>11

LEMMA AttachIs ==
  ASSUME Heights = Nat, CInv, NEW t \in Threads, NEW co \in Ids, Attach(t, co)
  PROVE  S!Attach(t, co) /\ Shape'
<1> DEFINE new == Detached \ {co}
<1> PICK r : r = MapDelete(mem, detached, co)
  OBVIOUS
<1>1. /\ Free(t) /\ Holds(mem, detached, co) /\ mem' = r.mem /\ detached' = r.map
      /\ moving' = [moving EXCEPT ![t] = [op |-> "attach", id |-> co]]
      /\ UNCHANGED <<sco, next_id, finished, barred>>
  BY DEF Attach
<1>2. mem \in Memories /\ MapIs(mem, detached, Detached)
  BY DEF CInv, Shape
<1>3. co \in Detached
  BY <1>1, <1>2, HoldsIs
<1>4. Replaced(mem, Detached, r, new)
  BY <1>2, <1>3, MapDeleteIs
<1>5. new \cap finished = {} /\ \A u \in Threads : new \cap S!Has(u) = {}
  BY DEF CInv, S!IInv, S!Parted
<1> HIDE DEF new
<1>6. Exchanged(r, new)
  BY <1>1, <1>4 DEF Exchanged
<1>7. Stayed(new)
  BY <1>5, <1>6, SharedStep
<1>8. Sched' = Sched /\ Detached' = new
  BY <1>7 DEF Stayed
<1>9. S!Attach(t, co)
  BY <1>1, <1>3, <1>8 DEF S!Attach, S!Free, Free, NotMoving, S!NotMoving, new
<1>10. Shape'
  BY <1>1, <1>7, StayedShape
<1> QED BY <1>9, <1>10

-----------------------------------------------------------------------------
(* The first states.                                                       *)

LEMMA FirstMemory ==
  ASSUME Init
  PROVE  /\ mem \in Memories
         /\ \A t \in Threads, list \in Lists : /\ mem.next[Front(t, list)] = Back(t, list)
                                               /\ mem.prev[Back(t, list)] = Front(t, list)
         /\ \A n \in Nowhere : mem.prev[n] = FREED /\ mem.next[n] = FREED
<1> DEFINE p == [n \in Addr |-> IF n \notin Ends THEN FREED ELSE IF n[3] = "tail" THEN Front(n[1], n[2]) ELSE NULL]
           x == [n \in Addr |-> IF n \notin Ends THEN FREED ELSE IF n[3] = "head" THEN Back(n[1], n[2]) ELSE NULL]
           l == [n \in CoNodes |-> 0]
<1>1. mem = [prev |-> p, next |-> x, level |-> l]
  BY DEF Init, Addr
<1>2. \A t, list : /\ Front(t, list)[1] = t /\ Front(t, list)[2] = list /\ Front(t, list)[3] = "head"
                   /\ Back(t, list)[1] = t /\ Back(t, list)[2] = list /\ Back(t, list)[3] = "tail"
  BY DEF Front, Back
<1>3. NULL \in Addr /\ FREED \in Addr /\ NULL \in Nowhere /\ FREED \in Nowhere
  BY NowhereFacts DEF Nowhere
<1>4. ASSUME NEW t \in Threads, NEW list \in Lists
      PROVE  Front(t, list) \in Ends /\ Back(t, list) \in Ends /\ Front(t, list) \in Addr /\ Back(t, list) \in Addr
  BY DEF Ends, Addr
<1>5. ASSUME NEW n \in Ends PROVE Front(n[1], n[2]) \in Addr /\ Back(n[1], n[2]) \in Addr
  <2> PICK t \in Threads, list \in Lists : n = Front(t, list) \/ n = Back(t, list)
    BY DEF Ends
  <2>1. n[1] = t /\ n[2] = list
    BY <1>2
  <2> QED BY <1>4, <2>1
<1>6. p \in [Addr -> Addr] /\ x \in [Addr -> Addr] /\ l \in [CoNodes -> Nat]
  BY <1>3, <1>5
<1>7. ASSUME NEW t \in Threads, NEW list \in Lists
      PROVE  x[Front(t, list)] = Back(t, list) /\ p[Back(t, list)] = Front(t, list)
  BY <1>2, <1>4
<1>8. ASSUME NEW n \in Nowhere PROVE p[n] = FREED /\ x[n] = FREED
  <2>1. n \in Addr /\ n \notin Ends
    BY NodeFacts DEF Addr, Ends
  <2> QED BY <2>1
<1> HIDE DEF p, x, l
<1>9. mem.prev = p /\ mem.next = x /\ mem \in Memories
  BY <1>1, <1>6 DEF Memories
<1> QED BY <1>7, <1>8, <1>9

LEMMA EmptyMapIs ==
  ASSUME Heights = Nat, NEW m
  PROVE  MapIs(m, EmptyMap, {})
<1>1. NULL \in Addr
  BY NowhereFacts
<1>2. EmptyMap \in Maps /\ \A s \in Shards : EmptyMap.roots[s] = NULL
  BY <1>1 DEF EmptyMap, Maps, Shards
<1>3. Nodes[NIL] = {} /\ KeysOf(NIL) = {} /\ Ordered(NIL) /\ NIL \in Tree
  BY NothingInNIL, NILIsATree
<1>4. IdTree(NIL) /\ TreeLaid(m, NIL) /\ Pointer(NIL) = NULL
  BY <1>3 DEF IdTree, TreeLaid, Pointer
<1>5. ASSUME NEW s \in Shards PROVE IsTreeOf(m, EmptyMap, {}, s, NIL)
  BY <1>2, <1>3, <1>4 DEF IsTreeOf, InShard
<1> QED BY <1>2, <1>5 DEF MapIs

\* A thread that has no coroutines.
Idle == [cur |-> NONE, runners |-> <<>>, yielders |-> <<>>, paused |-> {}, exiting |-> FALSE]

LEMMA IdleKept ==
  ASSUME Heights = Nat, Init, NEW t \in Threads
  PROVE  Keeps(t, Now(t), Idle)
<1>1. mem \in Memories /\ \A list \in Lists : /\ mem.next[Front(t, list)] = Back(t, list)
                                              /\ mem.prev[Back(t, list)] = Front(t, list)
  BY FirstMemory
<1>2. ASSUME NEW list \in Lists PROVE Linked(mem, t, list, <<>>)
  <2>1. Len(<<>>) = 0
    OBVIOUS
  <2>2. Stop(t, list, <<>>, 0) = Front(t, list) /\ Stop(t, list, <<>>, 1) = Back(t, list)
    BY <2>1 DEF Stop
  <2> QED BY <1>1, <2>1, <2>2 DEF Linked
<1>3. /\ Idle \in S!ThreadStates /\ Idle.cur = NONE /\ Idle.runners = <<>> /\ Idle.yielders = <<>>
      /\ Idle.paused = {} /\ Idle.exiting = FALSE
  BY S!EmptyFacts DEF Idle, S!ThreadStates
<1>4. S!Orderly(Idle)
  BY <1>3, S!EmptyFacts DEF S!Orderly
<1>5. Cardinality({}) = 0
  BY FS_EmptySet
<1>6. MapIs(mem, EmptyMap, {})
  BY EmptyMapIs
<1>7. sco[t] = [cur |-> NONE, nrunners |-> 0, nyielders |-> 0, paused |-> EmptyMap, npaused |-> 0,
                exit_to_main_requested |-> FALSE]
  BY DEF Init
<1>8. /\ sco[t].cur = NONE /\ sco[t].nrunners = 0 /\ sco[t].nyielders = 0 /\ sco[t].paused = EmptyMap
      /\ sco[t].npaused = 0 /\ sco[t].exit_to_main_requested = FALSE /\ sco[t] \in SchedRecs
  BY <1>6, <1>7 DEF SchedRecs, MapIs
<1>9. "runners" \in Lists /\ "yielders" \in Lists
  BY DEF Lists
<1>10. Linked(mem, t, "runners", <<>>) /\ Linked(mem, t, "yielders", <<>>)
  BY <1>2, <1>9
<1>11. Now(t).m = mem /\ Now(t).s = sco[t] /\ Len(<<>>) = 0
  BY DEF Now
<1> QED BY <1>1, <1>3, <1>4, <1>5, <1>6, <1>8, <1>10, <1>11 DEF Keeps

LEMMA InitIs ==
  ASSUME Heights = Nat, Init
  PROVE  S!Init /\ Shape
<1>1. \A t \in Threads : Keeps(t, Now(t), Idle)
  BY IdleKept
<1>2. \A t \in Threads : StandsFor(t, Now(t)) = Idle
  BY <1>1, KeptIs
<1>3. Sched = [t \in Threads |-> Idle]
  BY <1>2, SchedStands
<1>4. mem \in Memories /\ \A n \in Nowhere : mem.prev[n] = FREED /\ mem.next[n] = FREED
  BY FirstMemory
<1>5. MapIs(mem, detached, {})
  BY EmptyMapIs DEF Init
<1>6. Detached = {}
  BY <1>4, <1>5, MembersAre DEF Detached
<1>7. S!Init
  BY <1>3, <1>6 DEF Init, S!Init, Idle, NotMoving, S!NotMoving
<1>8. sco \in [Threads -> SchedRecs] /\ \A t \in Threads : sco[t].cur = NONE
  <2>1. \A t \in Threads : sco[t] \in SchedRecs /\ sco[t].cur = NONE
    BY <1>1 DEF Keeps, Now, Idle
  <2> QED BY <2>1 DEF Init
<1>9. finished = {} /\ NodesOf({}) = {}
  BY DEF Init, NodesOf
<1>10. Shape
  BY <1>1, <1>3, <1>4, <1>5, <1>6, <1>8, <1>9 DEF Shape
<1> QED BY <1>7, <1>10

-----------------------------------------------------------------------------
(* Every step.                                                             *)

LEMMA StepIs ==
  ASSUME Heights = Nat, CInv, NEW t \in Threads, Step(t)
  PROVE  S!Next /\ Shape'
<1>1. CASE Start(t)
  BY <1>1, StartIs DEF S!Next
<1>2. CASE Finish(t)
  BY <1>2, FinishIs DEF S!Next
<1>3. CASE Exit(t)
  BY <1>3, ExitIs DEF S!Next
<1>4. CASE Yield(t)
  BY <1>4, YieldIs DEF S!Next
<1>5. CASE Pause(t)
  BY <1>5, PauseIs DEF S!Next
<1>6. CASE ResumeMain(t)
  BY <1>6, ResumeMainIs DEF S!Next
<1>7. ASSUME NEW co \in Ids, Resume(t, co) \/ Detach(t, co) \/ Attach(t, co)
      PROVE  S!Next /\ Shape'
  <2>1. co \in S!Ids
    BY SameIds
  <2>2. CASE Resume(t, co)
    BY <2>1, <2>2, ResumeIs DEF S!Next
  <2>3. CASE Detach(t, co)
    BY <2>1, <2>3, DetachIs DEF S!Next
  <2>4. CASE Attach(t, co)
    BY <2>1, <2>4, AttachIs DEF S!Next
  <2> QED BY <1>7, <2>2, <2>3, <2>4
<1>8. CASE DetachInsert(t)
  BY <1>8, DetachInsertIs DEF S!Next
<1>9. CASE AttachInsert(t)
  BY <1>9, AttachInsertIs DEF S!Next
<1> QED BY <1>1, <1>2, <1>3, <1>4, <1>5, <1>6, <1>7, <1>8, <1>9 DEF Step

LEMMA StutterIs ==
  ASSUME UNCHANGED vars, Shape
  PROVE  UNCHANGED S!vars /\ Shape'
<1>1. UNCHANGED S!vars
  BY DEF vars, S!vars, Sched, Detached
<1>2. Shape'
  <2>1. Sched' = Sched /\ Detached' = Detached
    BY DEF vars, Sched, Detached
  <2> QED BY <2>1 DEF vars, Shape, Now
<1> QED BY <1>1, <1>2

LEMMA NextIs ==
  ASSUME Heights = Nat, CInv, [Next]_vars
  PROVE  CInv' /\ [S!Next]_S!vars
<1>1. [S!Next]_S!vars /\ Shape'
  <2>1. CASE Next
    BY <2>1, StepIs DEF Next
  <2>2. CASE UNCHANGED vars
    BY <2>2, StutterIs DEF CInv
  <2> QED BY <2>1, <2>2
<1>2. S!IInv'
  BY <1>1, S!NextInv DEF CInv
<1> QED BY <1>1, <1>2 DEF CInv

LEMMA FirstIs ==
  ASSUME Heights = Nat, Init
  PROVE  CInv
<1>1. S!Init /\ Shape
  BY InitIs
<1>2. MaxId \in Nat /\ NONE \notin S!Ids
  BY MaxIdAssumption, NoneAssumption DEF S!Ids
<1> QED BY <1>1, <1>2, S!InitInv DEF CInv

\* The scheduler that Sco names is the one the lemmas are about.
LEMMA SameScheduler ==
  /\ Abstract!Init <=> S!Init
  /\ Abstract!vars = S!vars
  /\ Abstract!Next <=> S!Next
<1>1. Abstract!Init <=> S!Init
  BY DEF Abstract!Init, S!Init, Abstract!NotMoving, S!NotMoving
<1>2. Abstract!vars = S!vars
  BY DEF Abstract!vars, S!vars
<1> USE DEF Abstract!NotMoving, S!NotMoving, Abstract!Free, S!Free, Abstract!InCoroutine, S!InCoroutine,
            Abstract!InMain, S!InMain, Abstract!Becomes, S!Becomes, Abstract!Ids, S!Ids
<1>3. \A main, s : Abstract!Switch(s, main) = S!Switch(s, main)
  BY DEF Abstract!Switch, S!Switch, Abstract!RunFirst, S!RunFirst, Abstract!ReturnToMain, S!ReturnToMain
<1>4. \A s, co : Abstract!AddRunner(s, co) = S!AddRunner(s, co) /\ Abstract!AddYielder(s, co) = S!AddYielder(s, co)
  BY DEF Abstract!AddRunner, S!AddRunner, Abstract!AddYielder, S!AddYielder
<1>5. ASSUME NEW t PROVE Abstract!Start(t) <=> S!Start(t)
  BY DEF Abstract!Start, S!Start, Abstract!AddRunner, S!AddRunner
<1>6. ASSUME NEW t PROVE Abstract!Finish(t) <=> S!Finish(t)
  BY <1>3, Zenon DEF Abstract!Finish, S!Finish
<1>7. ASSUME NEW t PROVE Abstract!Exit(t) <=> S!Exit(t)
  BY <1>3, Zenon DEF Abstract!Exit, S!Exit
<1>8. ASSUME NEW t PROVE Abstract!Yield(t) <=> S!Yield(t)
  BY <1>3, <1>4, Zenon DEF Abstract!Yield, S!Yield
<1>9. ASSUME NEW t PROVE Abstract!Pause(t) <=> S!Pause(t)
  BY <1>3, Zenon DEF Abstract!Pause, S!Pause
<1>10. ASSUME NEW t PROVE Abstract!ResumeMain(t) <=> S!ResumeMain(t)
  BY <1>3, Zenon DEF Abstract!ResumeMain, S!ResumeMain
<1>11. ASSUME NEW t, NEW co PROVE Abstract!Resume(t, co) <=> S!Resume(t, co)
  BY <1>3, <1>4, Zenon DEF Abstract!Resume, S!Resume
<1>12. ASSUME NEW t, NEW co PROVE Abstract!Detach(t, co) <=> S!Detach(t, co)
  BY Zenon DEF Abstract!Detach, S!Detach
<1>13. ASSUME NEW t, NEW co PROVE Abstract!Attach(t, co) <=> S!Attach(t, co)
  BY Zenon DEF Abstract!Attach, S!Attach
<1>14. ASSUME NEW t PROVE /\ Abstract!DetachInsert(t) <=> S!DetachInsert(t)
                          /\ Abstract!AttachInsert(t) <=> S!AttachInsert(t)
  BY Zenon DEF Abstract!DetachInsert, S!DetachInsert, Abstract!AttachInsert, S!AttachInsert
<1>15. Abstract!Next <=> S!Next
  BY <1>5, <1>6, <1>7, <1>8, <1>9, <1>10, <1>11, <1>12, <1>13, <1>14 DEF Abstract!Next, S!Next
<1> QED BY <1>1, <1>2, <1>15

-----------------------------------------------------------------------------
\* The lists are linked forwards and backwards, the counters count, the trees hold
\* the paused and the detached coroutines, no two of these share a node, and each
\* coroutine is in one place.
THEOREM SchedulersAreKept ==
  ASSUME Heights = Nat PROVE Spec => []CInv
<1>1. Init => CInv
  BY FirstIs
<1>2. CInv /\ [Next]_vars => CInv'
  BY NextIs
<1> QED BY <1>1, <1>2, PTL DEF Spec

\* Every step of the lists, trees and counters is the step of the queues and sets
\* that the scheduler takes, for any threads, coroutines and shards.
THEOREM SchedulerIsImplemented ==
  ASSUME Heights = Nat PROVE Spec => ImplementsScheduler
<1>1. Init => Abstract!Init
  BY InitIs, SameScheduler
<1>2. CInv /\ [Next]_vars => [Abstract!Next]_Abstract!vars
  <2> SUFFICES ASSUME CInv, [Next]_vars PROVE [Abstract!Next]_Abstract!vars
    OBVIOUS
  <2>1. S!Next \/ UNCHANGED S!vars
    BY NextIs
  <2>2. UNCHANGED S!vars => UNCHANGED Abstract!vars
    BY DEF S!vars, Abstract!vars
  <2> QED BY <2>1, <2>2, SameScheduler
<1>3. Spec => []CInv
  BY SchedulersAreKept
<1> QED BY <1>1, <1>2, <1>3, PTL DEF Spec, ImplementsScheduler, Abstract!Spec

\* No coroutine is lost, queued twice or on two threads, and no link is written in
\* the node of one that has finished or where there is no node.
THEOREM CoroutinesStayInOnePlace ==
  ASSUME Heights = Nat PROVE Spec => []InOnePlace
<1>1. CInv => InOnePlace
  <2> SUFFICES ASSUME CInv PROVE InOnePlace
    OBVIOUS
  <2>1. \A co : Abstract!Places(co) = S!Places(co)
    BY DEF Abstract!Places, S!Places, Abstract!Queued, S!Queued
  <2>2. \A co \in 1 .. next_id : \E p \in S!Places(co) : S!Places(co) = {p}
    BY S!OnePlace DEF CInv
  <2>3. Abstract!InOnePlace
    BY <2>1, <2>2 DEF Abstract!InOnePlace
  <2>4. \A n \in {Node(co) : co \in finished} \cup Nowhere : mem.prev[n] = FREED /\ mem.next[n] = FREED
    BY DEF CInv, Shape, NodesOf
  <2> QED BY <2>3, <2>4 DEF InOnePlace
<1>2. Spec => []CInv
  BY SchedulersAreKept
<1> QED BY <1>1, <1>2, PTL

\* After a call to chiba_sco_exit main runs before any coroutine that had yielded,
\* which the counters and lists of any number of coroutines decide.
THEOREM ExitReachesMain ==
  ASSUME Heights = Nat PROVE Spec => []ExitGoesToMain
<1>1. CInv => ExitGoesToMain
  BY DEF CInv, S!IInv, S!Barring, S!Bars, ExitGoesToMain, Abstract!ExitGoesToMain
<1>2. Spec => []CInv
  BY SchedulersAreKept
<1> QED BY <1>1, <1>2, PTL
=============================================================================
