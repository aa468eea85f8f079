----------------------------- MODULE AATreeProofs -----------------------------
(***************************************************************************)
(* Proofs about AATreeMap, for trees of any height and any number of keys: *)
(* the tree holds the keys it should in search order, it is balanced, and  *)
(* lookups find what they should.                                          *)
(*                                                                         *)
(* The parts are: the set of trees and induction over it; rotations field  *)
(* by field; the recursive functions, which are what their equations say;  *)
(* keys and order; levels and balance; the map; lookups.                   *)
(***************************************************************************)
EXTENDS AATreeMap, FiniteSetTheorems, WellFoundedInduction, TLAPS

LEMMA LeastNumber ==
  ASSUME NEW D, D \subseteq Nat, D # {}
  PROVE  \E m \in D : \A k \in D : m <= k
<1> DEFINE R == OpToRel(<, Nat)
<1>1. IsWellFoundedOn(R, Nat)
  BY NatLessThanWellFounded
<1>2. \A k, m \in Nat : k < m => <<k, m>> \in R
  BY DEF OpToRel
<1> HIDE DEF R
<1>3. PICK m \in D : \A k \in D : ~(<<k, m>> \in R)
  BY <1>1, WFMin
<1>4. \A k \in D : ~(k < m)
  BY <1>2, <1>3
<1> QED BY <1>4

-----------------------------------------------------------------------------
(* The set of trees.                                                       *)

\* The equation of Trees on the numbers up to n.
TreesUpTo(f, n) ==
  f = [h \in 0 .. n |->
         IF h = 0 THEN {NIL}
         ELSE {NIL} \cup [key : Int, level : Nat \ {0}, left : f[h - 1], right : f[h - 1]]]

LEMMA SomeTreesUpTo == \A n \in Nat : \E f : TreesUpTo(f, n)
<1> DEFINE D == {n \in Nat : ~\E f : TreesUpTo(f, n)}
<1> SUFFICES ASSUME D # {} PROVE FALSE
  OBVIOUS
<1>1. PICK m \in D : \A k \in D : m <= k
  BY LeastNumber
<1>2. m # 0
  <2>1. TreesUpTo([h \in 0 .. 0 |-> {NIL}], 0)
    BY DEF TreesUpTo
  <2> QED BY <2>1
<1>3. m - 1 \in Nat /\ m - 1 \notin D
  BY <1>1, <1>2
<1>4. PICK f : TreesUpTo(f, m - 1)
  BY <1>3
<1> DEFINE new == {NIL} \cup [key : Int, level : Nat \ {0}, left : f[m - 1], right : f[m - 1]]
           g == [h \in 0 .. m |-> IF h = m THEN new ELSE f[h]]
           fNext(h) == IF h = 0 THEN {NIL}
             ELSE {NIL} \cup [key : Int, level : Nat \ {0}, left : f[h - 1], right : f[h - 1]]
           gNext(h) == IF h = 0 THEN {NIL}
             ELSE {NIL} \cup [key : Int, level : Nat \ {0}, left : g[h - 1], right : g[h - 1]]
<1>5. \A h \in 0 .. m - 1 : f[h] = fNext(h)
  BY <1>4 DEF TreesUpTo
<1>6. \A h \in 0 .. m : g[h] = gNext(h)
  <2> SUFFICES ASSUME NEW h \in 0 .. m PROVE g[h] = gNext(h)
    OBVIOUS
  <2>1. CASE h = m
    <3>1. g[m - 1] = f[m - 1]
      BY <1>3
    <3> QED BY <2>1, <3>1, <1>2
  <2>2. CASE h # m
    <3>1. h = 0 \/ g[h - 1] = f[h - 1]
      BY <2>2, <1>3
    <3>2. h \in 0 .. m - 1 /\ g[h] = f[h]
      BY <2>2, <1>3
    <3> QED BY <3>1, <3>2, <1>5
  <2> QED BY <2>1, <2>2
<1>7. g = [h \in 0 .. m |-> gNext(h)]
  BY <1>6, Zenon
<1>8. TreesUpTo(g, m)
  BY <1>7 DEF TreesUpTo
<1> QED BY <1>8

LEMMA OneTreesUpTo ==
  \A m, n \in Nat : \A f, g : TreesUpTo(f, m) /\ TreesUpTo(g, n) => \A h \in 0 .. m : h <= n => f[h] = g[h]
<1> SUFFICES ASSUME NEW m \in Nat, NEW n \in Nat, NEW f, NEW g, TreesUpTo(f, m), TreesUpTo(g, n)
             PROVE  \A h \in 0 .. m : h <= n => f[h] = g[h]
  OBVIOUS
<1> DEFINE D == {h \in 0 .. m : h <= n /\ f[h] # g[h]}
<1> SUFFICES ASSUME D # {} PROVE FALSE
  OBVIOUS
<1>0. D \subseteq Nat
  OBVIOUS
<1>1. PICK h \in D : \A k \in D : h <= k
  BY <1>0, LeastNumber, Zenon
<1>2. h # 0
  BY <1>1 DEF TreesUpTo
<1>3. h - 1 \in 0 .. m /\ h - 1 <= n /\ h - 1 \notin D
  BY <1>1, <1>2
<1>4. f[h - 1] = g[h - 1]
  BY <1>3
<1>5. f[h] = {NIL} \cup [key : Int, level : Nat \ {0}, left : f[h - 1], right : f[h - 1]]
  BY <1>2 DEF TreesUpTo
<1>6. g[h] = {NIL} \cup [key : Int, level : Nat \ {0}, left : g[h - 1], right : g[h - 1]]
  BY <1>2, h \in 0 .. n DEF TreesUpTo
<1> QED BY <1>4, <1>5, <1>6

\* The recursive function is what its equation says.
TreesEquation ==
  Trees = [h \in Nat |->
             IF h = 0 THEN {NIL}
             ELSE {NIL} \cup [key : Int, level : Nat \ {0}, left : Trees[h - 1], right : Trees[h - 1]]]

LEMMA TreesDef == TreesEquation
<1> DEFINE up(n) == CHOOSE f : TreesUpTo(f, n)
           all == [n \in Nat |-> up(n)[n]]
           Next0(F, h) == IF h = 0 THEN {NIL}
             ELSE {NIL} \cup [key : Int, level : Nat \ {0}, left : F[h - 1], right : F[h - 1]]
<1>1. \A n \in Nat : TreesUpTo(up(n), n)
  BY SomeTreesUpTo
<1> HIDE DEF up
<1>2. \A n \in Nat : \A h \in 0 .. n : up(n)[h] = Next0(up(n), h)
  BY <1>1 DEF TreesUpTo
<1>3. \A n \in Nat : all[n] = Next0(all, n)
  <2> SUFFICES ASSUME NEW n \in Nat PROVE all[n] = Next0(all, n)
    OBVIOUS
  <2>0. n \in 0 .. n
    OBVIOUS
  <2>1. up(n)[n] = Next0(up(n), n)
    BY <1>2, <2>0, Zenon
  <2>2. CASE n = 0
    BY <2>1, <2>2
  <2>3. CASE n # 0
    <3>1. up(n - 1)[n - 1] = up(n)[n - 1]
      BY <1>1, <2>3, OneTreesUpTo, n - 1 \in Nat, n - 1 \in 0 .. n - 1
    <3>2. all[n - 1] = up(n)[n - 1]
      BY <3>1, <2>3
    <3> QED BY <2>1, <3>2, <2>3
  <2> QED BY <2>2, <2>3
<1>4. all = [n \in Nat |-> Next0(all, n)]
  BY <1>3, Zenon
<1>5. \E F : F = [n \in Nat |-> Next0(F, n)]
  BY <1>4
<1>6. Trees = CHOOSE F : F = [n \in Nat |-> Next0(F, n)]
  BY DEF Trees
<1>7. Trees = [n \in Nat |-> Next0(Trees, n)]
  BY <1>5, <1>6
<1> QED BY <1>7 DEF TreesEquation

LEMMA TreesNext ==
  \A h \in Nat : Trees[h + 1] = {NIL} \cup [key : Int, level : Nat \ {0}, left : Trees[h], right : Trees[h]]
<1> SUFFICES ASSUME NEW h \in Nat
             PROVE  Trees[h + 1] = {NIL} \cup [key : Int, level : Nat \ {0}, left : Trees[h], right : Trees[h]]
  OBVIOUS
<1> QED BY TreesDef DEF TreesEquation

LEMMA TreesGrow == \A h \in Nat : Trees[h] \subseteq Trees[h + 1]
<1> DEFINE D == {h \in Nat : ~(Trees[h] \subseteq Trees[h + 1])}
<1> SUFFICES ASSUME D # {} PROVE FALSE
  OBVIOUS
<1>0. D \subseteq Nat
  OBVIOUS
<1>1. PICK h \in D : \A k \in D : h <= k
  BY <1>0, LeastNumber, Zenon
<1>2. Trees[h + 1] = {NIL} \cup [key : Int, level : Nat \ {0}, left : Trees[h], right : Trees[h]]
  BY TreesDef DEF TreesEquation
<1>3. h # 0
  <2>1. Trees[0] = {NIL}
    BY TreesDef DEF TreesEquation
  <2> QED BY <2>1, <1>1, <1>2
<1>4. h - 1 \in Nat /\ h - 1 \notin D
  BY <1>1, <1>3
<1>5. Trees[h - 1] \subseteq Trees[h]
  BY <1>4
<1>6. Trees[h] = {NIL} \cup [key : Int, level : Nat \ {0}, left : Trees[h - 1], right : Trees[h - 1]]
  BY <1>3, TreesDef DEF TreesEquation
<1>7. Trees[h] \subseteq Trees[h + 1]
  BY <1>2, <1>5, <1>6
<1> QED BY <1>1, <1>7

LEMMA TreesNest == \A h, j \in Nat : h <= j => Trees[h] \subseteq Trees[j]
<1> SUFFICES ASSUME NEW h \in Nat PROVE \A j \in Nat : h <= j => Trees[h] \subseteq Trees[j]
  OBVIOUS
<1> DEFINE D == {j \in Nat : h <= j /\ ~(Trees[h] \subseteq Trees[j])}
<1> SUFFICES ASSUME D # {} PROVE FALSE
  OBVIOUS
<1>0. D \subseteq Nat
  OBVIOUS
<1>1. PICK j \in D : \A k \in D : j <= k
  BY <1>0, LeastNumber, Zenon
<1>2. j # h
  BY <1>1
<1>3. j - 1 \in Nat /\ h <= j - 1 /\ j - 1 \notin D
  BY <1>1, <1>2
<1>4. Trees[j - 1] \subseteq Trees[(j - 1) + 1]
  BY <1>3, TreesGrow
<1> QED BY <1>1, <1>3, <1>4

\* A node and its subtrees.
Branch(k, v, l, r) == [key |-> k, level |-> v, left |-> l, right |-> r]

LEMMA NILIsNoBranch ==
  \A k, l, r : \A v \in Nat \ {0} : Branch(k, v, l, r) # NIL
<1> SUFFICES ASSUME NEW k, NEW l, NEW r, NEW v \in Nat \ {0} PROVE Branch(k, v, l, r) # NIL
  OBVIOUS
<1>1. Branch(k, v, l, r).level = v /\ NIL.level = 0
  BY DEF Branch, NIL
<1> QED BY <1>1

LEMMA NILIsATree ==
  ASSUME Heights = Nat
  PROVE  NIL \in Tree
<1>1. NIL \in Trees[0]
  BY TreesDef DEF TreesEquation
<1> QED BY <1>1 DEF Tree

LEMMA BranchIsATree ==
  ASSUME Heights = Nat,
         NEW k \in Int, NEW v \in Nat \ {0}, NEW l \in Tree, NEW r \in Tree
  PROVE  Branch(k, v, l, r) \in Tree
<1>1. PICK i \in Nat : l \in Trees[i]
  BY DEF Tree
<1>2. PICK j \in Nat : r \in Trees[j]
  BY DEF Tree
<1> PICK n \in Nat : n = i + j
  OBVIOUS
<1>3. l \in Trees[n] /\ r \in Trees[n]
  BY <1>1, <1>2, TreesNest, i <= n, j <= n
<1>4. Trees[n + 1] = {NIL} \cup [key : Int, level : Nat \ {0}, left : Trees[n], right : Trees[n]]
  BY TreesNext
<1>5. Branch(k, v, l, r) \in Trees[n + 1]
  BY <1>3, <1>4 DEF Branch
<1> QED BY <1>5 DEF Tree

\* What a tree that is not empty is made of.
HasFields(t) == t = Branch(t.key, t.level, t.left, t.right)

IsBranch(t) ==
  /\ t.key \in Int /\ t.level \in Nat \ {0} /\ t.left \in Tree /\ t.right \in Tree
  /\ HasFields(t)

LEMMA TreesAreBranches ==
  ASSUME Heights = Nat, NEW h \in Nat, NEW t \in Trees[h], t # NIL
  PROVE  IsBranch(t) /\ h > 0 /\ t.left \in Trees[h - 1] /\ t.right \in Trees[h - 1]
<1>1. h > 0
  BY TreesDef DEF TreesEquation
<1>2. t \in [key : Int, level : Nat \ {0}, left : Trees[h - 1], right : Trees[h - 1]]
  BY <1>1, TreesDef DEF TreesEquation
<1>3. h - 1 \in Nat
  BY <1>1
<1>4. t.left \in Tree /\ t.right \in Tree
  BY <1>2, <1>3 DEF Tree
<1> QED BY <1>1, <1>2, <1>4 DEF IsBranch, HasFields, Branch

LEMMA TreeIsBranch ==
  ASSUME Heights = Nat, NEW t \in Tree, t # NIL
  PROVE  IsBranch(t)
<1>1. PICK h \in Nat : t \in Trees[h]
  BY DEF Tree
<1> QED BY <1>1, TreesAreBranches, Zenon

\* Induction over trees.
LEMMA TreeInduction ==
  ASSUME Heights = Nat, NEW P, NIL \in P,
         \A t \in Tree : t # NIL /\ t.left \in P /\ t.right \in P => t \in P
  PROVE  Tree \subseteq P
<1> DEFINE D == {h \in Nat : ~(Trees[h] \subseteq P)}
<1>0. D \subseteq Nat
  OBVIOUS
<1>1. D = {}
  <2> SUFFICES ASSUME D # {} PROVE FALSE
    OBVIOUS
  <2>1. PICK h \in D : \A k \in D : h <= k
    BY <1>0, LeastNumber, Zenon
  <2>2. PICK t \in Trees[h] : t \notin P
    BY <2>1
  <2>3. IsBranch(t) /\ h > 0 /\ t.left \in Trees[h - 1] /\ t.right \in Trees[h - 1]
    BY <2>2, <2>1, TreesAreBranches
  <2>4. h - 1 \in Nat /\ h - 1 \notin D
    BY <2>1, <2>3
  <2>5. t.left \in P /\ t.right \in P
    BY <2>3, <2>4
  <2>6. t \in Tree
    BY <2>1, <2>2 DEF Tree
  <2> QED BY <2>2, <2>5, <2>6
<1> QED BY <1>1 DEF Tree

-----------------------------------------------------------------------------
(* Recursion over trees: what a function with values in S, b for the empty *)
(* tree and g for the others, is on the trees of a height and on all.      *)

\* The equation of f at t.
Unfolded(f, b, g, t) == f[t] = IF t = NIL THEN b ELSE g[t][f[t.left]][f[t.right]]

IsRecursion(f, n, S, b, g) == f \in [Trees[n] -> S] /\ \A t \in Trees[n] : Unfolded(f, b, g, t)

LEMMA RecursionUpTo ==
  ASSUME Heights = Nat, NEW S, NEW b \in S, NEW g \in [Tree -> [S -> [S -> S]]]
  PROVE  \A n \in Nat : \E f : IsRecursion(f, n, S, b, g)
<1> DEFINE D == {n \in Nat : ~\E f : IsRecursion(f, n, S, b, g)}
<1> SUFFICES ASSUME D # {} PROVE FALSE
  OBVIOUS
<1>0. D \subseteq Nat
  OBVIOUS
<1>1. PICK n \in D : \A k \in D : n <= k
  BY <1>0, LeastNumber, Zenon
<1>2. n # 0
  <2>1. Trees[0] = {NIL}
    BY TreesDef DEF TreesEquation
  <2>2. IsRecursion([t \in Trees[0] |-> b], 0, S, b, g)
    BY <2>1 DEF IsRecursion, Unfolded
  <2> QED BY <2>2
<1>3. n - 1 \in Nat /\ n - 1 \notin D
  BY <1>1, <1>2
<1>4. PICK f : IsRecursion(f, n - 1, S, b, g)
  BY <1>3
<1>5. Trees[n - 1] \subseteq Trees[n]
  BY <1>3, TreesNest, n - 1 <= n
<1> DEFINE h == [t \in Trees[n] |-> IF t = NIL THEN b ELSE g[t][f[t.left]][f[t.right]]]
<1>6. \A t \in Trees[n] : t # NIL => t.left \in Trees[n - 1] /\ t.right \in Trees[n - 1]
  BY TreesAreBranches
<1>7. \A t \in Trees[n - 1] : h[t] = f[t]
  BY <1>4, <1>5 DEF IsRecursion, Unfolded
<1>8. \A t \in Trees[n] : Unfolded(h, b, g, t)
  BY <1>6, <1>7 DEF Unfolded
<1>9. h \in [Trees[n] -> S]
  <2> SUFFICES ASSUME NEW t \in Trees[n], t # NIL PROVE g[t][f[t.left]][f[t.right]] \in S
    OBVIOUS
  <2>1. f[t.left] \in S /\ f[t.right] \in S
    BY <1>4, <1>6 DEF IsRecursion
  <2>2. g[t] \in [S -> [S -> S]]
    BY DEF Tree
  <2> QED BY <2>1, <2>2
<1>10. IsRecursion(h, n, S, b, g)
  BY <1>8, <1>9 DEF IsRecursion
<1> QED BY <1>10

OnlyOneRecursion(S, b, g) ==
  \A m, n \in Nat : \A f, h :
    IsRecursion(f, m, S, b, g) /\ IsRecursion(h, n, S, b, g)
      => \A t \in Tree : t \in Trees[m] /\ t \in Trees[n] => f[t] = h[t]

LEMMA OneRecursion ==
  ASSUME Heights = Nat, NEW S, NEW b, NEW g
  PROVE  OnlyOneRecursion(S, b, g)
<1> SUFFICES ASSUME NEW m \in Nat, NEW n \in Nat, NEW f, NEW h,
                    IsRecursion(f, m, S, b, g), IsRecursion(h, n, S, b, g)
             PROVE  \A t \in Tree : t \in Trees[m] /\ t \in Trees[n] => f[t] = h[t]
  BY DEF OnlyOneRecursion
<1> DEFINE P == {t \in Tree : t \in Trees[m] /\ t \in Trees[n] => f[t] = h[t]}
<1>1. NIL \in P
  BY NILIsATree DEF IsRecursion, Unfolded
<1>2. ASSUME NEW t \in Tree, t # NIL, t.left \in P, t.right \in P, t \in Trees[m], t \in Trees[n]
      PROVE  f[t] = h[t]
  <2>1. /\ t.left \in Trees[m - 1] /\ t.right \in Trees[m - 1] /\ m > 0
        /\ t.left \in Trees[n - 1] /\ t.right \in Trees[n - 1] /\ n > 0
    BY <1>2, TreesAreBranches, Zenon
  <2>2. Trees[m - 1] \subseteq Trees[m] /\ Trees[n - 1] \subseteq Trees[n]
    BY <2>1, TreesNest, m - 1 <= m, n - 1 <= n, m - 1 \in Nat, n - 1 \in Nat
  <2>3. f[t.left] = h[t.left] /\ f[t.right] = h[t.right]
    BY <1>2, <2>1, <2>2
  <2>4. Unfolded(f, b, g, t) /\ Unfolded(h, b, g, t)
    BY <1>2 DEF IsRecursion
  <2> QED BY <2>3, <2>4 DEF Unfolded
<1>3. \A t \in Tree : t # NIL /\ t.left \in P /\ t.right \in P => t \in P
  BY <1>2
<1> HIDE DEF P
<1>4. Tree \subseteq P
  BY <1>1, <1>3, TreeInduction, Zenon
<1> QED BY <1>4 DEF P

\* The equation has a solution on all trees.
Recursive(S, b, g) == \E f \in [Tree -> S] : \A t \in Tree : Unfolded(f, b, g, t)

LEMMA TreeRecursion ==
  ASSUME Heights = Nat, NEW S, NEW b \in S, NEW g \in [Tree -> [S -> [S -> S]]]
  PROVE  Recursive(S, b, g)
<1>0. OnlyOneRecursion(S, b, g)
  BY OneRecursion
<1> DEFINE up(n) == CHOOSE f : IsRecursion(f, n, S, b, g)
           height(t) == CHOOSE n \in Nat : t \in Trees[n]
           all == [t \in Tree |-> up(height(t))[t]]
<1>1. \A n \in Nat : IsRecursion(up(n), n, S, b, g)
  BY RecursionUpTo
<1>2. \A t \in Tree : height(t) \in Nat /\ t \in Trees[height(t)]
  BY DEF Tree
<1> HIDE DEF up, height
<1>3. ASSUME NEW n \in Nat, NEW t \in Trees[n]
      PROVE  t \in Tree /\ all[t] = up(n)[t]
  <2>1. t \in Tree
    BY DEF Tree
  <2> PICK m \in Nat : m = height(t)
    BY <1>2, <2>1
  <2> PICK f : f = up(n)
    OBVIOUS
  <2> PICK h : h = up(m)
    OBVIOUS
  <2>2. IsRecursion(f, n, S, b, g) /\ IsRecursion(h, m, S, b, g)
    BY <1>1
  <2>3. \A u \in Tree : u \in Trees[n] /\ u \in Trees[m] => f[u] = h[u]
    BY <1>0, <2>2 DEF OnlyOneRecursion
  <2>4. h[t] = f[t]
    BY <1>2, <2>1, <2>3
  <2> QED BY <2>1, <2>4
<1>4. \A t \in Tree : Unfolded(all, b, g, t)
  <2> SUFFICES ASSUME NEW t \in Tree PROVE Unfolded(all, b, g, t)
    OBVIOUS
  <2> PICK n \in Nat : n = height(t)
    BY <1>2
  <2>1. t \in Trees[n] /\ all[t] = up(n)[t]
    BY <1>2
  <2>2. Unfolded(up(n), b, g, t)
    BY <1>1, <2>1 DEF IsRecursion
  <2>3. CASE t = NIL
    BY <2>1, <2>2, <2>3 DEF Unfolded
  <2>4. CASE t # NIL
    <3>1. t.left \in Trees[n - 1] /\ t.right \in Trees[n - 1] /\ n > 0
      BY <2>1, <2>4, TreesAreBranches, Zenon
    <3>2. Trees[n - 1] \subseteq Trees[n]
      BY <3>1, TreesNest, n - 1 <= n, n - 1 \in Nat
    <3>3. all[t.left] = up(n)[t.left] /\ all[t.right] = up(n)[t.right]
      BY <1>3, <3>1, <3>2
    <3> QED BY <2>1, <2>2, <3>3, <2>4 DEF Unfolded
  <2> QED BY <2>3, <2>4
<1>5. all \in [Tree -> S]
  <2> SUFFICES ASSUME NEW t \in Tree PROVE up(height(t))[t] \in S
    OBVIOUS
  <2>1. up(height(t)) \in [Trees[height(t)] -> S]
    BY <1>1, <1>2 DEF IsRecursion
  <2> QED BY <1>2, <2>1
<1> QED BY <1>4, <1>5 DEF Recursive

-----------------------------------------------------------------------------
(* Rebalancing, as it takes trees apart and puts them together.            *)

\* A node with other fields.
LEMMA NewLeft ==
  ASSUME NEW t, HasFields(t), NEW x
  PROVE  [t EXCEPT !.left = x] = Branch(t.key, t.level, x, t.right)
<1>1. t = [key |-> t.key, level |-> t.level, left |-> t.left, right |-> t.right]
  BY DEF HasFields, Branch
<1> QED BY <1>1 DEF Branch

LEMMA NewRight ==
  ASSUME NEW t, HasFields(t), NEW x
  PROVE  [t EXCEPT !.right = x] = Branch(t.key, t.level, t.left, x)
<1>1. t = [key |-> t.key, level |-> t.level, left |-> t.left, right |-> t.right]
  BY DEF HasFields, Branch
<1> QED BY <1>1 DEF Branch

LEMMA NewLevel ==
  ASSUME NEW t, HasFields(t), NEW v
  PROVE  [t EXCEPT !.level = v] = Branch(t.key, v, t.left, t.right)
<1>1. t = [key |-> t.key, level |-> t.level, left |-> t.left, right |-> t.right]
  BY DEF HasFields, Branch
<1> QED BY <1>1 DEF Branch

LEMMA NewKey ==
  ASSUME NEW t, HasFields(t), NEW k
  PROVE  [t EXCEPT !.key = k] = Branch(k, t.level, t.left, t.right)
<1>1. t = [key |-> t.key, level |-> t.level, left |-> t.left, right |-> t.right]
  BY DEF HasFields, Branch
<1> QED BY <1>1 DEF Branch

LEMMA FieldsOf ==
  ASSUME NEW k, NEW v, NEW l, NEW r
  PROVE  /\ Branch(k, v, l, r).key = k /\ Branch(k, v, l, r).level = v
         /\ Branch(k, v, l, r).left = l /\ Branch(k, v, l, r).right = r
BY DEF Branch

\* Several fields changed at once, each of the next four being a Branch.
NewLeftLevelIs(t, x, v) == [t EXCEPT !.left = x, !.level = v] = Branch(t.key, v, x, t.right)

LEMMA NewLeftLevel ==
  ASSUME NEW t, HasFields(t), NEW x, NEW v
  PROVE  NewLeftLevelIs(t, x, v)
<1> PICK u : u = [t EXCEPT !.left = x]
  OBVIOUS
<1>1. u = Branch(t.key, t.level, x, t.right)
  BY NewLeft
<1>2. HasFields(u)
  BY <1>1 DEF HasFields, Branch
<1>3. [u EXCEPT !.level = v] = Branch(u.key, v, u.left, u.right)
  BY <1>2, NewLevel
<1>4. [t EXCEPT !.left = x, !.level = v] = [u EXCEPT !.level = v]
  OBVIOUS
<1> QED BY <1>1, <1>3, <1>4, FieldsOf DEF NewLeftLevelIs

NewLevelRightIs(t, x, v) == [t EXCEPT !.level = v, !.right = x] = Branch(t.key, v, t.left, x)

LEMMA NewLevelRight ==
  ASSUME NEW t, HasFields(t), NEW x, NEW v
  PROVE  NewLevelRightIs(t, x, v)
<1> PICK u : u = [t EXCEPT !.level = v]
  OBVIOUS
<1>1. u = Branch(t.key, v, t.left, t.right)
  BY NewLevel
<1>2. HasFields(u)
  BY <1>1 DEF HasFields, Branch
<1>3. [u EXCEPT !.right = x] = Branch(u.key, u.level, u.left, x)
  BY <1>2, NewRight
<1>4. [t EXCEPT !.level = v, !.right = x] = [u EXCEPT !.right = x]
  OBVIOUS
<1> QED BY <1>1, <1>3, <1>4, FieldsOf DEF NewLevelRightIs

NewKeyLeftIs(t, x, k) == [t EXCEPT !.key = k, !.left = x] = Branch(k, t.level, x, t.right)

LEMMA NewKeyLeft ==
  ASSUME NEW t, HasFields(t), NEW x, NEW k
  PROVE  NewKeyLeftIs(t, x, k)
<1> PICK u : u = [t EXCEPT !.key = k]
  OBVIOUS
<1>1. u = Branch(k, t.level, t.left, t.right)
  BY NewKey
<1>2. HasFields(u)
  BY <1>1 DEF HasFields, Branch
<1>3. [u EXCEPT !.left = x] = Branch(u.key, u.level, x, u.right)
  BY <1>2, NewLeft
<1>4. [t EXCEPT !.key = k, !.left = x] = [u EXCEPT !.left = x]
  OBVIOUS
<1> QED BY <1>1, <1>3, <1>4, FieldsOf DEF NewKeyLeftIs

NewKeyRightIs(t, x, k) == [t EXCEPT !.key = k, !.right = x] = Branch(k, t.level, t.left, x)

LEMMA NewKeyRight ==
  ASSUME NEW t, HasFields(t), NEW x, NEW k
  PROVE  NewKeyRightIs(t, x, k)
<1> PICK u : u = [t EXCEPT !.key = k]
  OBVIOUS
<1>1. u = Branch(k, t.level, t.left, t.right)
  BY NewKey
<1>2. HasFields(u)
  BY <1>1 DEF HasFields, Branch
<1>3. [u EXCEPT !.right = x] = Branch(u.key, u.level, u.left, x)
  BY <1>2, NewRight
<1>4. [t EXCEPT !.key = k, !.right = x] = [u EXCEPT !.right = x]
  OBVIOUS
<1> QED BY <1>1, <1>3, <1>4, FieldsOf DEF NewKeyRightIs

\* What a rotation to the right makes.
Skewed(t) == Branch(t.left.key, t.left.level, t.left.left, Branch(t.key, t.level, t.left.right, t.right))

LEMMA SkewIs ==
  ASSUME Heights = Nat, NEW t \in Tree
  PROVE  skew(t) = IF HasLeft(t) /\ t.left.level = t.level THEN Skewed(t) ELSE t
<1> SUFFICES ASSUME HasLeft(t), t.left.level = t.level
             PROVE  [t.left EXCEPT !.right = [t EXCEPT !.left = t.left.right]] = Skewed(t)
  BY DEF skew
<1>1. IsBranch(t)
  BY TreeIsBranch DEF HasLeft, IsNode
<1>2. IsBranch(t.left)
  BY <1>1, TreeIsBranch DEF HasLeft, IsNode, IsBranch
<1> PICK l : l = t.left
  OBVIOUS
<1> PICK u : u = [t EXCEPT !.left = l.right]
  OBVIOUS
<1>3. u = Branch(t.key, t.level, l.right, t.right)
  BY <1>1, NewLeft DEF IsBranch
<1>4. [l EXCEPT !.right = u] = Branch(l.key, l.level, l.left, u)
  BY <1>2, NewRight DEF IsBranch
<1> QED BY <1>3, <1>4 DEF Skewed

\* What a rotation to the left makes.
Splitted(t) ==
  Branch(t.right.key, t.right.level + 1, Branch(t.key, t.level, t.left, t.right.left), t.right.right)

LEMMA SplitIs ==
  ASSUME Heights = Nat, NEW t \in Tree
  PROVE  split(t) = IF HasRight(t) /\ HasRight(t.right) /\ t.right.right.level = t.level THEN Splitted(t) ELSE t
<1> SUFFICES ASSUME HasRight(t), HasRight(t.right), t.right.right.level = t.level
             PROVE  [t.right EXCEPT !.left = [t EXCEPT !.right = t.right.left], !.level = @ + 1] = Splitted(t)
  BY DEF split
<1>1. IsBranch(t)
  BY TreeIsBranch DEF HasRight, IsNode
<1>2. IsBranch(t.right)
  BY <1>1, TreeIsBranch DEF HasRight, IsNode, IsBranch
<1> PICK r : r = t.right
  OBVIOUS
<1> PICK u : u = [t EXCEPT !.right = r.left]
  OBVIOUS
<1> PICK v : v = r.level + 1
  OBVIOUS
<1>3. u = Branch(t.key, t.level, t.left, r.left)
  BY <1>1, NewRight DEF IsBranch
<1>4. NewLeftLevelIs(r, u, v)
  BY <1>2, NewLeftLevel DEF IsBranch
<1>5. [t.right EXCEPT !.left = [t EXCEPT !.right = t.right.left], !.level = @ + 1] = [r EXCEPT !.left = u, !.level = v]
  OBVIOUS
<1> QED BY <1>3, <1>4, <1>5 DEF Splitted, NewLeftLevelIs

LEMMA SkewType ==
  ASSUME Heights = Nat, NEW t \in Tree, t # NIL
  PROVE  skew(t) \in Tree /\ skew(t) # NIL
<1>1. CASE ~(HasLeft(t) /\ t.left.level = t.level)
  BY <1>1, SkewIs
<1>2. CASE HasLeft(t) /\ t.left.level = t.level
  <2>1. IsBranch(t) /\ IsBranch(t.left)
    BY <1>2, TreeIsBranch DEF HasLeft, IsNode, IsBranch
  <2>2. Branch(t.key, t.level, t.left.right, t.right) \in Tree
    BY <2>1, BranchIsATree DEF IsBranch
  <2>3. Skewed(t) \in Tree /\ Skewed(t) # NIL
    BY <2>1, <2>2, BranchIsATree, NILIsNoBranch DEF Skewed, IsBranch
  <2> QED BY <1>2, <2>3, SkewIs
<1> QED BY <1>1, <1>2

LEMMA SplitType ==
  ASSUME Heights = Nat, NEW t \in Tree, t # NIL
  PROVE  split(t) \in Tree /\ split(t) # NIL
<1>1. CASE ~(HasRight(t) /\ HasRight(t.right) /\ t.right.right.level = t.level)
  BY <1>1, SplitIs
<1>2. CASE HasRight(t) /\ HasRight(t.right) /\ t.right.right.level = t.level
  <2>1. IsBranch(t) /\ IsBranch(t.right)
    BY <1>2, TreeIsBranch DEF HasRight, IsNode, IsBranch
  <2>2. Branch(t.key, t.level, t.left, t.right.left) \in Tree
    BY <2>1, BranchIsATree DEF IsBranch
  <2>3. t.right.level + 1 \in Nat \ {0}
    BY <2>1 DEF IsBranch
  <2>4. Splitted(t) \in Tree /\ Splitted(t) # NIL
    BY <2>1, <2>2, <2>3, BranchIsATree, NILIsNoBranch DEF Splitted, IsBranch
  <2> QED BY <1>2, <2>4, SplitIs
<1> QED BY <1>1, <1>2

LEMMA NILRotates == skew(NIL) = NIL /\ split(NIL) = NIL
BY DEF skew, split, HasLeft, HasRight, IsNode

LEMMA MinOfTwo ==
  ASSUME NEW a \in Int, NEW b \in Int
  PROVE  Min({a, b}) = IF a <= b THEN a ELSE b
BY DEF Min

LEMMA LevelOverType ==
  ASSUME Heights = Nat, NEW t \in Tree
  PROVE  LevelOver(t) \in Nat \ {0}
<1>1. CASE ~(HasLeft(t) /\ HasRight(t))
  BY <1>1 DEF LevelOver
<1>2. CASE HasLeft(t) /\ HasRight(t)
  <2>1. IsBranch(t)
    BY <1>2, TreeIsBranch DEF HasLeft, IsNode
  <2>2. IsBranch(t.left) /\ IsBranch(t.right)
    BY <1>2, <2>1, TreeIsBranch DEF HasLeft, HasRight, IsNode, IsBranch
  <2>3. LevelOver(t) = 1 + Min({t.left.level, t.right.level})
    BY <1>2 DEF LevelOver
  <2> PICK a \in Nat : a = t.left.level
    BY <2>2 DEF IsBranch
  <2> PICK b \in Nat : b = t.right.level
    BY <2>2 DEF IsBranch
  <2>4. Min({a, b}) \in Nat
    BY MinOfTwo
  <2> QED BY <2>3, <2>4
<1> QED BY <1>1, <1>2

\* A right child whose level is lowered with its parent's.
Lowered(r, v) == IF IsNode(r) /\ v < r.level THEN Branch(r.key, v, r.left, r.right) ELSE r

LEMMA DecreaseIs ==
  ASSUME Heights = Nat, NEW t \in Tree, t # NIL
  PROVE  decrease_level(t) =
           IF (HasLeft(t) \/ HasRight(t)) /\ LevelOver(t) < t.level
             THEN Branch(t.key, LevelOver(t), t.left, Lowered(t.right, LevelOver(t)))
             ELSE t
<1> SUFFICES ASSUME HasLeft(t) \/ HasRight(t), LevelOver(t) < t.level
             PROVE  decrease_level(t) = Branch(t.key, LevelOver(t), t.left, Lowered(t.right, LevelOver(t)))
  BY DEF decrease_level
<1>1. IsBranch(t)
  BY TreeIsBranch
<1> PICK v : v = LevelOver(t)
  OBVIOUS
<1> PICK r : r = t.right
  OBVIOUS
<1> PICK u : u = IF HasRight(t) /\ v < r.level THEN [r EXCEPT !.level = v] ELSE r
  OBVIOUS
<1>2. u = Lowered(r, v)
  <2>1. CASE ~(HasRight(t) /\ v < r.level)
    BY <2>1 DEF Lowered, HasRight, IsNode
  <2>2. CASE HasRight(t) /\ v < r.level
    <3>1. IsBranch(r)
      BY <2>2, <1>1, TreeIsBranch DEF HasRight, IsNode, IsBranch
    <3>2. [r EXCEPT !.level = v] = Branch(r.key, v, r.left, r.right)
      BY <3>1, NewLevel DEF IsBranch
    <3> QED BY <2>2, <3>2 DEF Lowered, HasRight
  <2> QED BY <2>1, <2>2
<1>3. NewLevelRightIs(t, u, v)
  BY <1>1, NewLevelRight DEF IsBranch
<1>4. decrease_level(t) = [t EXCEPT !.level = v, !.right = u]
  BY DEF decrease_level
<1> QED BY <1>2, <1>3, <1>4 DEF NewLevelRightIs

LEMMA LoweredType ==
  ASSUME Heights = Nat, NEW r \in Tree, NEW v \in Nat \ {0}
  PROVE  Lowered(r, v) \in Tree
BY TreeIsBranch, BranchIsATree DEF Lowered, IsNode, IsBranch

LEMMA DecreaseType ==
  ASSUME Heights = Nat, NEW t \in Tree, t # NIL
  PROVE  decrease_level(t) \in Tree /\ decrease_level(t) # NIL
<1>1. CASE ~((HasLeft(t) \/ HasRight(t)) /\ LevelOver(t) < t.level)
  BY <1>1, DecreaseIs
<1>2. CASE (HasLeft(t) \/ HasRight(t)) /\ LevelOver(t) < t.level
  <2> PICK v \in Nat \ {0} : v = LevelOver(t)
    BY LevelOverType
  <2>1. IsBranch(t)
    BY TreeIsBranch
  <2> PICK r \in Tree : r = Lowered(t.right, v)
    BY <2>1, LoweredType DEF IsBranch
  <2>2. Branch(t.key, v, t.left, r) \in Tree /\ Branch(t.key, v, t.left, r) # NIL
    BY <2>1, BranchIsATree, NILIsNoBranch DEF IsBranch
  <2> QED BY <1>2, <2>2, DecreaseIs
<1> QED BY <1>1, <1>2

LEMMA SkewRightIs ==
  ASSUME Heights = Nat, NEW t \in Tree, t # NIL
  PROVE  /\ skew_right(t) = Branch(t.key, t.level, t.left, skew(t.right))
         /\ skew_right(t) \in Tree /\ skew_right(t) # NIL
<1>1. IsBranch(t)
  BY TreeIsBranch
<1> PICK u : u = skew(t.right)
  OBVIOUS
<1>2. [t EXCEPT !.right = u] = Branch(t.key, t.level, t.left, u)
  BY <1>1, NewRight DEF IsBranch
<1>3. u \in Tree
  BY <1>1, SkewType, NILRotates DEF IsBranch
<1>4. Branch(t.key, t.level, t.left, u) \in Tree /\ Branch(t.key, t.level, t.left, u) # NIL
  BY <1>1, <1>3, BranchIsATree, NILIsNoBranch DEF IsBranch
<1> QED BY <1>2, <1>4 DEF skew_right

LEMMA SplitRightIs ==
  ASSUME Heights = Nat, NEW t \in Tree, t # NIL
  PROVE  /\ split_right(t) = Branch(t.key, t.level, t.left, split(t.right))
         /\ split_right(t) \in Tree /\ split_right(t) # NIL
<1>1. IsBranch(t)
  BY TreeIsBranch
<1> PICK u : u = split(t.right)
  OBVIOUS
<1>2. [t EXCEPT !.right = u] = Branch(t.key, t.level, t.left, u)
  BY <1>1, NewRight DEF IsBranch
<1>3. u \in Tree
  BY <1>1, SplitType, NILRotates DEF IsBranch
<1>4. Branch(t.key, t.level, t.left, u) \in Tree /\ Branch(t.key, t.level, t.left, u) # NIL
  BY <1>1, <1>3, BranchIsATree, NILIsNoBranch DEF IsBranch
<1> QED BY <1>2, <1>4 DEF split_right

LEMMA SkewRightRightIs ==
  ASSUME Heights = Nat, NEW t \in Tree, t # NIL
  PROVE  /\ skew_right_right(t) =
              IF HasRight(t) /\ HasRight(t.right)
                THEN Branch(t.key, t.level, t.left, skew_right(t.right)) ELSE t
         /\ skew_right_right(t) \in Tree /\ skew_right_right(t) # NIL
<1>1. CASE ~(HasRight(t) /\ HasRight(t.right))
  BY <1>1 DEF skew_right_right
<1>2. CASE HasRight(t) /\ HasRight(t.right)
  <2>1. IsBranch(t)
    BY TreeIsBranch
  <2>2. t.right \in Tree /\ t.right # NIL
    BY <1>2, <2>1 DEF HasRight, IsNode, IsBranch
  <2> PICK u \in Tree : u = skew_right(t.right)
    BY <2>2, SkewRightIs
  <2>3. [t EXCEPT !.right = u] = Branch(t.key, t.level, t.left, u)
    BY <2>1, NewRight DEF IsBranch
  <2>4. [t EXCEPT !.right.right = skew(@)] = [t EXCEPT !.right = [t.right EXCEPT !.right = skew(t.right.right)]]
    OBVIOUS
  <2>5. skew_right_right(t) = [t EXCEPT !.right = u]
    BY <1>2, <2>4 DEF skew_right_right, skew_right
  <2>6. Branch(t.key, t.level, t.left, u) \in Tree /\ Branch(t.key, t.level, t.left, u) # NIL
    BY <2>1, BranchIsATree, NILIsNoBranch DEF IsBranch
  <2> QED BY <1>2, <2>3, <2>5, <2>6
<1> QED BY <1>1, <1>2

LEMMA FixupType ==
  ASSUME Heights = Nat, NEW t \in Tree, t # NIL
  PROVE  delete_fixup(t) \in Tree /\ delete_fixup(t) # NIL
<1> PICK t1 \in Tree : t1 = decrease_level(t) /\ t1 # NIL
  BY DecreaseType
<1> PICK t2 \in Tree : t2 = skew(t1) /\ t2 # NIL
  BY SkewType
<1> PICK t3 \in Tree : t3 = skew_right(t2) /\ t3 # NIL
  BY SkewRightIs
<1> PICK t4 \in Tree : t4 = skew_right_right(t3) /\ t4 # NIL
  BY SkewRightRightIs
<1> PICK t5 \in Tree : t5 = split(t4) /\ t5 # NIL
  BY SplitType
<1>1. split_right(t5) \in Tree /\ split_right(t5) # NIL
  BY SplitRightIs
<1> QED BY <1>1 DEF delete_fixup

-----------------------------------------------------------------------------
(* The recursive functions are what their equations say.                   *)

LEMMA KeyType ==
  ASSUME Heights = Nat, NEW t \in Tree
  PROVE  t.key \in Int /\ (t = NIL => t.key = NoKey)
BY TreeIsBranch DEF IsBranch, NIL, NoKey

LEMMA WithLeft ==
  ASSUME Heights = Nat, NEW t \in Tree, t # NIL, NEW x \in Tree
  PROVE  /\ [t EXCEPT !.left = x] = Branch(t.key, t.level, x, t.right)
         /\ [t EXCEPT !.left = x] \in Tree /\ [t EXCEPT !.left = x] # NIL
<1>1. IsBranch(t)
  BY TreeIsBranch
<1> PICK u : u = [t EXCEPT !.left = x]
  OBVIOUS
<1>2. u = Branch(t.key, t.level, x, t.right)
  BY <1>1, NewLeft DEF IsBranch
<1>3. Branch(t.key, t.level, x, t.right) \in Tree /\ Branch(t.key, t.level, x, t.right) # NIL
  BY <1>1, BranchIsATree, NILIsNoBranch DEF IsBranch
<1> QED BY <1>2, <1>3

LEMMA WithRight ==
  ASSUME Heights = Nat, NEW t \in Tree, t # NIL, NEW x \in Tree
  PROVE  /\ [t EXCEPT !.right = x] = Branch(t.key, t.level, t.left, x)
         /\ [t EXCEPT !.right = x] \in Tree /\ [t EXCEPT !.right = x] # NIL
<1>1. IsBranch(t)
  BY TreeIsBranch
<1> PICK u : u = [t EXCEPT !.right = x]
  OBVIOUS
<1>2. u = Branch(t.key, t.level, t.left, x)
  BY <1>1, NewRight DEF IsBranch
<1>3. Branch(t.key, t.level, t.left, x) \in Tree /\ Branch(t.key, t.level, t.left, x) # NIL
  BY <1>1, BranchIsATree, NILIsNoBranch DEF IsBranch
<1> QED BY <1>2, <1>3

LEMMA LeafIsATree ==
  ASSUME Heights = Nat, NEW k \in Int
  PROVE  Leaf(k) = Branch(k, 1, NIL, NIL) /\ Leaf(k) \in Tree /\ Leaf(k) # NIL
<1>1. Leaf(k) = Branch(k, 1, NIL, NIL)
  BY DEF Leaf, Branch
<1> QED BY <1>1, BranchIsATree, NILIsATree, NILIsNoBranch, 1 \in Nat \ {0}

\* For each recursive function, its value at t from its values x and y at the
\* subtrees, and the equation that this makes of it.
FirstBody(t, x, y) == IF HasLeft(t) THEN x ELSE t.key

FirstEquation == first = [t \in Tree |-> FirstBody(t, first[t.left], first[t.right])]

LEMMA FirstDef ==
  ASSUME Heights = Nat
  PROVE  FirstEquation /\ first \in [Tree -> Int]
<1> DEFINE g == [t \in Tree |-> [x \in Int |-> [y \in Int |-> FirstBody(t, x, y)]]]
           Next0(F, t) == FirstBody(t, F[t.left], F[t.right])
<1>1. \A t \in Tree : t # NIL => t.left \in Tree /\ t.right \in Tree
  BY TreeIsBranch DEF IsBranch
<1>2. NoKey \in Int /\ \A x, y : FirstBody(NIL, x, y) = NoKey
  BY DEF NIL, HasLeft, IsNode, NoKey, FirstBody
<1>3. \A t \in Tree : \A x, y \in Int : FirstBody(t, x, y) \in Int
  BY KeyType DEF FirstBody
<1>4. g \in [Tree -> [Int -> [Int -> Int]]]
  BY <1>3
<1>11. \A t \in Tree : \A x, y \in Int : g[t][x][y] = FirstBody(t, x, y)
  OBVIOUS
<1> HIDE DEF g
<1>5. Recursive(Int, NoKey, g)
  BY <1>2, <1>4, TreeRecursion
<1>6. PICK f \in [Tree -> Int] : \A t \in Tree : Unfolded(f, NoKey, g, t)
  BY <1>5 DEF Recursive
<1>7. \A t \in Tree : f[t] = Next0(f, t)
  <2> SUFFICES ASSUME NEW t \in Tree PROVE f[t] = FirstBody(t, f[t.left], f[t.right])
    OBVIOUS
  <2>1. Unfolded(f, NoKey, g, t)
    BY <1>6
  <2>2. CASE t = NIL
    BY <2>1, <2>2, <1>2 DEF Unfolded
  <2>3. CASE t # NIL
    BY <2>1, <2>3, <1>1, <1>11 DEF Unfolded
  <2> QED BY <2>2, <2>3
<1>8. f = [t \in Tree |-> Next0(f, t)]
  BY <1>7
<1>9. first = [t \in Tree |-> Next0(first, t)]
  BY <1>8 DEF first, FirstBody
<1>10. \A t \in Tree : first[t] \in Int
  <2> DEFINE P == {t \in Tree : first[t] \in Int}
  <2>1. NIL \in P
    BY <1>2, <1>9, NILIsATree
  <2>2. \A t \in Tree : t # NIL /\ t.left \in P /\ t.right \in P => t \in P
    BY <1>3, <1>9
  <2> HIDE DEF P
  <2>3. Tree \subseteq P
    BY <2>1, <2>2, TreeInduction, Zenon
  <2> QED BY <2>3 DEF P
<1> QED BY <1>9, <1>10 DEF FirstEquation

LastBody(t, x, y) == IF HasRight(t) THEN y ELSE t.key

LastEquation == last = [t \in Tree |-> LastBody(t, last[t.left], last[t.right])]

LEMMA LastDef ==
  ASSUME Heights = Nat
  PROVE  LastEquation /\ last \in [Tree -> Int]
<1> DEFINE g == [t \in Tree |-> [x \in Int |-> [y \in Int |-> LastBody(t, x, y)]]]
           Next0(F, t) == LastBody(t, F[t.left], F[t.right])
<1>1. \A t \in Tree : t # NIL => t.left \in Tree /\ t.right \in Tree
  BY TreeIsBranch DEF IsBranch
<1>2. NoKey \in Int /\ \A x, y : LastBody(NIL, x, y) = NoKey
  BY DEF NIL, HasRight, IsNode, NoKey, LastBody
<1>3. \A t \in Tree : \A x, y \in Int : LastBody(t, x, y) \in Int
  BY KeyType DEF LastBody
<1>4. g \in [Tree -> [Int -> [Int -> Int]]]
  BY <1>3
<1>11. \A t \in Tree : \A x, y \in Int : g[t][x][y] = LastBody(t, x, y)
  OBVIOUS
<1> HIDE DEF g
<1>5. Recursive(Int, NoKey, g)
  BY <1>2, <1>4, TreeRecursion
<1>6. PICK f \in [Tree -> Int] : \A t \in Tree : Unfolded(f, NoKey, g, t)
  BY <1>5 DEF Recursive
<1>7. \A t \in Tree : f[t] = Next0(f, t)
  <2> SUFFICES ASSUME NEW t \in Tree PROVE f[t] = LastBody(t, f[t.left], f[t.right])
    OBVIOUS
  <2>1. Unfolded(f, NoKey, g, t)
    BY <1>6
  <2>2. CASE t = NIL
    BY <2>1, <2>2, <1>2 DEF Unfolded
  <2>3. CASE t # NIL
    BY <2>1, <2>3, <1>1, <1>11 DEF Unfolded
  <2> QED BY <2>2, <2>3
<1>8. f = [t \in Tree |-> Next0(f, t)]
  BY <1>7
<1>9. last = [t \in Tree |-> Next0(last, t)]
  BY <1>8 DEF last, LastBody
<1>10. \A t \in Tree : last[t] \in Int
  <2> DEFINE P == {t \in Tree : last[t] \in Int}
  <2>1. NIL \in P
    BY <1>2, <1>9, NILIsATree
  <2>2. \A t \in Tree : t # NIL /\ t.left \in P /\ t.right \in P => t \in P
    BY <1>3, <1>9
  <2> HIDE DEF P
  <2>3. Tree \subseteq P
    BY <2>1, <2>2, TreeInduction, Zenon
  <2> QED BY <2>3 DEF P
<1> QED BY <1>9, <1>10 DEF LastEquation

SizeBody(t, x, y) == IF IsNode(t) THEN 1 + x + y ELSE 0

SizeEquation == Size = [t \in Tree |-> SizeBody(t, Size[t.left], Size[t.right])]

LEMMA SizeDef ==
  ASSUME Heights = Nat
  PROVE  SizeEquation /\ Size \in [Tree -> Nat]
<1> DEFINE g == [t \in Tree |-> [x \in Nat |-> [y \in Nat |-> SizeBody(t, x, y)]]]
           Next0(F, t) == SizeBody(t, F[t.left], F[t.right])
<1>1. \A t \in Tree : t # NIL => t.left \in Tree /\ t.right \in Tree
  BY TreeIsBranch DEF IsBranch
<1>2. 0 \in Nat /\ \A x, y : SizeBody(NIL, x, y) = 0
  BY DEF IsNode, SizeBody
<1>3. \A t \in Tree : \A x, y \in Nat : SizeBody(t, x, y) \in Nat
  BY DEF SizeBody
<1>4. g \in [Tree -> [Nat -> [Nat -> Nat]]]
  BY <1>3
<1>11. \A t \in Tree : \A x, y \in Nat : g[t][x][y] = SizeBody(t, x, y)
  OBVIOUS
<1> HIDE DEF g
<1>5. Recursive(Nat, 0, g)
  BY <1>2, <1>4, TreeRecursion
<1>6. PICK f \in [Tree -> Nat] : \A t \in Tree : Unfolded(f, 0, g, t)
  BY <1>5 DEF Recursive
<1>7. \A t \in Tree : f[t] = Next0(f, t)
  <2> SUFFICES ASSUME NEW t \in Tree PROVE f[t] = SizeBody(t, f[t.left], f[t.right])
    OBVIOUS
  <2>1. Unfolded(f, 0, g, t)
    BY <1>6
  <2>2. CASE t = NIL
    BY <2>1, <2>2, <1>2 DEF Unfolded
  <2>3. CASE t # NIL
    BY <2>1, <2>3, <1>1, <1>11 DEF Unfolded
  <2> QED BY <2>2, <2>3
<1>8. f = [t \in Tree |-> Next0(f, t)]
  BY <1>7
<1>9. Size = [t \in Tree |-> Next0(Size, t)]
  BY <1>8 DEF Size, SizeBody
<1>10. \A t \in Tree : Size[t] \in Nat
  <2> DEFINE P == {t \in Tree : Size[t] \in Nat}
  <2>1. NIL \in P
    BY <1>2, <1>9, NILIsATree
  <2>2. \A t \in Tree : t # NIL /\ t.left \in P /\ t.right \in P => t \in P
    BY <1>3, <1>9
  <2> HIDE DEF P
  <2>3. Tree \subseteq P
    BY <2>1, <2>2, TreeInduction, Zenon
  <2> QED BY <2>3 DEF P
<1> QED BY <1>9, <1>10 DEF SizeEquation

NodesBody(t, x, y) == IF IsNode(t) THEN {t} \cup x \cup y ELSE {}

NodesEquation == Nodes = [t \in Tree |-> NodesBody(t, Nodes[t.left], Nodes[t.right])]

LEMMA NodesDef ==
  ASSUME Heights = Nat
  PROVE  NodesEquation /\ Nodes \in [Tree -> (SUBSET Tree)]
<1> DEFINE g == [t \in Tree |-> [x \in (SUBSET Tree) |-> [y \in (SUBSET Tree) |-> NodesBody(t, x, y)]]]
           Next0(F, t) == NodesBody(t, F[t.left], F[t.right])
<1>1. \A t \in Tree : t # NIL => t.left \in Tree /\ t.right \in Tree
  BY TreeIsBranch DEF IsBranch
<1>2. {} \in (SUBSET Tree) /\ \A x, y : NodesBody(NIL, x, y) = {}
  BY DEF IsNode, NodesBody
<1>3. \A t \in Tree : \A x, y \in (SUBSET Tree) : NodesBody(t, x, y) \in (SUBSET Tree)
  BY DEF NodesBody
<1>4. g \in [Tree -> [(SUBSET Tree) -> [(SUBSET Tree) -> (SUBSET Tree)]]]
  BY <1>3
<1>11. \A t \in Tree : \A x, y \in (SUBSET Tree) : g[t][x][y] = NodesBody(t, x, y)
  OBVIOUS
<1> HIDE DEF g
<1>5. Recursive((SUBSET Tree), {}, g)
  BY <1>2, <1>4, TreeRecursion
<1>6. PICK f \in [Tree -> (SUBSET Tree)] : \A t \in Tree : Unfolded(f, {}, g, t)
  BY <1>5 DEF Recursive
<1>7. \A t \in Tree : f[t] = Next0(f, t)
  <2> SUFFICES ASSUME NEW t \in Tree PROVE f[t] = NodesBody(t, f[t.left], f[t.right])
    OBVIOUS
  <2>1. Unfolded(f, {}, g, t)
    BY <1>6
  <2>2. CASE t = NIL
    BY <2>1, <2>2, <1>2 DEF Unfolded
  <2>3. CASE t # NIL
    BY <2>1, <2>3, <1>1, <1>11 DEF Unfolded
  <2> QED BY <2>2, <2>3
<1>8. f = [t \in Tree |-> Next0(f, t)]
  BY <1>7
<1>9. Nodes = [t \in Tree |-> Next0(Nodes, t)]
  BY <1>8 DEF Nodes, NodesBody
<1>10. \A t \in Tree : Nodes[t] \in (SUBSET Tree)
  <2> DEFINE P == {t \in Tree : Nodes[t] \in (SUBSET Tree)}
  <2>1. NIL \in P
    BY <1>2, <1>9, NILIsATree
  <2>2. \A t \in Tree : t # NIL /\ t.left \in P /\ t.right \in P => t \in P
    BY <1>3, <1>9
  <2> HIDE DEF P
  <2>3. Tree \subseteq P
    BY <2>1, <2>2, TreeInduction, Zenon
  <2> QED BY <2>3 DEF P
<1> QED BY <1>9, <1>10 DEF NodesEquation

DeleteFirstBody(t, x, y) ==
  IF ~IsNode(t) THEN t
  ELSE IF ~HasLeft(t) THEN t.right
  ELSE delete_fixup([t EXCEPT !.left = x])

DeleteFirstEquation == delete_first0 = [t \in Tree |-> DeleteFirstBody(t, delete_first0[t.left], delete_first0[t.right])]

LEMMA DeleteFirstDef ==
  ASSUME Heights = Nat
  PROVE  DeleteFirstEquation /\ delete_first0 \in [Tree -> Tree]
<1> DEFINE g == [t \in Tree |-> [x \in Tree |-> [y \in Tree |-> DeleteFirstBody(t, x, y)]]]
           Next0(F, t) == DeleteFirstBody(t, F[t.left], F[t.right])
<1>1. \A t \in Tree : t # NIL => t.left \in Tree /\ t.right \in Tree
  BY TreeIsBranch DEF IsBranch
<1>2. NIL \in Tree /\ \A x, y : DeleteFirstBody(NIL, x, y) = NIL
  BY NILIsATree DEF IsNode, DeleteFirstBody
<1>3. \A t \in Tree : \A x, y \in Tree : DeleteFirstBody(t, x, y) \in Tree
  <2> SUFFICES ASSUME NEW t \in Tree, t # NIL, NEW x \in Tree, NEW y \in Tree PROVE DeleteFirstBody(t, x, y) \in Tree
    BY NILIsATree DEF DeleteFirstBody, IsNode
  <2>1. t.right \in Tree /\ t.left \in Tree
    BY <1>1
  <2> PICK u : u = [t EXCEPT !.left = x]
    OBVIOUS
  <2>2. u \in Tree /\ u # NIL
    BY WithLeft
  <2>3. delete_fixup(u) \in Tree
    BY <2>2, FixupType
  <2> QED BY <2>1, <2>3 DEF DeleteFirstBody
<1>4. g \in [Tree -> [Tree -> [Tree -> Tree]]]
  BY <1>3
<1>11. \A t \in Tree : \A x, y \in Tree : g[t][x][y] = DeleteFirstBody(t, x, y)
  OBVIOUS
<1> HIDE DEF g
<1>5. Recursive(Tree, NIL, g)
  BY <1>2, <1>4, TreeRecursion
<1>6. PICK f \in [Tree -> Tree] : \A t \in Tree : Unfolded(f, NIL, g, t)
  BY <1>5 DEF Recursive
<1>7. \A t \in Tree : f[t] = Next0(f, t)
  <2> SUFFICES ASSUME NEW t \in Tree PROVE f[t] = DeleteFirstBody(t, f[t.left], f[t.right])
    OBVIOUS
  <2>1. Unfolded(f, NIL, g, t)
    BY <1>6
  <2>2. CASE t = NIL
    BY <2>1, <2>2, <1>2 DEF Unfolded
  <2>3. CASE t # NIL
    BY <2>1, <2>3, <1>1, <1>11 DEF Unfolded
  <2> QED BY <2>2, <2>3
<1>8. f = [t \in Tree |-> Next0(f, t)]
  BY <1>7
<1>9. delete_first0 = [t \in Tree |-> Next0(delete_first0, t)]
  BY <1>8 DEF delete_first0, DeleteFirstBody
<1>10. \A t \in Tree : delete_first0[t] \in Tree
  <2> DEFINE P == {t \in Tree : delete_first0[t] \in Tree}
  <2>1. NIL \in P
    BY <1>2, <1>9, NILIsATree
  <2>2. \A t \in Tree : t # NIL /\ t.left \in P /\ t.right \in P => t \in P
    BY <1>3, <1>9
  <2> HIDE DEF P
  <2>3. Tree \subseteq P
    BY <2>1, <2>2, TreeInduction, Zenon
  <2> QED BY <2>3 DEF P
<1> QED BY <1>9, <1>10 DEF DeleteFirstEquation

DeleteLastBody(t, x, y) ==
  IF ~IsNode(t) THEN t
  ELSE IF ~HasRight(t) THEN t.left
  ELSE delete_fixup([t EXCEPT !.right = y])

DeleteLastEquation == delete_last0 = [t \in Tree |-> DeleteLastBody(t, delete_last0[t.left], delete_last0[t.right])]

LEMMA DeleteLastDef ==
  ASSUME Heights = Nat
  PROVE  DeleteLastEquation /\ delete_last0 \in [Tree -> Tree]
<1> DEFINE g == [t \in Tree |-> [x \in Tree |-> [y \in Tree |-> DeleteLastBody(t, x, y)]]]
           Next0(F, t) == DeleteLastBody(t, F[t.left], F[t.right])
<1>1. \A t \in Tree : t # NIL => t.left \in Tree /\ t.right \in Tree
  BY TreeIsBranch DEF IsBranch
<1>2. NIL \in Tree /\ \A x, y : DeleteLastBody(NIL, x, y) = NIL
  BY NILIsATree DEF IsNode, DeleteLastBody
<1>3. \A t \in Tree : \A x, y \in Tree : DeleteLastBody(t, x, y) \in Tree
  <2> SUFFICES ASSUME NEW t \in Tree, t # NIL, NEW x \in Tree, NEW y \in Tree PROVE DeleteLastBody(t, x, y) \in Tree
    BY NILIsATree DEF DeleteLastBody, IsNode
  <2>1. t.right \in Tree /\ t.left \in Tree
    BY <1>1
  <2> PICK u : u = [t EXCEPT !.right = y]
    OBVIOUS
  <2>2. u \in Tree /\ u # NIL
    BY WithRight
  <2>3. delete_fixup(u) \in Tree
    BY <2>2, FixupType
  <2> QED BY <2>1, <2>3 DEF DeleteLastBody
<1>4. g \in [Tree -> [Tree -> [Tree -> Tree]]]
  BY <1>3
<1>11. \A t \in Tree : \A x, y \in Tree : g[t][x][y] = DeleteLastBody(t, x, y)
  OBVIOUS
<1> HIDE DEF g
<1>5. Recursive(Tree, NIL, g)
  BY <1>2, <1>4, TreeRecursion
<1>6. PICK f \in [Tree -> Tree] : \A t \in Tree : Unfolded(f, NIL, g, t)
  BY <1>5 DEF Recursive
<1>7. \A t \in Tree : f[t] = Next0(f, t)
  <2> SUFFICES ASSUME NEW t \in Tree PROVE f[t] = DeleteLastBody(t, f[t.left], f[t.right])
    OBVIOUS
  <2>1. Unfolded(f, NIL, g, t)
    BY <1>6
  <2>2. CASE t = NIL
    BY <2>1, <2>2, <1>2 DEF Unfolded
  <2>3. CASE t # NIL
    BY <2>1, <2>3, <1>1, <1>11 DEF Unfolded
  <2> QED BY <2>2, <2>3
<1>8. f = [t \in Tree |-> Next0(f, t)]
  BY <1>7
<1>9. delete_last0 = [t \in Tree |-> Next0(delete_last0, t)]
  BY <1>8 DEF delete_last0, DeleteLastBody
<1>10. \A t \in Tree : delete_last0[t] \in Tree
  <2> DEFINE P == {t \in Tree : delete_last0[t] \in Tree}
  <2>1. NIL \in P
    BY <1>2, <1>9, NILIsATree
  <2>2. \A t \in Tree : t # NIL /\ t.left \in P /\ t.right \in P => t \in P
    BY <1>3, <1>9
  <2> HIDE DEF P
  <2>3. Tree \subseteq P
    BY <2>1, <2>2, TreeInduction, Zenon
  <2> QED BY <2>3 DEF P
<1> QED BY <1>9, <1>10 DEF DeleteLastEquation

SearchBody(t, x, y, k) ==
  IF ~IsNode(t) THEN NoKey
  ELSE IF k < t.key THEN x
  ELSE IF k > t.key THEN y
  ELSE t.key

SearchEquation ==
  search = [t \in Tree |-> [k \in Int |-> SearchBody(t, search[t.left][k], search[t.right][k], k)]]

LEMMA SearchDef ==
  ASSUME Heights = Nat
  PROVE  SearchEquation /\ search \in [Tree -> [Int -> Int]]
<1> DEFINE S == [Int -> Int]
           b == [k \in Int |-> NoKey]
           g == [t \in Tree |-> [x \in S |-> [y \in S |-> [k \in Int |-> SearchBody(t, x[k], y[k], k)]]]]
           Next0(F, t) == [k \in Int |-> SearchBody(t, F[t.left][k], F[t.right][k], k)]
<1>1. \A t \in Tree : t # NIL => t.left \in Tree /\ t.right \in Tree
  BY TreeIsBranch DEF IsBranch
<1>2. \A k \in Int : NoKey \in Int /\ \A x, y : SearchBody(NIL, x, y, k) = NoKey
  BY DEF IsNode, NoKey, SearchBody
<1>3. \A t \in Tree : \A x, y \in Int : \A k \in Int : SearchBody(t, x, y, k) \in Int
  BY KeyType DEF SearchBody, NoKey
<1>4. b \in S /\ g \in [Tree -> [S -> [S -> S]]]
  BY <1>2, <1>3
<1>5. b = [k \in Int |-> NoKey]
  OBVIOUS
<1>6. \A t \in Tree : \A x, y \in S : g[t][x][y] = [k \in Int |-> SearchBody(t, x[k], y[k], k)]
  OBVIOUS
<1> HIDE DEF S, b, g
<1>7. Recursive(S, b, g)
  BY <1>4, TreeRecursion
<1>8. PICK f \in [Tree -> S] : \A t \in Tree : Unfolded(f, b, g, t)
  BY <1>7 DEF Recursive
<1>9. \A t \in Tree : f[t] = Next0(f, t)
  <2> SUFFICES ASSUME NEW t \in Tree
               PROVE  f[t] = [k \in Int |-> SearchBody(t, f[t.left][k], f[t.right][k], k)]
    OBVIOUS
  <2>1. Unfolded(f, b, g, t)
    BY <1>8
  <2>2. CASE t = NIL
    <3>1. f[t] = b
      BY <2>1, <2>2 DEF Unfolded
    <3>2. \A k \in Int : SearchBody(t, f[t.left][k], f[t.right][k], k) = NoKey
      BY <2>2, <1>2
    <3> QED BY <3>1, <3>2, <1>5
  <2>3. CASE t # NIL
    <3>1. f[t] = g[t][f[t.left]][f[t.right]]
      BY <2>1, <2>3 DEF Unfolded
    <3>2. f[t.left] \in S /\ f[t.right] \in S
      BY <1>1, <2>3
    <3> QED BY <3>1, <3>2, <1>6, Zenon
  <2> QED BY <2>2, <2>3
<1>10. f = [t \in Tree |-> Next0(f, t)]
  BY <1>9
<1>11. search = [t \in Tree |-> Next0(search, t)]
  BY <1>10 DEF search, SearchBody
<1>12. \A t \in Tree : search[t] \in [Int -> Int]
  <2> DEFINE P == {t \in Tree : search[t] \in [Int -> Int]}
  <2>1. NIL \in P
    BY <1>2, <1>11, NILIsATree
  <2>2. ASSUME NEW t \in Tree, t # NIL, t.left \in P, t.right \in P
        PROVE  t \in P
    <3>1. \A k \in Int : search[t.left][k] \in Int /\ search[t.right][k] \in Int
      BY <2>2
    <3>2. \A k \in Int : SearchBody(t, search[t.left][k], search[t.right][k], k) \in Int
      BY <3>1, <1>3
    <3>3. search[t] = [k \in Int |-> SearchBody(t, search[t.left][k], search[t.right][k], k)]
      BY <1>11
    <3> QED BY <3>2, <3>3
  <2> HIDE DEF P
  <2>3. Tree \subseteq P
    BY <2>1, <2>2, TreeInduction, Zenon
  <2> QED BY <2>3 DEF P
<1> QED BY <1>11, <1>12 DEF SearchEquation

InsertBody(t, x, y, k) ==
  split(skew(
    IF ~IsNode(t) THEN Leaf(k)
    ELSE IF k < t.key THEN [t EXCEPT !.left = x]
    ELSE IF k > t.key THEN [t EXCEPT !.right = y]
    ELSE t))

InsertEquation ==
  insert0 = [t \in Tree |-> [k \in Int |-> InsertBody(t, insert0[t.left][k], insert0[t.right][k], k)]]

LEMMA InsertDef ==
  ASSUME Heights = Nat
  PROVE  InsertEquation /\ insert0 \in [Tree -> [Int -> Tree]]
<1> DEFINE S == [Int -> Tree]
           b == [k \in Int |-> split(skew(Leaf(k)))]
           g == [t \in Tree |-> [x \in S |-> [y \in S |-> [k \in Int |-> InsertBody(t, x[k], y[k], k)]]]]
           Next0(F, t) == [k \in Int |-> InsertBody(t, F[t.left][k], F[t.right][k], k)]
<1>1. \A t \in Tree : t # NIL => t.left \in Tree /\ t.right \in Tree
  BY TreeIsBranch DEF IsBranch
<1>2. \A k \in Int : split(skew(Leaf(k))) \in Tree /\ \A x, y : InsertBody(NIL, x, y, k) = split(skew(Leaf(k)))
  <2> SUFFICES ASSUME NEW k \in Int
               PROVE  split(skew(Leaf(k))) \in Tree /\ \A x, y : InsertBody(NIL, x, y, k) = split(skew(Leaf(k)))
    OBVIOUS
  <2>1. skew(Leaf(k)) \in Tree /\ skew(Leaf(k)) # NIL
    BY LeafIsATree, SkewType
  <2>2. split(skew(Leaf(k))) \in Tree
    BY <2>1, SplitType
  <2>3. \A x, y : InsertBody(NIL, x, y, k) = split(skew(Leaf(k)))
    BY Zenon DEF InsertBody, IsNode
  <2> QED BY <2>2, <2>3
<1>3. \A t \in Tree : \A x, y \in Tree : \A k \in Int : InsertBody(t, x, y, k) \in Tree
  <2> SUFFICES ASSUME NEW t \in Tree, NEW x \in Tree, NEW y \in Tree, NEW k \in Int
               PROVE  InsertBody(t, x, y, k) \in Tree
    OBVIOUS
  <2> PICK u : u = IF ~IsNode(t) THEN Leaf(k)
                   ELSE IF k < t.key THEN [t EXCEPT !.left = x]
                   ELSE IF k > t.key THEN [t EXCEPT !.right = y]
                   ELSE t
    OBVIOUS
  <2>1. u \in Tree /\ u # NIL
    BY LeafIsATree, WithLeft, WithRight DEF IsNode
  <2>2. skew(u) \in Tree /\ skew(u) # NIL
    BY <2>1, SkewType
  <2>3. split(skew(u)) \in Tree
    BY <2>2, SplitType
  <2> QED BY <2>3 DEF InsertBody
<1>4. b \in S /\ g \in [Tree -> [S -> [S -> S]]]
  BY <1>2, <1>3
<1>5. b = [k \in Int |-> split(skew(Leaf(k)))]
  OBVIOUS
<1>6. \A t \in Tree : \A x, y \in S : g[t][x][y] = [k \in Int |-> InsertBody(t, x[k], y[k], k)]
  OBVIOUS
<1> HIDE DEF S, b, g
<1>7. Recursive(S, b, g)
  BY <1>4, TreeRecursion
<1>8. PICK f \in [Tree -> S] : \A t \in Tree : Unfolded(f, b, g, t)
  BY <1>7 DEF Recursive
<1>9. \A t \in Tree : f[t] = Next0(f, t)
  <2> SUFFICES ASSUME NEW t \in Tree
               PROVE  f[t] = [k \in Int |-> InsertBody(t, f[t.left][k], f[t.right][k], k)]
    OBVIOUS
  <2>1. Unfolded(f, b, g, t)
    BY <1>8
  <2>2. CASE t = NIL
    <3>1. f[t] = b
      BY <2>1, <2>2 DEF Unfolded
    <3>2. \A k \in Int : InsertBody(t, f[t.left][k], f[t.right][k], k) = split(skew(Leaf(k)))
      BY <2>2, <1>2
    <3> QED BY <3>1, <3>2, <1>5
  <2>3. CASE t # NIL
    <3>1. f[t] = g[t][f[t.left]][f[t.right]]
      BY <2>1, <2>3 DEF Unfolded
    <3>2. f[t.left] \in S /\ f[t.right] \in S
      BY <1>1, <2>3
    <3> QED BY <3>1, <3>2, <1>6, Zenon
  <2> QED BY <2>2, <2>3
<1>10. f = [t \in Tree |-> Next0(f, t)]
  BY <1>9
<1>11. insert0 = [t \in Tree |-> Next0(insert0, t)]
  BY <1>10 DEF insert0, InsertBody
<1>12. \A t \in Tree : insert0[t] \in [Int -> Tree]
  <2> DEFINE P == {t \in Tree : insert0[t] \in [Int -> Tree]}
  <2>1. NIL \in P
    BY <1>2, <1>11, NILIsATree
  <2>2. ASSUME NEW t \in Tree, t # NIL, t.left \in P, t.right \in P
        PROVE  t \in P
    <3>1. \A k \in Int : insert0[t.left][k] \in Tree /\ insert0[t.right][k] \in Tree
      BY <2>2
    <3>2. \A k \in Int : InsertBody(t, insert0[t.left][k], insert0[t.right][k], k) \in Tree
      BY <3>1, <1>3
    <3>3. insert0[t] = [k \in Int |-> InsertBody(t, insert0[t.left][k], insert0[t.right][k], k)]
      BY <1>11
    <3> QED BY <3>2, <3>3
  <2> HIDE DEF P
  <2>3. Tree \subseteq P
    BY <2>1, <2>2, TreeInduction, Zenon
  <2> QED BY <2>3 DEF P
<1> QED BY <1>11, <1>12 DEF InsertEquation

LEMMA ReplaceType ==
  ASSUME Heights = Nat, NEW t \in Tree, HasLeft(t) \/ HasRight(t)
  PROVE  /\ Replace(t) = IF HasLeft(t) THEN Branch(last[t.left], t.level, delete_last0[t.left], t.right)
                                       ELSE Branch(first[t.right], t.level, t.left, delete_first0[t.right])
         /\ Replace(t) \in Tree /\ Replace(t) # NIL
<1>1. t # NIL
  BY DEF HasLeft, HasRight, IsNode
<1>2. IsBranch(t)
  BY <1>1, TreeIsBranch
<1>3. CASE HasLeft(t)
  <2> PICK x \in Tree : x = delete_last0[t.left]
    BY <1>2, DeleteLastDef DEF IsBranch
  <2> PICK k \in Int : k = last[t.left]
    BY <1>2, LastDef DEF IsBranch
  <2>1. NewKeyLeftIs(t, x, k)
    BY <1>2, NewKeyLeft DEF IsBranch
  <2>2. Replace(t) = [t EXCEPT !.key = k, !.left = x]
    BY <1>3 DEF Replace
  <2>3. Branch(k, t.level, x, t.right) \in Tree /\ Branch(k, t.level, x, t.right) # NIL
    BY <1>2, BranchIsATree, NILIsNoBranch DEF IsBranch
  <2> QED BY <1>3, <2>1, <2>2, <2>3 DEF NewKeyLeftIs
<1>4. CASE ~HasLeft(t)
  <2> PICK x \in Tree : x = delete_first0[t.right]
    BY <1>2, DeleteFirstDef DEF IsBranch
  <2> PICK k \in Int : k = first[t.right]
    BY <1>2, FirstDef DEF IsBranch
  <2>1. NewKeyRightIs(t, x, k)
    BY <1>2, NewKeyRight DEF IsBranch
  <2>2. Replace(t) = [t EXCEPT !.key = k, !.right = x]
    BY <1>4 DEF Replace
  <2>3. Branch(k, t.level, t.left, x) \in Tree /\ Branch(k, t.level, t.left, x) # NIL
    BY <1>2, BranchIsATree, NILIsNoBranch DEF IsBranch
  <2> QED BY <1>4, <2>1, <2>2, <2>3 DEF NewKeyRightIs
<1> QED BY <1>3, <1>4

DeleteBody(t, x, y, k) ==
  IF ~IsNode(t) THEN t
  ELSE IF k < t.key THEN delete_fixup([t EXCEPT !.left = x])
  ELSE IF k > t.key THEN delete_fixup([t EXCEPT !.right = y])
  ELSE IF HasLeft(t) \/ HasRight(t) THEN delete_fixup(Replace(t))
  ELSE NIL

DeleteEquation ==
  delete0 = [t \in Tree |-> [k \in Int |-> DeleteBody(t, delete0[t.left][k], delete0[t.right][k], k)]]

LEMMA DeleteDef ==
  ASSUME Heights = Nat
  PROVE  DeleteEquation /\ delete0 \in [Tree -> [Int -> Tree]]
<1> DEFINE S == [Int -> Tree]
           b == [k \in Int |-> NIL]
           g == [t \in Tree |-> [x \in S |-> [y \in S |-> [k \in Int |-> DeleteBody(t, x[k], y[k], k)]]]]
           Next0(F, t) == [k \in Int |-> DeleteBody(t, F[t.left][k], F[t.right][k], k)]
<1>1. \A t \in Tree : t # NIL => t.left \in Tree /\ t.right \in Tree
  BY TreeIsBranch DEF IsBranch
<1>2. \A k \in Int : NIL \in Tree /\ \A x, y : DeleteBody(NIL, x, y, k) = NIL
  BY NILIsATree DEF IsNode, DeleteBody
<1>3. \A t \in Tree : \A x, y \in Tree : \A k \in Int : DeleteBody(t, x, y, k) \in Tree
  <2> SUFFICES ASSUME NEW t \in Tree, t # NIL, NEW x \in Tree, NEW y \in Tree, NEW k \in Int
               PROVE  DeleteBody(t, x, y, k) \in Tree
    BY NILIsATree DEF DeleteBody, IsNode
  <2> PICK u : u = [t EXCEPT !.left = x]
    OBVIOUS
  <2> PICK v : v = [t EXCEPT !.right = y]
    OBVIOUS
  <2>1. delete_fixup(u) \in Tree
    BY WithLeft, FixupType
  <2>2. delete_fixup(v) \in Tree
    BY WithRight, FixupType
  <2>3. HasLeft(t) \/ HasRight(t) => delete_fixup(Replace(t)) \in Tree
    BY ReplaceType, FixupType
  <2> QED BY <2>1, <2>2, <2>3, NILIsATree DEF DeleteBody
<1>4. b \in S /\ g \in [Tree -> [S -> [S -> S]]]
  BY <1>2, <1>3
<1>5. b = [k \in Int |-> NIL]
  OBVIOUS
<1>6. \A t \in Tree : \A x, y \in S : g[t][x][y] = [k \in Int |-> DeleteBody(t, x[k], y[k], k)]
  OBVIOUS
<1> HIDE DEF S, b, g
<1>7. Recursive(S, b, g)
  BY <1>4, TreeRecursion
<1>8. PICK f \in [Tree -> S] : \A t \in Tree : Unfolded(f, b, g, t)
  BY <1>7 DEF Recursive
<1>9. \A t \in Tree : f[t] = Next0(f, t)
  <2> SUFFICES ASSUME NEW t \in Tree
               PROVE  f[t] = [k \in Int |-> DeleteBody(t, f[t.left][k], f[t.right][k], k)]
    OBVIOUS
  <2>1. Unfolded(f, b, g, t)
    BY <1>8
  <2>2. CASE t = NIL
    <3>1. f[t] = b
      BY <2>1, <2>2 DEF Unfolded
    <3>2. \A k \in Int : DeleteBody(t, f[t.left][k], f[t.right][k], k) = NIL
      BY <2>2, <1>2
    <3> QED BY <3>1, <3>2, <1>5
  <2>3. CASE t # NIL
    <3>1. f[t] = g[t][f[t.left]][f[t.right]]
      BY <2>1, <2>3 DEF Unfolded
    <3>2. f[t.left] \in S /\ f[t.right] \in S
      BY <1>1, <2>3
    <3> QED BY <3>1, <3>2, <1>6, Zenon
  <2> QED BY <2>2, <2>3
<1>10. f = [t \in Tree |-> Next0(f, t)]
  BY <1>9
<1>11. delete0 = [t \in Tree |-> Next0(delete0, t)]
  BY <1>10 DEF delete0, DeleteBody
<1>12. \A t \in Tree : delete0[t] \in [Int -> Tree]
  <2> DEFINE P == {t \in Tree : delete0[t] \in [Int -> Tree]}
  <2>1. NIL \in P
    BY <1>2, <1>11, NILIsATree
  <2>2. ASSUME NEW t \in Tree, t # NIL, t.left \in P, t.right \in P
        PROVE  t \in P
    <3>1. \A k \in Int : delete0[t.left][k] \in Tree /\ delete0[t.right][k] \in Tree
      BY <2>2
    <3>2. \A k \in Int : DeleteBody(t, delete0[t.left][k], delete0[t.right][k], k) \in Tree
      BY <3>1, <1>3
    <3>3. delete0[t] = [k \in Int |-> DeleteBody(t, delete0[t.left][k], delete0[t.right][k], k)]
      BY <1>11
    <3> QED BY <3>2, <3>3
  <2> HIDE DEF P
  <2>3. Tree \subseteq P
    BY <2>1, <2>2, TreeInduction, Zenon
  <2> QED BY <2>3 DEF P
<1> QED BY <1>11, <1>12 DEF DeleteEquation

IterBody(t, x, y, k) == [found \in Int |->
  IF ~IsNode(t) THEN found
  ELSE IF k < t.key THEN x[t.key]
  ELSE IF k > t.key THEN y[found]
  ELSE t.key]

IterEquation ==
  iter0 = [t \in Tree |-> [k \in Int |-> IterBody(t, iter0[t.left][k], iter0[t.right][k], k)]]

LEMMA IterDef ==
  ASSUME Heights = Nat
  PROVE  IterEquation /\ iter0 \in [Tree -> [Int -> [Int -> Int]]]
<1> DEFINE S == [Int -> [Int -> Int]]
           b == [k \in Int |-> [found \in Int |-> found]]
           g == [t \in Tree |-> [x \in S |-> [y \in S |-> [k \in Int |-> IterBody(t, x[k], y[k], k)]]]]
           Next0(F, t) == [k \in Int |-> IterBody(t, F[t.left][k], F[t.right][k], k)]
<1>1. \A t \in Tree : t # NIL => t.left \in Tree /\ t.right \in Tree
  BY TreeIsBranch DEF IsBranch
<1>2. \A k \in Int : [found \in Int |-> found] \in [Int -> Int] /\ \A x, y : IterBody(NIL, x, y, k) = [found \in Int |-> found]
  BY DEF IsNode, IterBody
<1>3. \A t \in Tree : \A x, y \in [Int -> Int] : \A k \in Int : IterBody(t, x, y, k) \in [Int -> Int]
  BY KeyType DEF IterBody
<1>4. b \in S /\ g \in [Tree -> [S -> [S -> S]]]
  BY <1>2, <1>3
<1>5. b = [k \in Int |-> [found \in Int |-> found]]
  OBVIOUS
<1>6. \A t \in Tree : \A x, y \in S : g[t][x][y] = [k \in Int |-> IterBody(t, x[k], y[k], k)]
  OBVIOUS
<1> HIDE DEF S, b, g
<1>7. Recursive(S, b, g)
  BY <1>4, TreeRecursion
<1>8. PICK f \in [Tree -> S] : \A t \in Tree : Unfolded(f, b, g, t)
  BY <1>7 DEF Recursive
<1>9. \A t \in Tree : f[t] = Next0(f, t)
  <2> SUFFICES ASSUME NEW t \in Tree
               PROVE  f[t] = [k \in Int |-> IterBody(t, f[t.left][k], f[t.right][k], k)]
    OBVIOUS
  <2>1. Unfolded(f, b, g, t)
    BY <1>8
  <2>2. CASE t = NIL
    <3>1. f[t] = b
      BY <2>1, <2>2 DEF Unfolded
    <3>2. \A k \in Int : IterBody(t, f[t.left][k], f[t.right][k], k) = [found \in Int |-> found]
      BY <2>2, <1>2
    <3> QED BY <3>1, <3>2, <1>5
  <2>3. CASE t # NIL
    <3>1. f[t] = g[t][f[t.left]][f[t.right]]
      BY <2>1, <2>3 DEF Unfolded
    <3>2. f[t.left] \in S /\ f[t.right] \in S
      BY <1>1, <2>3
    <3> QED BY <3>1, <3>2, <1>6, Zenon
  <2> QED BY <2>2, <2>3
<1>10. f = [t \in Tree |-> Next0(f, t)]
  BY <1>9
<1>11. iter0 = [t \in Tree |-> Next0(iter0, t)]
  BY <1>10 DEF iter0, IterBody
<1>12. \A t \in Tree : iter0[t] \in [Int -> [Int -> Int]]
  <2> DEFINE P == {t \in Tree : iter0[t] \in [Int -> [Int -> Int]]}
  <2>1. NIL \in P
    <3>1. iter0[NIL] = [k \in Int |-> IterBody(NIL, iter0[NIL.left][k], iter0[NIL.right][k], k)]
      BY <1>11, NILIsATree
    <3>2. \A k \in Int : IterBody(NIL, iter0[NIL.left][k], iter0[NIL.right][k], k) \in [Int -> Int]
      BY <1>2
    <3> QED BY <3>1, <3>2, NILIsATree
  <2>2. ASSUME NEW t \in Tree, t # NIL, t.left \in P, t.right \in P
        PROVE  t \in P
    <3>1. \A k \in Int : iter0[t.left][k] \in [Int -> Int] /\ iter0[t.right][k] \in [Int -> Int]
      BY <2>2
    <3>2. \A k \in Int : IterBody(t, iter0[t.left][k], iter0[t.right][k], k) \in [Int -> Int]
      BY <3>1, <1>3
    <3>3. iter0[t] = [k \in Int |-> IterBody(t, iter0[t.left][k], iter0[t.right][k], k)]
      BY <1>11
    <3> QED BY <3>2, <3>3
  <2> HIDE DEF P
  <2>3. Tree \subseteq P
    BY <2>1, <2>2, TreeInduction, Zenon
  <2> QED BY <2>3 DEF P
<1> QED BY <1>11, <1>12 DEF IterEquation

PathBody(t, x, y, k) ==
  IF ~IsNode(t) THEN <<>>
  ELSE <<t>> \o (IF k < t.key THEN x ELSE IF k > t.key THEN y ELSE <<>>)

PathEquation ==
  Path = [t \in Tree |-> [k \in Int |-> PathBody(t, Path[t.left][k], Path[t.right][k], k)]]

LEMMA PathDef ==
  ASSUME Heights = Nat
  PROVE  PathEquation /\ Path \in [Tree -> [Int -> Seq(Tree)]]
<1> DEFINE S == [Int -> Seq(Tree)]
           b == [k \in Int |-> <<>>]
           g == [t \in Tree |-> [x \in S |-> [y \in S |-> [k \in Int |-> PathBody(t, x[k], y[k], k)]]]]
           Next0(F, t) == [k \in Int |-> PathBody(t, F[t.left][k], F[t.right][k], k)]
<1>1. \A t \in Tree : t # NIL => t.left \in Tree /\ t.right \in Tree
  BY TreeIsBranch DEF IsBranch
<1>2. \A k \in Int : <<>> \in Seq(Tree) /\ \A x, y : PathBody(NIL, x, y, k) = <<>>
  BY DEF IsNode, PathBody
<1>3. \A t \in Tree : \A x, y \in Seq(Tree) : \A k \in Int : PathBody(t, x, y, k) \in Seq(Tree)
  BY DEF PathBody
<1>4. b \in S /\ g \in [Tree -> [S -> [S -> S]]]
  BY <1>2, <1>3
<1>5. b = [k \in Int |-> <<>>]
  OBVIOUS
<1>6. \A t \in Tree : \A x, y \in S : g[t][x][y] = [k \in Int |-> PathBody(t, x[k], y[k], k)]
  OBVIOUS
<1> HIDE DEF S, b, g
<1>7. Recursive(S, b, g)
  BY <1>4, TreeRecursion
<1>8. PICK f \in [Tree -> S] : \A t \in Tree : Unfolded(f, b, g, t)
  BY <1>7 DEF Recursive
<1>9. \A t \in Tree : f[t] = Next0(f, t)
  <2> SUFFICES ASSUME NEW t \in Tree
               PROVE  f[t] = [k \in Int |-> PathBody(t, f[t.left][k], f[t.right][k], k)]
    OBVIOUS
  <2>1. Unfolded(f, b, g, t)
    BY <1>8
  <2>2. CASE t = NIL
    <3>1. f[t] = b
      BY <2>1, <2>2 DEF Unfolded
    <3>2. \A k \in Int : PathBody(t, f[t.left][k], f[t.right][k], k) = <<>>
      BY <2>2, <1>2
    <3> QED BY <3>1, <3>2, <1>5
  <2>3. CASE t # NIL
    <3>1. f[t] = g[t][f[t.left]][f[t.right]]
      BY <2>1, <2>3 DEF Unfolded
    <3>2. f[t.left] \in S /\ f[t.right] \in S
      BY <1>1, <2>3
    <3> QED BY <3>1, <3>2, <1>6, Zenon
  <2> QED BY <2>2, <2>3
<1>10. f = [t \in Tree |-> Next0(f, t)]
  BY <1>9
<1>11. Path = [t \in Tree |-> Next0(Path, t)]
  BY <1>10 DEF Path, PathBody
<1>12. \A t \in Tree : Path[t] \in [Int -> Seq(Tree)]
  <2> DEFINE P == {t \in Tree : Path[t] \in [Int -> Seq(Tree)]}
  <2>1. NIL \in P
    <3>1. Path[NIL] = [k \in Int |-> PathBody(NIL, Path[NIL.left][k], Path[NIL.right][k], k)]
      BY <1>11, NILIsATree
    <3>2. \A k \in Int : PathBody(NIL, Path[NIL.left][k], Path[NIL.right][k], k) \in Seq(Tree)
      BY <1>2
    <3> QED BY <3>1, <3>2, NILIsATree
  <2>2. ASSUME NEW t \in Tree, t # NIL, t.left \in P, t.right \in P
        PROVE  t \in P
    <3>1. \A k \in Int : Path[t.left][k] \in Seq(Tree) /\ Path[t.right][k] \in Seq(Tree)
      BY <2>2
    <3>2. \A k \in Int : PathBody(t, Path[t.left][k], Path[t.right][k], k) \in Seq(Tree)
      BY <3>1, <1>3
    <3>3. Path[t] = [k \in Int |-> PathBody(t, Path[t.left][k], Path[t.right][k], k)]
      BY <1>11
    <3> QED BY <3>2, <3>3
  <2> HIDE DEF P
  <2>3. Tree \subseteq P
    BY <2>1, <2>2, TreeInduction, Zenon
  <2> QED BY <2>3 DEF P
<1> QED BY <1>11, <1>12 DEF PathEquation

-----------------------------------------------------------------------------
(* The keys of a tree and their order.                                     *)

\* The keys S are below k, or above it.
Below(S, k) == \A j \in S : j < k
Above(S, k) == \A j \in S : k < j

\* The tree is in search order.
Ordered(t) ==
  \A n \in Nodes[t] : Below(KeysOf(n.left), n.key) /\ Above(KeysOf(n.right), n.key)

LEMMA NothingInNIL ==
  ASSUME Heights = Nat
  PROVE  Nodes[NIL] = {} /\ KeysOf(NIL) = {} /\ Size[NIL] = 0 /\ Ordered(NIL)
<1>1. Nodes[NIL] = {} /\ Size[NIL] = 0
  BY NILIsATree, NodesDef, SizeDef DEF NodesEquation, NodesBody, SizeEquation, SizeBody, IsNode
<1> QED BY <1>1 DEF KeysOf, Ordered

LEMMA KeysAreNumbers ==
  ASSUME Heights = Nat, NEW t \in Tree
  PROVE  KeysOf(t) \subseteq Int /\ Size[t] \in Nat
<1>1. Nodes[t] \subseteq Tree /\ Size[t] \in Nat
  BY NodesDef, SizeDef
<1> QED BY <1>1, KeyType DEF KeysOf

\* The tree t is put together of k, l and r, whatever its level.
SubtreesInOrder(k, l, r) ==
  /\ Ordered(l) /\ Ordered(r)
  /\ Below(KeysOf(l), k) /\ Above(KeysOf(r), k)

Joins(t, k, l, r) ==
  /\ k \in Int
  /\ KeysOf(l) \subseteq Int /\ KeysOf(r) \subseteq Int
  /\ Size[l] \in Nat /\ Size[r] \in Nat
  /\ KeysOf(t) = {k} \cup KeysOf(l) \cup KeysOf(r)
  /\ Size[t] = 1 + Size[l] + Size[r]
  /\ Ordered(t) <=> SubtreesInOrder(k, l, r)

LEMMA NodeJoins ==
  ASSUME Heights = Nat, NEW t \in Tree, t # NIL
  PROVE  Joins(t, t.key, t.left, t.right)
<1>1. Nodes[t] = {t} \cup Nodes[t.left] \cup Nodes[t.right]
  BY NodesDef DEF NodesEquation, NodesBody, IsNode
<1>2. Size[t] = 1 + Size[t.left] + Size[t.right]
  BY SizeDef DEF SizeEquation, SizeBody, IsNode
<1>3. KeysOf(t) = {t.key} \cup KeysOf(t.left) \cup KeysOf(t.right)
  BY <1>1 DEF KeysOf
<1>4. Ordered(t) <=> SubtreesInOrder(t.key, t.left, t.right)
  BY <1>1 DEF Ordered, SubtreesInOrder
<1>5. /\ t.key \in Int
      /\ KeysOf(t.left) \subseteq Int /\ KeysOf(t.right) \subseteq Int
      /\ Size[t.left] \in Nat /\ Size[t.right] \in Nat
  BY TreeIsBranch, KeysAreNumbers DEF IsBranch
<1> QED BY <1>1, <1>2, <1>3, <1>4, <1>5 DEF Joins

LEMMA BranchJoins ==
  ASSUME Heights = Nat, NEW k \in Int, NEW v \in Nat \ {0}, NEW l \in Tree, NEW r \in Tree
  PROVE  Joins(Branch(k, v, l, r), k, l, r)
<1> PICK t : t = Branch(k, v, l, r)
  OBVIOUS
<1>1. t \in Tree /\ t # NIL
  BY BranchIsATree, NILIsNoBranch
<1>2. t.key = k /\ t.left = l /\ t.right = r
  BY FieldsOf
<1>3. Joins(t, t.key, t.left, t.right)
  BY <1>1, NodeJoins
<1> QED BY <1>2, <1>3

\* The same keys in as many nodes, both in order or neither.
Same(t, u) == KeysOf(u) = KeysOf(t) /\ Size[u] = Size[t] /\ (Ordered(t) <=> Ordered(u))

LEMMA SameSubtrees ==
  ASSUME NEW t, NEW u, NEW k, NEW l, NEW r, NEW x, NEW y,
         Joins(t, k, l, r), Joins(u, k, x, y), Same(l, x), Same(r, y)
  PROVE  Same(t, u)
<1>1. KeysOf(u) = KeysOf(t) /\ Size[u] = Size[t]
  BY DEF Joins, Same
<1>2. Ordered(t) <=> Ordered(u)
  BY DEF Joins, Same, SubtreesInOrder
<1> QED BY <1>1, <1>2 DEF Same

LEMMA Rotation ==
  ASSUME NEW t, NEW s, NEW u, NEW w, NEW j, NEW k, NEW a, NEW b, NEW c,
         Joins(t, k, s, c), Joins(s, j, a, b), Joins(u, k, b, c), Joins(w, j, a, u)
  PROVE  Same(t, w)
<1>1. KeysOf(w) = KeysOf(t)
  BY DEF Joins
<1>2. Size[w] = Size[t]
  BY DEF Joins
<1>3. Ordered(t) <=> Ordered(w)
  <2> PICK A \in SUBSET Int : A = KeysOf(a)
    BY DEF Joins
  <2> PICK B \in SUBSET Int : B = KeysOf(b)
    BY DEF Joins
  <2> PICK C \in SUBSET Int : C = KeysOf(c)
    BY DEF Joins
  <2>1. j \in Int /\ k \in Int /\ KeysOf(s) = {j} \cup A \cup B /\ KeysOf(u) = {k} \cup B \cup C
    BY DEF Joins
  <2>2. Ordered(t) <=> /\ Ordered(a) /\ Ordered(b) /\ Below(A, j) /\ Above(B, j) /\ Ordered(c)
                       /\ Below({j} \cup A \cup B, k) /\ Above(C, k)
    BY <2>1 DEF Joins, SubtreesInOrder
  <2>3. Ordered(w) <=> /\ Ordered(a) /\ Ordered(b) /\ Ordered(c) /\ Below(B, k) /\ Above(C, k)
                       /\ Below(A, j) /\ Above({k} \cup B \cup C, j)
    BY <2>1 DEF Joins, SubtreesInOrder
  <2>4. ASSUME Below(A, j), Above(C, k)
        PROVE  Below({j} \cup A \cup B, k) <=> (j < k /\ Below(B, k))
    BY <2>1, <2>4 DEF Below, Above
  <2>5. ASSUME Above(B, j), Above(C, k)
        PROVE  Above({k} \cup B \cup C, j) <=> j < k
    BY <2>1, <2>5 DEF Below, Above
  <2>6. Above({k} \cup B \cup C, j) => Above(B, j)
    BY DEF Above
  <2> QED BY <2>2, <2>3, <2>4, <2>5, <2>6
<1> QED BY <1>1, <1>2, <1>3 DEF Same

LEMMA SkewSame ==
  ASSUME Heights = Nat, NEW t \in Tree, t # NIL
  PROVE  Same(t, skew(t))
<1>1. CASE ~(HasLeft(t) /\ t.left.level = t.level)
  BY <1>1, SkewIs DEF Same
<1>2. CASE HasLeft(t) /\ t.left.level = t.level
  <2>1. IsBranch(t) /\ t.left # NIL
    BY <1>2, TreeIsBranch DEF HasLeft, IsNode
  <2> PICK s \in Tree : s = t.left
    BY <2>1 DEF IsBranch
  <2>2. IsBranch(s)
    BY <2>1, TreeIsBranch
  <2> PICK u : u = Branch(t.key, t.level, s.right, t.right)
    OBVIOUS
  <2>3. u \in Tree
    BY <2>1, <2>2, BranchIsATree DEF IsBranch
  <2> PICK w : w = Branch(s.key, s.level, s.left, u)
    OBVIOUS
  <2>4. Joins(t, t.key, s, t.right)
    BY <2>1, NodeJoins, NILIsNoBranch DEF IsBranch, HasFields
  <2>5. Joins(s, s.key, s.left, s.right)
    BY <2>1, NodeJoins
  <2>6. Joins(u, t.key, s.right, t.right)
    BY <2>1, <2>2, BranchJoins DEF IsBranch
  <2>7. Joins(w, s.key, s.left, u)
    BY <2>2, <2>3, BranchJoins DEF IsBranch
  <2>8. Same(t, w)
    BY <2>4, <2>5, <2>6, <2>7, Rotation
  <2> QED BY <1>2, <2>8, SkewIs DEF Skewed
<1> QED BY <1>1, <1>2

LEMMA SplitSame ==
  ASSUME Heights = Nat, NEW t \in Tree, t # NIL
  PROVE  Same(t, split(t))
<1>1. CASE ~(HasRight(t) /\ HasRight(t.right) /\ t.right.right.level = t.level)
  BY <1>1, SplitIs DEF Same
<1>2. CASE HasRight(t) /\ HasRight(t.right) /\ t.right.right.level = t.level
  <2>1. IsBranch(t) /\ t.right # NIL
    BY <1>2, TreeIsBranch DEF HasRight, IsNode
  <2> PICK s \in Tree : s = t.right
    BY <2>1 DEF IsBranch
  <2>2. IsBranch(s)
    BY <2>1, TreeIsBranch
  <2> PICK v \in Nat \ {0} : v = s.level + 1
    BY <2>2 DEF IsBranch
  <2> PICK u : u = Branch(t.key, t.level, t.left, s.left)
    OBVIOUS
  <2>3. u \in Tree
    BY <2>1, <2>2, BranchIsATree DEF IsBranch
  <2> PICK w : w = Branch(s.key, v, u, s.right)
    OBVIOUS
  <2>4. Joins(t, t.key, t.left, s)
    BY <2>1, NodeJoins, NILIsNoBranch DEF IsBranch, HasFields
  <2>5. Joins(s, s.key, s.left, s.right)
    BY <2>1, NodeJoins
  <2>6. Joins(u, t.key, t.left, s.left)
    BY <2>1, <2>2, BranchJoins DEF IsBranch
  <2>7. Joins(w, s.key, u, s.right)
    BY <2>2, <2>3, BranchJoins DEF IsBranch
  <2>8. Same(w, t)
    BY <2>4, <2>5, <2>6, <2>7, Rotation
  <2> QED BY <1>2, <2>8, SplitIs DEF Splitted, Same
<1> QED BY <1>1, <1>2

LEMMA LoweredSame ==
  ASSUME Heights = Nat, NEW r \in Tree, NEW v \in Nat \ {0}
  PROVE  Same(r, Lowered(r, v))
<1>1. CASE ~(IsNode(r) /\ v < r.level)
  BY <1>1 DEF Lowered, Same
<1>2. CASE IsNode(r) /\ v < r.level
  <2>1. IsBranch(r) /\ r # NIL
    BY <1>2, TreeIsBranch DEF IsNode
  <2> PICK u : u = Branch(r.key, v, r.left, r.right)
    OBVIOUS
  <2>2. Joins(r, r.key, r.left, r.right)
    BY <2>1, NodeJoins
  <2>3. Joins(u, r.key, r.left, r.right)
    BY <2>1, BranchJoins DEF IsBranch
  <2>4. Same(r, u)
    BY <2>2, <2>3 DEF Joins, Same
  <2> QED BY <1>2, <2>4 DEF Lowered
<1> QED BY <1>1, <1>2

\* A node whose level and right subtree change.
LEMMA NewRightSame ==
  ASSUME Heights = Nat, NEW t \in Tree, t # NIL,
         NEW v \in Nat \ {0}, NEW x \in Tree, Same(t.right, x)
  PROVE  Same(t, Branch(t.key, v, t.left, x))
<1>1. IsBranch(t)
  BY TreeIsBranch
<1> PICK u : u = Branch(t.key, v, t.left, x)
  OBVIOUS
<1> PICK r \in Tree : r = t.right
  BY <1>1 DEF IsBranch
<1> PICK l \in Tree : l = t.left
  BY <1>1 DEF IsBranch
<1> PICK k \in Int : k = t.key
  BY <1>1 DEF IsBranch
<1>2. Joins(t, k, l, r)
  BY NodeJoins
<1>3. Joins(u, k, l, x)
  BY BranchJoins
<1>4. Same(l, l) /\ Same(r, x)
  BY DEF Same
<1>5. Same(t, u)
  BY <1>2, <1>3, <1>4, SameSubtrees
<1> QED BY <1>5

LEMMA DecreaseSame ==
  ASSUME Heights = Nat, NEW t \in Tree, t # NIL
  PROVE  Same(t, decrease_level(t))
<1>1. CASE ~((HasLeft(t) \/ HasRight(t)) /\ LevelOver(t) < t.level)
  BY <1>1, DecreaseIs DEF Same
<1>2. CASE (HasLeft(t) \/ HasRight(t)) /\ LevelOver(t) < t.level
  <2> PICK v \in Nat \ {0} : v = LevelOver(t)
    BY LevelOverType
  <2>1. t.right \in Tree
    BY TreeIsBranch DEF IsBranch
  <2> PICK x \in Tree : x = Lowered(t.right, v)
    BY <2>1, LoweredType
  <2>2. Same(t.right, x)
    BY <2>1, LoweredSame
  <2>3. Same(t, Branch(t.key, v, t.left, x))
    BY <2>2, NewRightSame
  <2> QED BY <1>2, <2>3, DecreaseIs
<1> QED BY <1>1, <1>2

LEMMA RotatedRightSame ==
  ASSUME Heights = Nat, NEW t \in Tree, t # NIL
  PROVE  Same(t, skew_right(t)) /\ Same(t, split_right(t))
<1>1. IsBranch(t)
  BY TreeIsBranch
<1>2. t.right \in Tree /\ t.level \in Nat \ {0}
  BY <1>1 DEF IsBranch
<1>3. PICK x \in Tree : x = skew(t.right) /\ Same(t.right, x)
  BY <1>2, SkewType, SkewSame, NILRotates DEF Same
<1>4. PICK y \in Tree : y = split(t.right) /\ Same(t.right, y)
  BY <1>2, SplitType, SplitSame, NILRotates DEF Same
<1>5. Same(t, Branch(t.key, t.level, t.left, x))
  BY <1>2, <1>3, NewRightSame
<1>6. Same(t, Branch(t.key, t.level, t.left, y))
  BY <1>2, <1>4, NewRightSame
<1> QED BY <1>3, <1>4, <1>5, <1>6, SkewRightIs, SplitRightIs

LEMMA SkewRightRightSame ==
  ASSUME Heights = Nat, NEW t \in Tree, t # NIL
  PROVE  Same(t, skew_right_right(t))
<1>1. CASE ~(HasRight(t) /\ HasRight(t.right))
  BY <1>1, SkewRightRightIs DEF Same
<1>2. CASE HasRight(t) /\ HasRight(t.right)
  <2>1. t.right \in Tree /\ t.right # NIL /\ t.level \in Nat \ {0}
    BY <1>2, TreeIsBranch DEF HasRight, IsNode, IsBranch
  <2>2. PICK x \in Tree : x = skew_right(t.right) /\ Same(t.right, x)
    BY <2>1, SkewRightIs, RotatedRightSame
  <2>3. Same(t, Branch(t.key, t.level, t.left, x))
    BY <2>1, <2>2, NewRightSame
  <2> QED BY <1>2, <2>2, <2>3, SkewRightRightIs
<1> QED BY <1>1, <1>2

\* Rebalancing neither loses nor doubles a key, nor does it break the order.
LEMMA FixupSame ==
  ASSUME Heights = Nat, NEW t \in Tree, t # NIL
  PROVE  Same(t, delete_fixup(t))
<1>1. PICK t1 \in Tree : t1 = decrease_level(t) /\ t1 # NIL /\ Same(t, t1)
  BY DecreaseType, DecreaseSame
<1>2. PICK t2 \in Tree : t2 = skew(t1) /\ t2 # NIL /\ Same(t1, t2)
  BY <1>1, SkewType, SkewSame
<1>3. PICK t3 \in Tree : t3 = skew_right(t2) /\ t3 # NIL /\ Same(t2, t3)
  BY <1>2, SkewRightIs, RotatedRightSame
<1>4. PICK t4 \in Tree : t4 = skew_right_right(t3) /\ t4 # NIL /\ Same(t3, t4)
  BY <1>3, SkewRightRightIs, SkewRightRightSame
<1>5. PICK t5 \in Tree : t5 = split(t4) /\ t5 # NIL /\ Same(t4, t5)
  BY <1>4, SplitType, SplitSame
<1>6. Same(t5, split_right(t5))
  BY <1>5, RotatedRightSame
<1>7. Same(t, split_right(t5))
  BY <1>1, <1>2, <1>3, <1>4, <1>5, <1>6 DEF Same
<1> QED BY <1>1, <1>2, <1>3, <1>4, <1>5, <1>7 DEF delete_fixup

-----------------------------------------------------------------------------
(* What insertions and deletions do to the keys of a tree in order.        *)

\* The tree u is t with the key k.
Put(t, u, k) ==
  /\ KeysOf(u) = KeysOf(t) \cup {k}
  /\ Size[u] = Size[t] + (IF k \in KeysOf(t) THEN 0 ELSE 1)
  /\ Ordered(u)

\* The tree u is t without the key k.
Taken(t, u, k) ==
  /\ KeysOf(u) = KeysOf(t) \ {k}
  /\ Size[t] = Size[u] + (IF k \in KeysOf(t) THEN 1 ELSE 0)
  /\ Ordered(u)

LEMMA PutLeft ==
  ASSUME NEW t, NEW u, NEW j, NEW l, NEW r, NEW x, NEW k \in Int,
         Joins(t, j, l, r), Joins(u, j, x, r), Ordered(t), k < j, Put(l, x, k)
  PROVE  Put(t, u, k)
<1>1. KeysOf(u) = KeysOf(t) \cup {k}
  BY DEF Joins, Put
<1>2. ~(k \in KeysOf(r)) /\ k # j
  BY DEF Joins, SubtreesInOrder, Above
<1>3. Size[u] = Size[t] + (IF k \in KeysOf(t) THEN 0 ELSE 1)
  BY <1>2 DEF Joins, Put
<1>4. Ordered(u)
  BY DEF Joins, Put, SubtreesInOrder, Below
<1> QED BY <1>1, <1>3, <1>4 DEF Put

LEMMA PutRight ==
  ASSUME NEW t, NEW u, NEW j, NEW l, NEW r, NEW x, NEW k \in Int,
         Joins(t, j, l, r), Joins(u, j, l, x), Ordered(t), j < k, Put(r, x, k)
  PROVE  Put(t, u, k)
<1>1. KeysOf(u) = KeysOf(t) \cup {k}
  BY DEF Joins, Put
<1>2. ~(k \in KeysOf(l)) /\ k # j
  BY DEF Joins, SubtreesInOrder, Below
<1>3. Size[u] = Size[t] + (IF k \in KeysOf(t) THEN 0 ELSE 1)
  BY <1>2 DEF Joins, Put
<1>4. Ordered(u)
  BY DEF Joins, Put, SubtreesInOrder, Above
<1> QED BY <1>1, <1>3, <1>4 DEF Put

LEMMA TakenLeft ==
  ASSUME NEW t, NEW u, NEW j, NEW l, NEW r, NEW x, NEW k \in Int,
         Joins(t, j, l, r), Joins(u, j, x, r), Ordered(t), k < j, Taken(l, x, k)
  PROVE  Taken(t, u, k)
<1>1. ~(k \in KeysOf(r)) /\ k # j
  BY DEF Joins, SubtreesInOrder, Above
<1>2. KeysOf(u) = KeysOf(t) \ {k}
  BY <1>1 DEF Joins, Taken
<1>3. Size[t] = Size[u] + (IF k \in KeysOf(t) THEN 1 ELSE 0)
  BY <1>1 DEF Joins, Taken
<1>4. Ordered(u)
  BY DEF Joins, Taken, SubtreesInOrder, Below
<1> QED BY <1>2, <1>3, <1>4 DEF Taken

LEMMA TakenRight ==
  ASSUME NEW t, NEW u, NEW j, NEW l, NEW r, NEW x, NEW k \in Int,
         Joins(t, j, l, r), Joins(u, j, l, x), Ordered(t), j < k, Taken(r, x, k)
  PROVE  Taken(t, u, k)
<1>1. ~(k \in KeysOf(l)) /\ k # j
  BY DEF Joins, SubtreesInOrder, Below
<1>2. KeysOf(u) = KeysOf(t) \ {k}
  BY <1>1 DEF Joins, Taken
<1>3. Size[t] = Size[u] + (IF k \in KeysOf(t) THEN 1 ELSE 0)
  BY <1>1 DEF Joins, Taken
<1>4. Ordered(u)
  BY DEF Joins, Taken, SubtreesInOrder, Above
<1> QED BY <1>2, <1>3, <1>4 DEF Taken

LEMMA InsertPuts ==
  ASSUME Heights = Nat, NEW t \in Tree, NEW k \in Int, Ordered(t)
  PROVE  Put(t, insert0[t][k], k)
<1> DEFINE P == {u \in Tree : Ordered(u) => Put(u, insert0[u][k], k)}
<1>1. \A u \in Tree : u # NIL /\ Ordered(u) => Put(u, u, u.key)
  <2> SUFFICES ASSUME NEW u \in Tree, u # NIL, Ordered(u)
               PROVE  Put(u, u, u.key)
    OBVIOUS
  <2>1. Joins(u, u.key, u.left, u.right)
    BY NodeJoins
  <2> QED BY <2>1 DEF Joins, Put
<1>2. ASSUME NEW u \in Tree, NEW w \in Tree, w # NIL, Put(u, w, k)
      PROVE  Put(u, split(skew(w)), k)
  <2>1. PICK y \in Tree : y = skew(w) /\ y # NIL /\ Same(w, y)
    BY <1>2, SkewType, SkewSame
  <2>2. Same(y, split(y))
    BY <2>1, SplitSame
  <2> QED BY <1>2, <2>1, <2>2 DEF Put, Same
<1>3. NIL \in P
  <2> PICK w \in Tree : w = Leaf(k) /\ w # NIL
    BY LeafIsATree
  <2>1. Joins(w, k, NIL, NIL)
    BY LeafIsATree, BranchJoins, NILIsATree, 1 \in Nat \ {0}
  <2>2. Put(NIL, w, k)
    BY <2>1, NothingInNIL DEF Joins, Put, SubtreesInOrder, Below, Above
  <2>3. Put(NIL, split(skew(w)), k)
    BY <1>2, <2>2, NILIsATree
  <2>4. insert0[NIL][k] = InsertBody(NIL, insert0[NIL.left][k], insert0[NIL.right][k], k)
    BY InsertDef, NILIsATree DEF InsertEquation
  <2> QED BY <2>3, <2>4, NILIsATree DEF InsertBody, IsNode
<1>4. ASSUME NEW u \in Tree, u # NIL, u.left \in P, u.right \in P
      PROVE  u \in P
  <2> SUFFICES ASSUME Ordered(u) PROVE Put(u, insert0[u][k], k)
    OBVIOUS
  <2>1. IsBranch(u)
    BY <1>4, TreeIsBranch
  <2> PICK l \in Tree : l = u.left
    BY <2>1 DEF IsBranch
  <2> PICK r \in Tree : r = u.right
    BY <2>1 DEF IsBranch
  <2> PICK j \in Int : j = u.key
    BY <2>1 DEF IsBranch
  <2> PICK v \in Nat \ {0} : v = u.level
    BY <2>1 DEF IsBranch
  <2> PICK x \in Tree : x = insert0[l][k]
    BY InsertDef
  <2> PICK y \in Tree : y = insert0[r][k]
    BY InsertDef
  <2> PICK w : w = IF k < j THEN [u EXCEPT !.left = x] ELSE IF k > j THEN [u EXCEPT !.right = y] ELSE u
    OBVIOUS
  <2>2. insert0[u][k] = split(skew(w))
    <3>1. insert0[u][k] = InsertBody(u, x, y, k)
      BY InsertDef DEF InsertEquation
    <3> QED BY <1>4, <3>1 DEF InsertBody, IsNode
  <2>3. Joins(u, j, l, r)
    BY <1>4, NodeJoins
  <2>4. Ordered(l) /\ Ordered(r)
    BY <2>3 DEF Joins, SubtreesInOrder
  <2>5. w \in Tree /\ w # NIL /\ Put(u, w, k)
    <3>1. CASE k < j
      <4>1. w = Branch(j, v, x, r) /\ w \in Tree /\ w # NIL
        BY <1>4, <3>1, WithLeft
      <4>2. Joins(w, j, x, r)
        BY <4>1, BranchJoins
      <4>3. Put(l, x, k)
        BY <1>4, <2>4
      <4>4. Put(u, w, k)
        BY <2>3, <4>2, <4>3, <3>1, PutLeft
      <4> QED BY <4>1, <4>4
    <3>2. CASE k > j
      <4>1. w = Branch(j, v, l, y) /\ w \in Tree /\ w # NIL
        BY <1>4, <3>2, WithRight
      <4>2. Joins(w, j, l, y)
        BY <4>1, BranchJoins
      <4>3. Put(r, y, k)
        BY <1>4, <2>4
      <4>4. Put(u, w, k)
        BY <2>3, <4>2, <4>3, <3>2, PutRight
      <4> QED BY <4>1, <4>4
    <3>3. CASE k = j
      BY <1>1, <1>4, <3>3
    <3> QED BY <3>1, <3>2, <3>3
  <2> QED BY <1>2, <2>2, <2>5
<1> HIDE DEF P
<1>5. Tree \subseteq P
  BY <1>3, <1>4, TreeInduction, Zenon
<1> QED BY <1>5 DEF P

\* The first and the last node of a tree in order are its ends.
IsLeast(k, S) == k \in S /\ \A j \in S : k <= j
IsGreatest(k, S) == k \in S /\ \A j \in S : j <= k

LEMMA FirstIsLeast ==
  ASSUME Heights = Nat, NEW t \in Tree, t # NIL, Ordered(t)
  PROVE  IsLeast(first[t], KeysOf(t))
<1> DEFINE P == {u \in Tree : u # NIL /\ Ordered(u) => IsLeast(first[u], KeysOf(u))}
<1>1. NIL \in P
  BY NILIsATree
<1>2. ASSUME NEW u \in Tree, u # NIL, u.left \in P, u.right \in P
      PROVE  u \in P
  <2> SUFFICES ASSUME Ordered(u) PROVE IsLeast(first[u], KeysOf(u))
    OBVIOUS
  <2>1. Joins(u, u.key, u.left, u.right)
    BY <1>2, NodeJoins
  <2>2. first[u] = IF HasLeft(u) THEN first[u.left] ELSE u.key
    BY FirstDef DEF FirstEquation, FirstBody
  <2>3. CASE ~HasLeft(u)
    <3>1. KeysOf(u.left) = {}
      BY <1>2, <2>3, NothingInNIL DEF HasLeft, IsNode
    <3> QED BY <2>1, <2>2, <2>3, <3>1 DEF Joins, SubtreesInOrder, Above, IsLeast
  <2>4. CASE HasLeft(u)
    <3>1. IsLeast(first[u.left], KeysOf(u.left))
      BY <1>2, <2>1, <2>4 DEF Joins, SubtreesInOrder, HasLeft, IsNode
    <3> PICK k \in KeysOf(u.left) : k = first[u.left]
      BY <3>1 DEF IsLeast
    <3>2. k \in Int /\ k < u.key
      BY <2>1 DEF Joins, SubtreesInOrder, Below
    <3> QED BY <2>1, <2>2, <2>4, <3>1, <3>2 DEF Joins, SubtreesInOrder, Above, IsLeast
  <2> QED BY <2>3, <2>4
<1> HIDE DEF P
<1>3. Tree \subseteq P
  BY <1>1, <1>2, TreeInduction, Zenon
<1> QED BY <1>3 DEF P

LEMMA LastIsGreatest ==
  ASSUME Heights = Nat, NEW t \in Tree, t # NIL, Ordered(t)
  PROVE  IsGreatest(last[t], KeysOf(t))
<1> DEFINE P == {u \in Tree : u # NIL /\ Ordered(u) => IsGreatest(last[u], KeysOf(u))}
<1>1. NIL \in P
  BY NILIsATree
<1>2. ASSUME NEW u \in Tree, u # NIL, u.left \in P, u.right \in P
      PROVE  u \in P
  <2> SUFFICES ASSUME Ordered(u) PROVE IsGreatest(last[u], KeysOf(u))
    OBVIOUS
  <2>1. Joins(u, u.key, u.left, u.right)
    BY <1>2, NodeJoins
  <2>2. last[u] = IF HasRight(u) THEN last[u.right] ELSE u.key
    BY LastDef DEF LastEquation, LastBody
  <2>3. CASE ~HasRight(u)
    <3>1. KeysOf(u.right) = {}
      BY <1>2, <2>3, NothingInNIL DEF HasRight, IsNode
    <3> QED BY <2>1, <2>2, <2>3, <3>1 DEF Joins, SubtreesInOrder, Below, IsGreatest
  <2>4. CASE HasRight(u)
    <3>1. IsGreatest(last[u.right], KeysOf(u.right))
      BY <1>2, <2>1, <2>4 DEF Joins, SubtreesInOrder, HasRight, IsNode
    <3> PICK k \in KeysOf(u.right) : k = last[u.right]
      BY <3>1 DEF IsGreatest
    <3>2. k \in Int /\ u.key < k
      BY <2>1 DEF Joins, SubtreesInOrder, Above
    <3> QED BY <2>1, <2>2, <2>4, <3>1, <3>2 DEF Joins, SubtreesInOrder, Below, IsGreatest
  <2> QED BY <2>3, <2>4
<1> HIDE DEF P
<1>3. Tree \subseteq P
  BY <1>1, <1>2, TreeInduction, Zenon
<1> QED BY <1>3 DEF P

LEMMA FixupTakes ==
  ASSUME Heights = Nat, NEW t, NEW u \in Tree, u # NIL, NEW k, Taken(t, u, k)
  PROVE  Taken(t, delete_fixup(u), k)
BY FixupSame DEF Same, Taken

LEMMA DeleteFirstTakes ==
  ASSUME Heights = Nat, NEW t \in Tree, t # NIL, Ordered(t)
  PROVE  Taken(t, delete_first0[t], first[t])
<1> DEFINE P == {u \in Tree : u # NIL /\ Ordered(u) => Taken(u, delete_first0[u], first[u])}
<1>1. NIL \in P
  BY NILIsATree
<1>2. ASSUME NEW u \in Tree, u # NIL, u.left \in P, u.right \in P
      PROVE  u \in P
  <2> SUFFICES ASSUME Ordered(u) PROVE Taken(u, delete_first0[u], first[u])
    OBVIOUS
  <2>1. IsBranch(u)
    BY <1>2, TreeIsBranch
  <2> PICK l \in Tree : l = u.left
    BY <2>1 DEF IsBranch
  <2> PICK r \in Tree : r = u.right
    BY <2>1 DEF IsBranch
  <2> PICK j \in Int : j = u.key
    BY <2>1 DEF IsBranch
  <2> PICK v \in Nat \ {0} : v = u.level
    BY <2>1 DEF IsBranch
  <2>2. Joins(u, j, l, r)
    BY <1>2, NodeJoins
  <2>3. first[u] = IF HasLeft(u) THEN first[l] ELSE j
    BY FirstDef DEF FirstEquation, FirstBody
  <2>4. delete_first0[u] = DeleteFirstBody(u, delete_first0[l], delete_first0[r])
    BY DeleteFirstDef DEF DeleteFirstEquation
  <2>5. CASE ~HasLeft(u)
    <3>1. KeysOf(l) = {} /\ Size[l] = 0
      BY <1>2, <2>5, NothingInNIL DEF HasLeft, IsNode
    <3>2. Taken(u, r, j)
      BY <2>2, <3>1 DEF Joins, SubtreesInOrder, Above, Taken
    <3> QED BY <1>2, <2>3, <2>4, <2>5, <3>2 DEF DeleteFirstBody, IsNode
  <2>6. CASE HasLeft(u)
    <3>1. l # NIL /\ Ordered(l)
      BY <2>2, <2>6 DEF Joins, SubtreesInOrder, HasLeft, IsNode
    <3> PICK x \in Tree : x = delete_first0[l]
      BY DeleteFirstDef
    <3> PICK k \in Int : k = first[l]
      BY FirstDef
    <3>2. Taken(l, x, k)
      BY <1>2, <3>1
    <3>3. k < j
      BY <2>2, <3>1, FirstIsLeast DEF IsLeast, Joins, SubtreesInOrder, Below
    <3> PICK w : w = [u EXCEPT !.left = x]
      OBVIOUS
    <3>4. w = Branch(j, v, x, r) /\ w \in Tree /\ w # NIL
      BY <1>2, WithLeft
    <3>5. Joins(w, j, x, r)
      BY <3>4, BranchJoins
    <3>6. Taken(u, w, k)
      BY <2>2, <3>2, <3>3, <3>5, TakenLeft
    <3>7. Taken(u, delete_fixup(w), k)
      BY <3>4, <3>6, FixupTakes
    <3> QED BY <1>2, <2>3, <2>4, <2>6, <3>7 DEF DeleteFirstBody, IsNode
  <2> QED BY <2>5, <2>6
<1> HIDE DEF P
<1>3. Tree \subseteq P
  BY <1>1, <1>2, TreeInduction, Zenon
<1> QED BY <1>3 DEF P

LEMMA DeleteLastTakes ==
  ASSUME Heights = Nat, NEW t \in Tree, t # NIL, Ordered(t)
  PROVE  Taken(t, delete_last0[t], last[t])
<1> DEFINE P == {u \in Tree : u # NIL /\ Ordered(u) => Taken(u, delete_last0[u], last[u])}
<1>1. NIL \in P
  BY NILIsATree
<1>2. ASSUME NEW u \in Tree, u # NIL, u.left \in P, u.right \in P
      PROVE  u \in P
  <2> SUFFICES ASSUME Ordered(u) PROVE Taken(u, delete_last0[u], last[u])
    OBVIOUS
  <2>1. IsBranch(u)
    BY <1>2, TreeIsBranch
  <2> PICK l \in Tree : l = u.left
    BY <2>1 DEF IsBranch
  <2> PICK r \in Tree : r = u.right
    BY <2>1 DEF IsBranch
  <2> PICK j \in Int : j = u.key
    BY <2>1 DEF IsBranch
  <2> PICK v \in Nat \ {0} : v = u.level
    BY <2>1 DEF IsBranch
  <2>2. Joins(u, j, l, r)
    BY <1>2, NodeJoins
  <2>3. last[u] = IF HasRight(u) THEN last[r] ELSE j
    BY LastDef DEF LastEquation, LastBody
  <2>4. delete_last0[u] = DeleteLastBody(u, delete_last0[l], delete_last0[r])
    BY DeleteLastDef DEF DeleteLastEquation
  <2>5. CASE ~HasRight(u)
    <3>1. KeysOf(r) = {} /\ Size[r] = 0
      BY <1>2, <2>5, NothingInNIL DEF HasRight, IsNode
    <3>2. Taken(u, l, j)
      BY <2>2, <3>1 DEF Joins, SubtreesInOrder, Below, Taken
    <3> QED BY <1>2, <2>3, <2>4, <2>5, <3>2 DEF DeleteLastBody, IsNode
  <2>6. CASE HasRight(u)
    <3>1. r # NIL /\ Ordered(r)
      BY <2>2, <2>6 DEF Joins, SubtreesInOrder, HasRight, IsNode
    <3> PICK x \in Tree : x = delete_last0[r]
      BY DeleteLastDef
    <3> PICK k \in Int : k = last[r]
      BY LastDef
    <3>2. Taken(r, x, k)
      BY <1>2, <3>1
    <3>3. j < k
      BY <2>2, <3>1, LastIsGreatest DEF IsGreatest, Joins, SubtreesInOrder, Above
    <3> PICK w : w = [u EXCEPT !.right = x]
      OBVIOUS
    <3>4. w = Branch(j, v, l, x) /\ w \in Tree /\ w # NIL
      BY <1>2, WithRight
    <3>5. Joins(w, j, l, x)
      BY <3>4, BranchJoins
    <3>6. Taken(u, w, k)
      BY <2>2, <3>2, <3>3, <3>5, TakenRight
    <3>7. Taken(u, delete_fixup(w), k)
      BY <3>4, <3>6, FixupTakes
    <3> QED BY <1>2, <2>3, <2>4, <2>6, <3>7 DEF DeleteLastBody, IsNode
  <2> QED BY <2>5, <2>6
<1> HIDE DEF P
<1>3. Tree \subseteq P
  BY <1>1, <1>2, TreeInduction, Zenon
<1> QED BY <1>3 DEF P

LEMMA ReplaceTakes ==
  ASSUME Heights = Nat, NEW t \in Tree, HasLeft(t) \/ HasRight(t), Ordered(t)
  PROVE  Taken(t, Replace(t), t.key)
<1>1. t # NIL
  BY DEF HasLeft, HasRight, IsNode
<1>2. IsBranch(t)
  BY <1>1, TreeIsBranch
<1> PICK l \in Tree : l = t.left
  BY <1>2 DEF IsBranch
<1> PICK r \in Tree : r = t.right
  BY <1>2 DEF IsBranch
<1> PICK j \in Int : j = t.key
  BY <1>2 DEF IsBranch
<1> PICK v \in Nat \ {0} : v = t.level
  BY <1>2 DEF IsBranch
<1> PICK w \in Tree : w = Replace(t)
  BY ReplaceType
<1>3. Joins(t, j, l, r) /\ Ordered(l) /\ Ordered(r)
  BY <1>1, NodeJoins DEF Joins, SubtreesInOrder
<1>4. CASE HasLeft(t)
  <2>1. l # NIL
    BY <1>4 DEF HasLeft, IsNode
  <2> PICK x \in Tree : x = delete_last0[l]
    BY DeleteLastDef
  <2> PICK k \in Int : k = last[l]
    BY LastDef
  <2>2. w = Branch(k, v, x, r)
    BY <1>4, ReplaceType
  <2>3. Joins(w, k, x, r)
    BY <2>2, BranchJoins
  <2>4. Taken(l, x, k) /\ IsGreatest(k, KeysOf(l))
    BY <1>3, <2>1, DeleteLastTakes, LastIsGreatest
  <2>5. k < j
    BY <1>3, <2>4 DEF IsGreatest, Joins, SubtreesInOrder, Below
  <2>6. KeysOf(w) = KeysOf(t) \ {j}
    BY <1>3, <2>3, <2>4 DEF IsGreatest, Joins, SubtreesInOrder, Below, Above, Taken
  <2>7. Size[t] = Size[w] + 1
    BY <1>3, <2>3, <2>4 DEF IsGreatest, Joins, Taken
  <2>8. Below(KeysOf(x), k) /\ Above(KeysOf(r), k)
    <3>1. \A i \in KeysOf(r) : i \in Int /\ j < i
      BY <1>3 DEF Joins, SubtreesInOrder, Above
    <3>2. \A i \in KeysOf(x) : i \in Int /\ i <= k /\ i # k
      BY <1>3, <2>4 DEF Joins, IsGreatest, Taken
    <3> QED BY <2>5, <3>1, <3>2 DEF Below, Above
  <2>9. Ordered(w)
    BY <1>3, <2>3, <2>4, <2>8 DEF Joins, Taken, SubtreesInOrder
  <2> QED BY <1>3, <2>6, <2>7, <2>9 DEF Joins, Taken
<1>5. CASE ~HasLeft(t)
  <2>1. r # NIL
    BY <1>5 DEF HasRight, IsNode
  <2> PICK x \in Tree : x = delete_first0[r]
    BY DeleteFirstDef
  <2> PICK k \in Int : k = first[r]
    BY FirstDef
  <2>2. w = Branch(k, v, l, x)
    BY <1>5, ReplaceType
  <2>3. Joins(w, k, l, x)
    BY <2>2, BranchJoins
  <2>4. Taken(r, x, k) /\ IsLeast(k, KeysOf(r))
    BY <1>3, <2>1, DeleteFirstTakes, FirstIsLeast
  <2>5. j < k
    BY <1>3, <2>4 DEF IsLeast, Joins, SubtreesInOrder, Above
  <2>6. KeysOf(w) = KeysOf(t) \ {j}
    BY <1>3, <2>3, <2>4 DEF IsLeast, Joins, SubtreesInOrder, Below, Above, Taken
  <2>7. Size[t] = Size[w] + 1
    BY <1>3, <2>3, <2>4 DEF IsLeast, Joins, Taken
  <2>8. Below(KeysOf(l), k) /\ Above(KeysOf(x), k)
    <3>1. \A i \in KeysOf(l) : i \in Int /\ i < j
      BY <1>3 DEF Joins, SubtreesInOrder, Below
    <3>2. \A i \in KeysOf(x) : i \in Int /\ k <= i /\ i # k
      BY <1>3, <2>4 DEF Joins, IsLeast, Taken
    <3> QED BY <2>5, <3>1, <3>2 DEF Below, Above
  <2>9. Ordered(w)
    BY <1>3, <2>3, <2>4, <2>8 DEF Joins, Taken, SubtreesInOrder
  <2> QED BY <1>3, <2>6, <2>7, <2>9 DEF Joins, Taken
<1> QED BY <1>4, <1>5

LEMMA DeleteTakes ==
  ASSUME Heights = Nat, NEW t \in Tree, NEW k \in Int, Ordered(t)
  PROVE  Taken(t, delete0[t][k], k)
<1> DEFINE P == {u \in Tree : Ordered(u) => Taken(u, delete0[u][k], k)}
<1>1. \A u \in Tree : delete0[u][k] = DeleteBody(u, delete0[u.left][k], delete0[u.right][k], k)
  BY DeleteDef DEF DeleteEquation
<1>2. NIL \in P
  <2>1. delete0[NIL][k] = NIL
    BY <1>1, NILIsATree DEF DeleteBody, IsNode
  <2> QED BY <2>1, NILIsATree, NothingInNIL DEF Taken
<1>3. ASSUME NEW u \in Tree, u # NIL, u.left \in P, u.right \in P
      PROVE  u \in P
  <2> SUFFICES ASSUME Ordered(u) PROVE Taken(u, delete0[u][k], k)
    OBVIOUS
  <2>1. IsBranch(u)
    BY <1>3, TreeIsBranch
  <2> PICK l \in Tree : l = u.left
    BY <2>1 DEF IsBranch
  <2> PICK r \in Tree : r = u.right
    BY <2>1 DEF IsBranch
  <2> PICK j \in Int : j = u.key
    BY <2>1 DEF IsBranch
  <2> PICK v \in Nat \ {0} : v = u.level
    BY <2>1 DEF IsBranch
  <2> PICK x \in Tree : x = delete0[l][k]
    BY DeleteDef
  <2> PICK y \in Tree : y = delete0[r][k]
    BY DeleteDef
  <2>2. delete0[u][k] = DeleteBody(u, x, y, k)
    BY <1>1
  <2>3. Joins(u, j, l, r) /\ Ordered(l) /\ Ordered(r)
    BY <1>3, NodeJoins DEF Joins, SubtreesInOrder
  <2>4. CASE k < j
    <3> PICK w : w = [u EXCEPT !.left = x]
      OBVIOUS
    <3>1. w = Branch(j, v, x, r) /\ w \in Tree /\ w # NIL
      BY <1>3, WithLeft
    <3>2. Joins(w, j, x, r)
      BY <3>1, BranchJoins
    <3>3. Taken(l, x, k)
      BY <1>3, <2>3
    <3>4. Taken(u, w, k)
      BY <2>3, <2>4, <3>2, <3>3, TakenLeft
    <3>5. Taken(u, delete_fixup(w), k)
      BY <3>1, <3>4, FixupTakes
    <3> QED BY <1>3, <2>2, <2>4, <3>5 DEF DeleteBody, IsNode
  <2>5. CASE k > j
    <3> PICK w : w = [u EXCEPT !.right = y]
      OBVIOUS
    <3>1. w = Branch(j, v, l, y) /\ w \in Tree /\ w # NIL
      BY <1>3, WithRight
    <3>2. Joins(w, j, l, y)
      BY <3>1, BranchJoins
    <3>3. Taken(r, y, k)
      BY <1>3, <2>3
    <3>4. Taken(u, w, k)
      BY <2>3, <2>5, <3>2, <3>3, TakenRight
    <3>5. Taken(u, delete_fixup(w), k)
      BY <3>1, <3>4, FixupTakes
    <3> QED BY <1>3, <2>2, <2>5, <3>5 DEF DeleteBody, IsNode
  <2>6. CASE k = j /\ (HasLeft(u) \/ HasRight(u))
    <3> PICK w \in Tree : w = Replace(u) /\ w # NIL
      BY <2>6, ReplaceType
    <3>1. Taken(u, w, k)
      BY <2>6, ReplaceTakes
    <3>2. Taken(u, delete_fixup(w), k)
      BY <3>1, FixupTakes
    <3> QED BY <1>3, <2>2, <2>6, <3>2 DEF DeleteBody, IsNode
  <2>7. CASE k = j /\ ~HasLeft(u) /\ ~HasRight(u)
    <3>1. l = NIL /\ r = NIL
      BY <1>3, <2>7 DEF HasLeft, HasRight, IsNode
    <3>2. Taken(u, NIL, k)
      BY <2>3, <2>7, <3>1, NothingInNIL DEF Joins, Taken
    <3> QED BY <1>3, <2>2, <2>7, <3>2 DEF DeleteBody, IsNode
  <2> QED BY <2>4, <2>5, <2>6, <2>7
<1> HIDE DEF P
<1>4. Tree \subseteq P
  BY <1>2, <1>3, TreeInduction, Zenon
<1> QED BY <1>4 DEF P

-----------------------------------------------------------------------------
(* The levels of a tree.                                                   *)

\* The rules of an AA tree at one of its nodes.
Rules(t) ==
  /\ t.left.level = t.level - 1
  /\ t.right.level \in {t.level - 1, t.level}
  /\ HasRight(t) => t.right.right.level < t.level
  /\ t.level > 1 => HasLeft(t) /\ HasRight(t)

Balanced(t) == \A n \in Nodes[t] : Rules(n)

\* The level of the right child, 0 where there is none.
RightLevel(t) == IF t = NIL THEN 0 ELSE t.right.level

\* The rules for a node of level v over the subtrees l and r.
LevelFits(v, l, r) == l.level = v - 1 /\ r.level \in {v - 1, v} /\ RightLevel(r) < v

LEMMA LevelTypes ==
  ASSUME Heights = Nat, NEW t \in Tree
  PROVE  /\ t.level \in Nat /\ RightLevel(t) \in Nat
         /\ t.level = 0 <=> t = NIL
<1>1. CASE t = NIL
  BY <1>1 DEF NIL, RightLevel
<1>2. CASE t # NIL
  <2>1. IsBranch(t)
    BY <1>2, TreeIsBranch
  <2>2. t.right.level \in Nat
    <3>1. CASE t.right = NIL
      BY <3>1 DEF NIL
    <3>2. CASE t.right # NIL
      BY <2>1, <3>2, TreeIsBranch DEF IsBranch
    <3> QED BY <3>1, <3>2
  <2> QED BY <1>2, <2>1, <2>2 DEF IsBranch, RightLevel
<1> QED BY <1>1, <1>2

\* The tree t is a node of level v over l and r, whatever its key.
Made(t, v, l, r) ==
  /\ t \in Tree /\ l \in Tree /\ r \in Tree /\ v \in Nat \ {0}
  /\ t # NIL /\ t.level = v /\ t.left = l /\ t.right = r /\ RightLevel(t) = r.level
  /\ l.level \in Nat /\ r.level \in Nat /\ RightLevel(l) \in Nat /\ RightLevel(r) \in Nat
  /\ Balanced(t) <=> (Balanced(l) /\ Balanced(r) /\ LevelFits(v, l, r))

LEMMA NodeMade ==
  ASSUME Heights = Nat, NEW t \in Tree, t # NIL
  PROVE  Made(t, t.level, t.left, t.right)
<1>1. IsBranch(t)
  BY TreeIsBranch
<1> PICK l \in Tree : l = t.left
  BY <1>1 DEF IsBranch
<1> PICK r \in Tree : r = t.right
  BY <1>1 DEF IsBranch
<1> PICK v \in Nat \ {0} : v = t.level
  BY <1>1 DEF IsBranch
<1>2. /\ l.level \in Nat /\ r.level \in Nat /\ RightLevel(l) \in Nat /\ RightLevel(r) \in Nat
      /\ (l.level = 0 <=> l = NIL) /\ (r.level = 0 <=> r = NIL)
  BY LevelTypes
<1>3. Rules(t) <=> LevelFits(v, l, r)
  <2>1. HasLeft(t) <=> l # NIL
    BY DEF HasLeft, IsNode
  <2>2. HasRight(t) <=> r # NIL
    BY DEF HasRight, IsNode
  <2>3. (HasRight(t) => t.right.right.level < t.level) <=> RightLevel(r) < v
    BY <1>2, <2>2 DEF RightLevel
  <2>4. LevelFits(v, l, r) /\ v > 1 => l # NIL /\ r # NIL
    BY <1>2 DEF LevelFits
  <2> QED BY <2>1, <2>2, <2>3, <2>4 DEF Rules, LevelFits
<1>4. Nodes[t] = {t} \cup Nodes[t.left] \cup Nodes[t.right]
  BY NodesDef DEF NodesEquation, NodesBody, IsNode
<1>5. Balanced(t) <=> Balanced(l) /\ Balanced(r) /\ LevelFits(v, l, r)
  BY <1>3, <1>4 DEF Balanced
<1> QED BY <1>2, <1>5 DEF Made, RightLevel

Typed(t, v, l, r) ==
  t \in Tree /\ l \in Tree /\ r \in Tree /\ v \in Nat \ {0} /\ t # NIL /\ t.key \in Int

LEMMA MadeTypes ==
  ASSUME Heights = Nat, NEW t, NEW v, NEW l, NEW r, Made(t, v, l, r)
  PROVE  Typed(t, v, l, r)
BY KeyType DEF Made, Typed

LEMMA BranchMade ==
  ASSUME Heights = Nat, NEW k \in Int, NEW v \in Nat \ {0}, NEW l \in Tree, NEW r \in Tree
  PROVE  Made(Branch(k, v, l, r), v, l, r)
<1> PICK t : t = Branch(k, v, l, r)
  OBVIOUS
<1>1. t \in Tree /\ t # NIL
  BY BranchIsATree, NILIsNoBranch
<1>2. t.level = v /\ t.left = l /\ t.right = r
  BY FieldsOf
<1>3. Made(t, t.level, t.left, t.right)
  BY <1>1, NodeMade
<1> QED BY <1>2, <1>3

LEMMA NILIsBalanced ==
  ASSUME Heights = Nat
  PROVE  Balanced(NIL) /\ NIL.level = 0 /\ RightLevel(NIL) = 0
BY NothingInNIL DEF Balanced, NIL, RightLevel

LEMMA NodeOfLevel ==
  ASSUME Heights = Nat, NEW t \in Tree, t.level > 0
  PROVE  t # NIL /\ Made(t, t.level, t.left, t.right)
<1>1. t # NIL
  BY LevelTypes
<1> QED BY <1>1, NodeMade

LEMMA RightLevelBound ==
  ASSUME Heights = Nat, NEW t \in Tree, Balanced(t)
  PROVE  RightLevel(t) <= t.level
<1>1. CASE t = NIL
  BY <1>1, NILIsBalanced
<1>2. CASE t # NIL
  <2>1. Made(t, t.level, t.left, t.right)
    BY <1>2, NodeMade
  <2> QED BY <2>1 DEF Made, LevelFits
<1> QED BY <1>1, <1>2

\* The rotations and the changes of a level, as what they make of what.
LEMMA NoSkew ==
  ASSUME NEW t, NEW v, NEW l, NEW r, Made(t, v, l, r), l.level # v
  PROVE  skew(t) = t
BY DEF Made, skew

LEMMA NoSplit ==
  ASSUME NEW t, NEW v, NEW l, NEW r, Made(t, v, l, r), RightLevel(r) # v
  PROVE  split(t) = t
BY DEF Made, split, HasRight, IsNode, RightLevel

LEMMA BalancedStays ==
  ASSUME Heights = Nat, NEW t \in Tree, Balanced(t)
  PROVE  skew(t) = t /\ split(t) = t
<1>1. CASE t = NIL
  BY <1>1, NILRotates
<1>2. CASE t # NIL
  <2>1. Made(t, t.level, t.left, t.right)
    BY <1>2, NodeMade
  <2>2. t.left.level # t.level /\ RightLevel(t.right) # t.level
    BY <2>1 DEF Made, LevelFits
  <2> QED BY <2>1, <2>2, NoSkew, NoSplit
<1> QED BY <1>1, <1>2

\* What skew makes of a node whose left child, over a and b, is on its level v.
SkewMakes(t, v, a, b, r) == \E m : Made(m, v, b, r) /\ Made(skew(t), v, a, m)

LEMMA SkewMade ==
  ASSUME Heights = Nat, NEW t, NEW v, NEW l, NEW r, NEW a, NEW b,
         Made(t, v, l, r), Made(l, v, a, b)
  PROVE  SkewMakes(t, v, a, b, r)
<1>1. Typed(t, v, l, r) /\ Typed(l, v, a, b)
  BY MadeTypes
<1> PICK m : m = Branch(t.key, v, b, r)
  OBVIOUS
<1>2. Made(m, v, b, r) /\ m \in Tree
  BY <1>1, BranchMade, BranchIsATree DEF Typed
<1> PICK w : w = Branch(l.key, v, a, m)
  OBVIOUS
<1>3. Made(w, v, a, m)
  BY <1>1, <1>2, BranchMade DEF Typed
<1>4. t \in Tree /\ HasLeft(t) /\ t.left.level = t.level
  BY DEF Made, HasLeft, IsNode
<1>5. skew(t) = w
  BY <1>4, SkewIs DEF Skewed, Made
<1> QED BY <1>2, <1>3, <1>5 DEF SkewMakes

\* What split makes of a node of level v over l and a right child of level w over b
\* and c.
SplitMakes(t, v, w, l, b, c) == \E m : Made(m, v, l, b) /\ Made(split(t), w + 1, m, c)

LEMMA SplitMade ==
  ASSUME Heights = Nat, NEW t, NEW v, NEW w, NEW l, NEW r, NEW b, NEW c,
         Made(t, v, l, r), Made(r, w, b, c), c.level = v
  PROVE  SplitMakes(t, v, w, l, b, c)
<1>1. Typed(t, v, l, r) /\ Typed(r, w, b, c)
  BY MadeTypes
<1> PICK m : m = Branch(t.key, v, l, b)
  OBVIOUS
<1>2. Made(m, v, l, b) /\ m \in Tree
  BY <1>1, BranchMade, BranchIsATree DEF Typed
<1> PICK n \in Nat \ {0} : n = w + 1
  BY <1>1 DEF Typed
<1> PICK u : u = Branch(r.key, n, m, c)
  OBVIOUS
<1>3. Made(u, n, m, c)
  BY <1>1, <1>2, BranchMade DEF Typed
<1>4. c # NIL
  BY DEF Made, NIL
<1>5. t \in Tree /\ HasRight(t) /\ HasRight(t.right) /\ t.right.right.level = t.level
  BY <1>4 DEF Made, HasRight, IsNode
<1>6. split(t) = u
  BY <1>5, SplitIs DEF Splitted, Made
<1> QED BY <1>2, <1>3, <1>6 DEF SplitMakes

LEMMA RotateRightMade ==
  ASSUME Heights = Nat, NEW t, NEW v, NEW l, NEW r, Made(t, v, l, r)
  PROVE  Made(skew_right(t), v, l, skew(r)) /\ Made(split_right(t), v, l, split(r))
<1>1. Typed(t, v, l, r)
  BY MadeTypes
<1> PICK x \in Tree : x = skew(r)
  BY <1>1, SkewType, NILRotates DEF Typed
<1> PICK y \in Tree : y = split(r)
  BY <1>1, SplitType, NILRotates DEF Typed
<1>2. skew_right(t) = Branch(t.key, v, l, x) /\ split_right(t) = Branch(t.key, v, l, y)
  BY <1>1, SkewRightIs, SplitRightIs DEF Made, Typed
<1>3. Made(Branch(t.key, v, l, x), v, l, x) /\ Made(Branch(t.key, v, l, y), v, l, y)
  BY <1>1, BranchMade DEF Typed
<1> QED BY <1>2, <1>3

SkewRightRightMakes(t, v, w, l, a, b) ==
  \E s : Made(s, w, a, skew(b)) /\ Made(skew_right_right(t), v, l, s)

LEMMA SkewRightRightMade ==
  ASSUME Heights = Nat, NEW t, NEW v, NEW w, NEW l, NEW r, NEW a, NEW b,
         Made(t, v, l, r), Made(r, w, a, b)
  PROVE  SkewRightRightMakes(t, v, w, l, a, b)
<1>1. Typed(t, v, l, r)
  BY MadeTypes
<1>2. CASE b = NIL
  <2>1. skew_right_right(t) = t
    BY <1>2 DEF Made, skew_right_right, HasRight, IsNode
  <2> QED BY <1>2, <2>1, NILRotates DEF SkewRightRightMakes
<1>3. CASE b # NIL
  <2> PICK s : s = skew_right(r)
    OBVIOUS
  <2>1. Made(s, w, a, skew(b))
    BY RotateRightMade
  <2>4. s \in Tree
    BY <2>1 DEF Made
  <2>2. skew_right_right(t) = Branch(t.key, v, l, s)
    BY <1>1, <1>3, SkewRightRightIs DEF Made, HasRight, IsNode
  <2>3. Made(Branch(t.key, v, l, s), v, l, s)
    BY <1>1, <2>4, BranchMade DEF Typed
  <2> QED BY <2>1, <2>2, <2>3 DEF SkewRightRightMakes
<1> QED BY <1>2, <1>3

LEMMA LoweredMade ==
  ASSUME Heights = Nat, NEW r, NEW w, NEW a, NEW b, Made(r, w, a, b),
         NEW n \in Nat \ {0}, n < w
  PROVE  Made(Lowered(r, n), n, a, b)
<1>1. Typed(r, w, a, b)
  BY MadeTypes
<1>2. Lowered(r, n) = Branch(r.key, n, a, b)
  BY DEF Lowered, Made, IsNode
<1>3. Made(Branch(r.key, n, a, b), n, a, b)
  BY <1>1, BranchMade DEF Typed
<1> QED BY <1>2, <1>3

LEMMA NotLowered ==
  ASSUME Heights = Nat, NEW r \in Tree, NEW n \in Nat, r.level <= n
  PROVE  Lowered(r, n) = r
BY LevelTypes DEF Lowered

LEMMA DecreaseMade ==
  ASSUME Heights = Nat, NEW t, NEW v, NEW l, NEW r, Made(t, v, l, r),
         HasLeft(t) \/ HasRight(t), NEW n \in Nat \ {0}, n = LevelOver(t), n < v
  PROVE  Made(decrease_level(t), n, l, Lowered(r, n))
<1>1. Typed(t, v, l, r)
  BY MadeTypes
<1> PICK x \in Tree : x = Lowered(r, n)
  BY <1>1, LoweredType DEF Typed
<1>2. decrease_level(t) = Branch(t.key, n, l, x)
  BY <1>1, DecreaseIs DEF Made, Typed
<1>3. Made(Branch(t.key, n, l, x), n, l, x)
  BY <1>1, BranchMade DEF Typed
<1> QED BY <1>2, <1>3

LEMMA NotDecreased ==
  ASSUME NEW t, NEW v, NEW l, NEW r, Made(t, v, l, r), LevelOver(t) \in Int, ~(LevelOver(t) < v)
  PROVE  decrease_level(t) = t
BY DEF Made, decrease_level

LEMMA LevelOverIs ==
  ASSUME Heights = Nat, NEW t, NEW v, NEW l, NEW r, Made(t, v, l, r)
  PROVE  LevelOver(t) = 1 + (IF l.level <= r.level THEN l.level ELSE r.level)
<1>1. /\ HasLeft(t) <=> l.level # 0
      /\ HasRight(t) <=> r.level # 0
  BY LevelTypes DEF Made, HasLeft, HasRight, IsNode
<1> PICK i \in Nat : i = l.level
  BY DEF Made
<1> PICK j \in Nat : j = r.level
  BY DEF Made
<1>2. Min({i, j}) = IF i <= j THEN i ELSE j
  BY MinOfTwo
<1>3. LevelOver(t) = 1 + (IF HasLeft(t) /\ HasRight(t) THEN Min({i, j}) ELSE 0)
  BY DEF LevelOver, Made
<1> QED BY <1>1, <1>2, <1>3

-----------------------------------------------------------------------------
(* delete_fixup makes a balanced tree of a node one of whose subtrees has  *)
(* got a level lower.  Its last four steps are looked at first.            *)

rotate_right(t) == split_right(split(skew_right_right(skew_right(t))))

\* Another balanced tree of the same levels at the top.
Alike(r, s) ==
  s \in Tree /\ Balanced(s) /\ s.level = r.level /\ RightLevel(s) = RightLevel(r)

RightIsAlike(t, v, l, r) == \E s : Alike(r, s) /\ Made(skew_right_right(t), v, l, s)

LEMMA BalancedRight ==
  ASSUME Heights = Nat, NEW t, NEW v, NEW l, NEW r, Made(t, v, l, r), Balanced(r)
  PROVE  RightIsAlike(t, v, l, r)
<1>1. r \in Tree
  BY MadeTypes DEF Typed
<1>2. CASE r = NIL
  <2>1. skew_right_right(t) = t
    BY <1>2 DEF Made, skew_right_right, HasRight, IsNode
  <2> QED BY <1>1, <2>1 DEF RightIsAlike, Alike
<1>3. CASE r # NIL
  <2> PICK w, a, b : Made(r, w, a, b)
    BY <1>1, <1>3, NodeMade
  <2>1. Balanced(a) /\ Balanced(b) /\ b \in Tree /\ LevelFits(w, a, b)
    BY DEF Made
  <2>2. SkewRightRightMakes(t, v, w, l, a, b)
    BY SkewRightRightMade
  <2>3. PICK s : Made(s, w, a, skew(b)) /\ Made(skew_right_right(t), v, l, s)
    BY <2>2 DEF SkewRightRightMakes
  <2>4. skew(b) = b
    BY <2>1, BalancedStays
  <2>5. Alike(r, s)
    BY <2>1, <2>3, <2>4 DEF Alike, Made
  <2> QED BY <2>3, <2>5 DEF RightIsAlike
<1> QED BY <1>2, <1>3

RotatedFits(n, r, u) ==
  /\ u \in Tree /\ Balanced(u)
  /\ \/ u.level = n /\ RightLevel(u) = r.level /\ RightLevel(r) < n
     \/ u.level = n + 1 /\ RightLevel(u) = n /\ RightLevel(r) = n

\* A right child on the node's level, and one of its own there.
LEMMA RotateBalancedRight ==
  ASSUME Heights = Nat, NEW t, NEW n, NEW l, NEW r, Made(t, n, l, r),
         Balanced(l), Balanced(r), l.level = n - 1, r.level \in {n - 1, n}
  PROVE  RotatedFits(n, r, rotate_right(t))
<1>1. Typed(t, n, l, r)
  BY MadeTypes
<1>2. skew(r) = r
  BY <1>1, BalancedStays DEF Typed
<1> PICK t3 : t3 = skew_right(t)
  OBVIOUS
<1>3. Made(t3, n, l, r)
  BY <1>2, RotateRightMade
<1> PICK t4 : t4 = skew_right_right(t3)
  OBVIOUS
<1>4. RightIsAlike(t3, n, l, r)
  BY <1>3, BalancedRight
<1>5. PICK s : Alike(r, s) /\ Made(t4, n, l, s)
  BY <1>4 DEF RightIsAlike
<1>6. s \in Tree /\ Balanced(s) /\ split(s) = s
  BY <1>5, BalancedStays DEF Alike
<1>7. RightLevel(s) <= s.level
  BY <1>6, RightLevelBound
<1> PICK t5 : t5 = split(t4)
  OBVIOUS
<1> PICK u : u = split_right(t5)
  OBVIOUS
<1>8. CASE RightLevel(s) # n
  <2>1. t5 = t4
    BY <1>5, <1>8, NoSplit
  <2>2. Made(u, n, l, s)
    BY <1>5, <1>6, <2>1, RotateRightMade
  <2>3. LevelFits(n, l, s)
    BY <1>5, <1>7, <1>8, <1>1 DEF LevelFits, Alike, Made, Typed
  <2>4. RotatedFits(n, r, u)
    BY <1>5, <1>6, <2>2, <2>3 DEF RotatedFits, Made, Alike, LevelFits
  <2> QED BY <2>4 DEF rotate_right
<1>9. CASE RightLevel(s) = n
  <2>1. s.level = n /\ n \in Nat \ {0}
    BY <1>1, <1>5, <1>7, <1>9 DEF Alike, Typed
  <2>2. PICK b, c : Made(s, n, b, c)
    BY <1>6, <2>1, NodeOfLevel
  <2>3. Balanced(b) /\ Balanced(c) /\ LevelFits(n, b, c) /\ c.level = n /\ b \in Tree /\ c \in Tree
    BY <1>6, <1>9, <2>2 DEF Made
  <2>4. SplitMakes(t4, n, n, l, b, c)
    BY <1>5, <2>2, <2>3, SplitMade
  <2>5. PICK m : Made(m, n, l, b) /\ Made(t5, n + 1, m, c)
    BY <2>4 DEF SplitMakes
  <2>6. split(c) = c
    BY <2>3, BalancedStays
  <2>7. Made(u, n + 1, m, c)
    BY <2>5, <2>6, RotateRightMade
  <2>8. RightLevel(b) <= b.level /\ RightLevel(c) <= c.level
    BY <2>3, RightLevelBound
  <2>9. Balanced(m)
    BY <2>1, <2>3, <2>5, <2>8 DEF Made, LevelFits
  <2>10. Balanced(u)
    BY <2>1, <2>3, <2>5, <2>7, <2>8, <2>9 DEF Made, LevelFits
  <2>11. RotatedFits(n, r, u)
    BY <1>5, <1>9, <2>3, <2>7, <2>10 DEF RotatedFits, Made, Alike
  <2> QED BY <2>11 DEF rotate_right
<1> QED BY <1>8, <1>9

\* Two neighbours on the level of a node that is the right child of a node there.
Straightened(n, m) ==
  /\ skew(m) \in Tree /\ skew(m).level = n
  /\ Balanced(split(skew(m))) /\ split(skew(m)).level \in {n, n + 1}
  /\ RightLevel(split(skew(m))) < n + 1

LEMMA Straighten ==
  ASSUME Heights = Nat, NEW m, NEW n, NEW a, NEW b, Made(m, n, a, b),
         Balanced(a), Balanced(b), a.level \in {n - 1, n}, RightLevel(a) < n, b.level = n
  PROVE  Straightened(n, m)
<1>1. a \in Tree /\ b \in Tree /\ n \in Nat \ {0} /\ m.level = n
  BY DEF Made
<1>2. RightLevel(b) <= n
  BY <1>1, RightLevelBound
<1>3. CASE a.level # n
  <2>1. skew(m) = m
    BY <1>3, NoSkew
  <2>2. CASE RightLevel(b) # n
    <3>1. split(m) = m
      BY <2>2, NoSplit
    <3>2. Balanced(m) /\ RightLevel(m) = n
      BY <1>1, <1>2, <1>3, <2>2 DEF Made, LevelFits
    <3> QED BY <1>1, <2>1, <3>1, <3>2 DEF Straightened, Made
  <2>3. CASE RightLevel(b) = n
    <3>1. PICK b1, b2 : Made(b, n, b1, b2)
      BY <1>1, NodeOfLevel
    <3>2. Balanced(b1) /\ Balanced(b2) /\ LevelFits(n, b1, b2) /\ b2.level = n /\ b1 \in Tree /\ b2 \in Tree
      BY <2>3, <3>1 DEF Made
    <3>3. SplitMakes(m, n, n, a, b1, b2)
      BY <3>1, <3>2, SplitMade
    <3>4. PICK q : Made(q, n, a, b1) /\ Made(split(m), n + 1, q, b2)
      BY <3>3 DEF SplitMakes
    <3>5. RightLevel(b1) <= n - 1 /\ RightLevel(b2) <= n
      BY <3>2, RightLevelBound DEF LevelFits
    <3>6. Balanced(q) /\ q.level = n
      BY <1>1, <1>3, <3>2, <3>4, <3>5 DEF Made, LevelFits
    <3>7. Balanced(split(m))
      BY <1>1, <3>2, <3>4, <3>5, <3>6 DEF Made, LevelFits
    <3>8. split(m).level = n + 1 /\ RightLevel(split(m)) = n
      BY <3>2, <3>4 DEF Made
    <3> QED BY <1>1, <2>1, <3>7, <3>8 DEF Straightened, Made
  <2> QED BY <2>2, <2>3
<1>4. CASE a.level = n
  <2>1. PICK c, d : Made(a, n, c, d)
    BY <1>1, <1>4, NodeOfLevel
  <2>2. Balanced(c) /\ Balanced(d) /\ LevelFits(n, c, d) /\ d.level = n - 1 /\ d \in Tree
    BY <2>1 DEF Made, LevelFits
  <2>3. SkewMakes(m, n, c, d, b)
    BY <2>1, SkewMade
  <2>4. PICK m2 : Made(m2, n, d, b) /\ Made(skew(m), n, c, m2)
    BY <2>3 DEF SkewMakes
  <2>5. SplitMakes(skew(m), n, n, c, d, b)
    BY <2>4, SplitMade
  <2>6. PICK q : Made(q, n, c, d) /\ Made(split(skew(m)), n + 1, q, b)
    BY <2>5 DEF SplitMakes
  <2>7. RightLevel(d) <= n - 1
    BY <2>2, RightLevelBound
  <2>8. Balanced(q) /\ q.level = n
    BY <1>1, <2>2, <2>6, <2>7 DEF Made, LevelFits
  <2>9. Balanced(split(skew(m)))
    BY <1>1, <1>2, <2>6, <2>8 DEF Made, LevelFits
  <2>10. split(skew(m)).level = n + 1 /\ RightLevel(split(skew(m))) = n
    BY <2>6 DEF Made
  <2>11. skew(m) \in Tree /\ skew(m).level = n
    BY <2>4 DEF Made
  <2> QED BY <1>1, <2>9, <2>10, <2>11 DEF Straightened
<1> QED BY <1>3, <1>4

\* A right child on the node's level, with a left child there.
Raised(n, u) == u \in Tree /\ Balanced(u) /\ u.level = n + 1

LEMMA RotateLoweredRight ==
  ASSUME Heights = Nat, NEW t, NEW n, NEW l, NEW r, NEW a, NEW b,
         Made(t, n, l, r), Made(r, n, a, b), Balanced(l), Balanced(a), Balanced(b),
         l.level = n - 1, a.level = n, b.level = n
  PROVE  Raised(n, rotate_right(t))
<1>1. Typed(t, n, l, r) /\ Typed(r, n, a, b)
  BY MadeTypes
<1>2. PICK a1, a2 : Made(a, n, a1, a2)
  BY <1>1, NodeOfLevel DEF Typed
<1>3. Balanced(a1) /\ Balanced(a2) /\ LevelFits(n, a1, a2) /\ a1 \in Tree
  BY <1>2 DEF Made
<1>4. RightLevel(a1) <= n - 1
  BY <1>3, RightLevelBound DEF LevelFits
<1>5. SkewMakes(r, n, a1, a2, b)
  BY <1>2, SkewMade
<1>6. PICK m : Made(m, n, a2, b) /\ Made(skew(r), n, a1, m)
  BY <1>5 DEF SkewMakes
<1> PICK t3 : t3 = skew_right(t)
  OBVIOUS
<1>7. Made(t3, n, l, skew(r))
  BY RotateRightMade
<1>8. SkewRightRightMakes(t3, n, n, l, a1, m)
  BY <1>6, <1>7, SkewRightRightMade
<1> PICK t4 : t4 = skew_right_right(t3)
  OBVIOUS
<1>9. a2.level \in {n - 1, n} /\ RightLevel(a2) < n
  BY <1>3 DEF LevelFits
<1>10. Straightened(n, m)
  BY <1>3, <1>6, <1>9, Straighten
<1> PICK x : x = skew(m)
  OBVIOUS
<1>11. /\ x \in Tree /\ x.level = n
       /\ Balanced(split(x)) /\ split(x).level \in {n, n + 1} /\ RightLevel(split(x)) < n + 1
  BY <1>10 DEF Straightened
<1>12. PICK s : Made(s, n, a1, x) /\ Made(t4, n, l, s)
  BY <1>8 DEF SkewRightRightMakes
<1> PICK t5 : t5 = split(t4)
  OBVIOUS
<1>13. SplitMakes(t4, n, n, l, a1, x)
  BY <1>11, <1>12, SplitMade
<1>14. PICK p : Made(p, n, l, a1) /\ Made(t5, n + 1, p, x)
  BY <1>13 DEF SplitMakes
<1> PICK u : u = split_right(t5)
  OBVIOUS
<1>15. Made(u, n + 1, p, split(x))
  BY <1>14, RotateRightMade
<1>16. Balanced(p) /\ p.level = n /\ n \in Nat \ {0}
  BY <1>1, <1>3, <1>4, <1>14 DEF Made, LevelFits, Typed
<1>17. LevelFits(n + 1, p, split(x))
  BY <1>11, <1>16 DEF LevelFits
<1>18. Balanced(u) /\ u.level = n + 1 /\ u \in Tree
  BY <1>11, <1>15, <1>16, <1>17 DEF Made
<1> QED BY <1>18 DEF rotate_right, Raised

\* A right child on the node's level, with a left child there and a low right one.
LEMMA RotateSkewedRight ==
  ASSUME Heights = Nat, NEW t, NEW n, NEW l, NEW m, NEW b, NEW r,
         Made(t, n, l, m), Made(m, n, b, r), Balanced(l), Balanced(b), Balanced(r),
         l.level = n - 1, b.level = n, RightLevel(b) < n, r.level = n - 1
  PROVE  Raised(n, rotate_right(t)) /\ RightLevel(rotate_right(t)) = n
<1>1. Typed(t, n, l, m) /\ Typed(m, n, b, r)
  BY MadeTypes
<1>2. PICK c, d : Made(b, n, c, d)
  BY <1>1, NodeOfLevel DEF Typed
<1>3. Balanced(c) /\ Balanced(d) /\ LevelFits(n, c, d) /\ d.level = n - 1 /\ c \in Tree
  BY <1>2 DEF Made, LevelFits
<1>4. RightLevel(c) <= n - 1 /\ RightLevel(r) <= n - 1
  BY <1>1, <1>3, RightLevelBound DEF LevelFits, Typed
<1>5. SkewMakes(m, n, c, d, r)
  BY <1>2, SkewMade
<1>6. PICK m2 : Made(m2, n, d, r) /\ Made(skew(m), n, c, m2)
  BY <1>5 DEF SkewMakes
<1>7. Balanced(m2) /\ m2.level = n /\ m2 \in Tree /\ RightLevel(m2) = n - 1
  BY <1>1, <1>3, <1>4, <1>6 DEF Made, LevelFits, Typed
<1>8. skew(m2) = m2 /\ split(m2) = m2
  BY <1>7, BalancedStays
<1> PICK t3 : t3 = skew_right(t)
  OBVIOUS
<1>9. Made(t3, n, l, skew(m))
  BY RotateRightMade
<1>10. SkewRightRightMakes(t3, n, n, l, c, m2)
  BY <1>6, <1>9, SkewRightRightMade
<1> PICK t4 : t4 = skew_right_right(t3)
  OBVIOUS
<1>11. PICK s : Made(s, n, c, m2) /\ Made(t4, n, l, s)
  BY <1>8, <1>10 DEF SkewRightRightMakes
<1> PICK t5 : t5 = split(t4)
  OBVIOUS
<1>12. SplitMakes(t4, n, n, l, c, m2)
  BY <1>7, <1>11, SplitMade
<1>13. PICK p : Made(p, n, l, c) /\ Made(t5, n + 1, p, m2)
  BY <1>12 DEF SplitMakes
<1> PICK u : u = split_right(t5)
  OBVIOUS
<1>14. Made(u, n + 1, p, m2)
  BY <1>8, <1>13, RotateRightMade
<1>15. Balanced(p) /\ p.level = n /\ n \in Nat \ {0}
  BY <1>1, <1>3, <1>4, <1>13 DEF Made, LevelFits, Typed
<1>16. LevelFits(n + 1, p, m2)
  BY <1>7, <1>15 DEF LevelFits
<1>17. Balanced(u) /\ u.level = n + 1 /\ u \in Tree /\ RightLevel(u) = n
  BY <1>7, <1>14, <1>15, <1>16 DEF Made
<1> QED BY <1>17 DEF rotate_right, Raised

\* The node's level stays or falls by one, and with it that of its right child
\* does not get greater than it was.
Fixed(v, r, u) ==
  /\ u \in Tree /\ Balanced(u) /\ u.level \in {v - 1, v}
  /\ u.level = v /\ r.level < v => RightLevel(u) < v

LEMMA FixupIs ==
  ASSUME NEW t
  PROVE  delete_fixup(t) = rotate_right(skew(decrease_level(t)))
BY DEF delete_fixup, rotate_right

LEMMA FixupOfBalanced ==
  ASSUME Heights = Nat, NEW t, NEW v, NEW l, NEW r, Made(t, v, l, r), Balanced(t)
  PROVE  Fixed(v, r, delete_fixup(t))
<1>1. /\ Balanced(l) /\ Balanced(r) /\ LevelFits(v, l, r)
      /\ t \in Tree /\ v \in Nat \ {0} /\ l.level \in Nat /\ r.level \in Nat
  BY DEF Made
<1>2. LevelOver(t) = 1 + (IF l.level <= r.level THEN l.level ELSE r.level)
  BY LevelOverIs
<1>3. decrease_level(t) = t
  BY <1>1, <1>2, NotDecreased DEF LevelFits
<1>4. skew(t) = t
  BY <1>1, BalancedStays
<1>5. l.level = v - 1 /\ r.level \in {v - 1, v}
  BY <1>1 DEF LevelFits
<1> PICK u : u = rotate_right(t)
  OBVIOUS
<1>6. RotatedFits(v, r, u)
  BY <1>1, <1>5, RotateBalancedRight
<1>7. Fixed(v, r, u)
  BY <1>1, <1>6 DEF RotatedFits, Fixed, LevelFits
<1> QED BY <1>3, <1>4, <1>7, FixupIs

LEMMA FixupOfLowLeft ==
  ASSUME Heights = Nat, NEW t, NEW v, NEW l, NEW r, Made(t, v, l, r),
         Balanced(l), Balanced(r),
         l.level = v - 2, r.level \in {v - 1, v}, RightLevel(r) < v
  PROVE  Fixed(v, r, delete_fixup(t))
<1>1. Typed(t, v, l, r) /\ l.level \in Nat /\ r.level \in Nat
  BY MadeTypes DEF Made
<1> PICK n \in Nat \ {0} : n = v - 1
  BY <1>1 DEF Typed
<1>2. LevelOver(t) = n
  <2>1. LevelOver(t) = 1 + (IF l.level <= r.level THEN l.level ELSE r.level)
    BY LevelOverIs
  <2> QED BY <1>1, <2>1 DEF Typed
<1>3. HasLeft(t) \/ HasRight(t)
  <2>1. r # NIL
    BY <1>1, LevelTypes DEF Typed
  <2> QED BY <2>1 DEF Made, HasRight, IsNode
<1> PICK t1 : t1 = decrease_level(t)
  OBVIOUS
<1> PICK x : x = Lowered(r, n)
  OBVIOUS
<1>4. Made(t1, n, l, x)
  BY <1>1, <1>2, <1>3, DecreaseMade DEF Typed
<1>5. skew(t1) = t1
  <2>1. l.level # n
    BY <1>1 DEF Typed
  <2> QED BY <1>4, <2>1, NoSkew
<1> PICK u : u = rotate_right(t1)
  OBVIOUS
<1>6. CASE r.level = n
  <2>1. x = r
    BY <1>1, <1>6, NotLowered DEF Typed
  <2>2. l.level = n - 1 /\ x.level \in {n - 1, n}
    BY <1>1, <1>6, <2>1 DEF Typed
  <2>3. RotatedFits(n, x, u)
    BY <1>4, <2>1, <2>2, RotateBalancedRight
  <2>4. Fixed(v, r, u)
    BY <1>1, <2>3 DEF RotatedFits, Fixed, Typed
  <2> QED BY <1>5, <2>4, FixupIs
<1>7. CASE r.level # n
  <2>1. r.level = v /\ v = n + 1
    BY <1>1, <1>7 DEF Typed
  <2>2. PICK a, b : Made(r, v, a, b)
    BY <1>1, <2>1, NodeOfLevel DEF Typed
  <2>3. Balanced(a) /\ Balanced(b) /\ LevelFits(v, a, b) /\ b.level < v
    BY <2>2 DEF Made
  <2>4. a.level = n /\ b.level = n
    BY <2>1, <2>3 DEF LevelFits
  <2>5. Made(x, n, a, b)
    BY <2>1, <2>2, LoweredMade
  <2>6. l.level = n - 1
    BY <1>1 DEF Typed
  <2>7. Raised(n, u)
    BY <1>4, <2>3, <2>4, <2>5, <2>6, RotateLoweredRight
  <2>8. Fixed(v, r, u)
    BY <2>1, <2>7 DEF Raised, Fixed
  <2> QED BY <1>5, <2>8, FixupIs
<1> QED BY <1>6, <1>7

LEMMA FixupOfLowRight ==
  ASSUME Heights = Nat, NEW t, NEW v, NEW l, NEW r, Made(t, v, l, r),
         Balanced(l), Balanced(r),
         l.level = v - 1, r.level = v - 2
  PROVE  Fixed(v, r, delete_fixup(t))
<1>1. Typed(t, v, l, r) /\ l.level \in Nat /\ r.level \in Nat
  BY MadeTypes DEF Made
<1> PICK n \in Nat \ {0} : n = v - 1
  BY <1>1 DEF Typed
<1>2. LevelOver(t) = n
  <2>1. LevelOver(t) = 1 + (IF l.level <= r.level THEN l.level ELSE r.level)
    BY LevelOverIs
  <2> QED BY <1>1, <2>1 DEF Typed
<1>3. HasLeft(t) \/ HasRight(t)
  <2>1. l # NIL
    BY <1>1, LevelTypes DEF Typed
  <2> QED BY <2>1 DEF Made, HasLeft, IsNode
<1> PICK t1 : t1 = decrease_level(t)
  OBVIOUS
<1>4. Lowered(r, n) = r
  BY <1>1, NotLowered DEF Typed
<1>5. Made(t1, n, l, r)
  BY <1>1, <1>2, <1>3, <1>4, DecreaseMade DEF Typed
<1>6. PICK a, b : Made(l, n, a, b)
  BY <1>1, NodeOfLevel DEF Typed
<1>7. Balanced(a) /\ Balanced(b) /\ LevelFits(n, a, b)
  BY <1>6 DEF Made
<1>8. SkewMakes(t1, n, a, b, r)
  BY <1>5, <1>6, SkewMade
<1> PICK t2 : t2 = skew(t1)
  OBVIOUS
<1>9. PICK m : Made(m, n, b, r) /\ Made(t2, n, a, m)
  BY <1>8 DEF SkewMakes
<1> PICK u : u = rotate_right(t2)
  OBVIOUS
<1>10. a.level = n - 1 /\ b.level \in {n - 1, n} /\ RightLevel(b) < n /\ r.level = n - 1
  BY <1>1, <1>7 DEF LevelFits, Typed
<1>11. CASE b.level = n
  <2>1. Raised(n, u) /\ RightLevel(u) = n
    BY <1>7, <1>9, <1>10, <1>11, RotateSkewedRight
  <2>2. Fixed(v, r, u)
    BY <1>1, <2>1 DEF Raised, Fixed, Typed
  <2> QED BY <2>2, FixupIs
<1>12. CASE b.level = n - 1
  <2>1. RightLevel(r) <= n - 1
    BY <1>1, <1>10, RightLevelBound DEF Typed
  <2>2. Balanced(m) /\ m.level = n /\ RightLevel(m) = n - 1
    BY <1>7, <1>9, <1>10, <1>12, <2>1 DEF Made, LevelFits
  <2>3. RotatedFits(n, m, u)
    BY <1>7, <1>9, <1>10, <2>2, RotateBalancedRight
  <2>4. Fixed(v, r, u)
    BY <1>1, <2>3 DEF RotatedFits, Fixed, Typed
  <2> QED BY <2>4, FixupIs
<1> QED BY <1>10, <1>11, <1>12

-----------------------------------------------------------------------------
(* Insertions and deletions keep a tree balanced.                          *)

\* The tree u is what a deletion makes of t, or t itself.
Shrunk(t, u) ==
  /\ u \in Tree /\ Balanced(u) /\ u.level \in {t.level - 1, t.level}
  /\ u.level = t.level /\ RightLevel(t) < t.level => RightLevel(u) < u.level

LEMMA LeftShrinks ==
  ASSUME Heights = Nat, NEW t, NEW w, NEW v, NEW l, NEW r, NEW x,
         Made(t, v, l, r), Made(w, v, x, r), Balanced(t), Shrunk(l, x)
  PROVE  Shrunk(t, delete_fixup(w))
<1>1. /\ Balanced(l) /\ Balanced(r) /\ LevelFits(v, l, r) /\ v \in Nat \ {0}
      /\ t.level = v /\ RightLevel(t) = r.level
  BY DEF Made
<1>2. Balanced(x) /\ x.level \in {v - 2, v - 1}
  BY <1>1 DEF Shrunk, LevelFits
<1>3. Fixed(v, r, delete_fixup(w))
  <2>1. CASE x.level = v - 1
    <3>1. Balanced(w)
      BY <1>1, <1>2, <2>1 DEF Made, LevelFits
    <3> QED BY <3>1, FixupOfBalanced
  <2>2. CASE x.level = v - 2
    <3>1. r.level \in {v - 1, v} /\ RightLevel(r) < v
      BY <1>1 DEF LevelFits
    <3> QED BY <1>1, <1>2, <2>2, <3>1, FixupOfLowLeft
  <2> QED BY <1>2, <2>1, <2>2
<1> QED BY <1>1, <1>3 DEF Fixed, Shrunk

LEMMA RightShrinks ==
  ASSUME Heights = Nat, NEW t, NEW w, NEW v, NEW l, NEW r, NEW y,
         Made(t, v, l, r), Made(w, v, l, y), Balanced(t), Shrunk(r, y)
  PROVE  Shrunk(t, delete_fixup(w))
<1>1. /\ Balanced(l) /\ Balanced(r) /\ LevelFits(v, l, r) /\ v \in Nat \ {0}
      /\ t.level = v /\ RightLevel(t) = r.level
  BY DEF Made
<1>2. Balanced(y) /\ y \in Tree /\ y.level \in {r.level - 1, r.level}
  BY DEF Shrunk
<1>3. RightLevel(y) <= y.level /\ y.level \in Nat /\ RightLevel(y) \in Nat
  BY <1>2, RightLevelBound, LevelTypes
<1>4. y.level \in {v - 1, v} => RightLevel(y) < v
  <2>1. CASE y.level = v
    <3>1. r.level = v /\ RightLevel(r) < r.level
      BY <1>1, <1>2, <2>1 DEF LevelFits
    <3>2. RightLevel(y) < y.level
      BY <2>1, <3>1 DEF Shrunk
    <3> QED BY <2>1, <3>2
  <2>2. CASE y.level = v - 1
    BY <1>1, <1>3, <2>2
  <2> QED BY <2>1, <2>2
<1>5. Fixed(v, y, delete_fixup(w))
  <2>1. CASE y.level \in {v - 1, v}
    <3>1. Balanced(w)
      BY <1>1, <1>2, <1>4, <2>1 DEF Made, LevelFits
    <3> QED BY <3>1, FixupOfBalanced
  <2>2. CASE y.level = v - 2
    <3>1. l.level = v - 1
      BY <1>1 DEF LevelFits
    <3> QED BY <1>1, <1>2, <2>2, <3>1, FixupOfLowRight
  <2>3. y.level \in {v - 2, v - 1, v}
    BY <1>1, <1>2 DEF LevelFits
  <2> QED BY <2>1, <2>2, <2>3
<1>6. y.level <= r.level
  BY <1>1, <1>2, <1>3 DEF LevelFits
<1> QED BY <1>1, <1>3, <1>5, <1>6 DEF Fixed, Shrunk, LevelFits

LEMMA NILShrinks ==
  ASSUME Heights = Nat
  PROVE  Shrunk(NIL, NIL)
BY NILIsBalanced, NILIsATree DEF Shrunk

LEMMA DeleteFirstShrinks ==
  ASSUME Heights = Nat, NEW t \in Tree, Balanced(t)
  PROVE  Shrunk(t, delete_first0[t])
<1> DEFINE P == {u \in Tree : Balanced(u) => Shrunk(u, delete_first0[u])}
<1>1. NIL \in P
  <2>1. delete_first0[NIL] = NIL
    BY DeleteFirstDef, NILIsATree DEF DeleteFirstEquation, DeleteFirstBody, IsNode
  <2> QED BY <2>1, NILIsATree, NILShrinks
<1>2. ASSUME NEW u \in Tree, u # NIL, u.left \in P, u.right \in P
      PROVE  u \in P
  <2> SUFFICES ASSUME Balanced(u) PROVE Shrunk(u, delete_first0[u])
    OBVIOUS
  <2> PICK v, l, r : v = u.level /\ l = u.left /\ r = u.right
    OBVIOUS
  <2>1. Made(u, v, l, r)
    BY <1>2, NodeMade
  <2>2. /\ Balanced(l) /\ Balanced(r) /\ LevelFits(v, l, r) /\ l \in Tree /\ r \in Tree
        /\ v \in Nat \ {0} /\ RightLevel(u) = r.level
    BY <2>1 DEF Made
  <2>3. delete_first0[u] = DeleteFirstBody(u, delete_first0[l], delete_first0[r])
    BY DeleteFirstDef DEF DeleteFirstEquation
  <2>4. CASE ~HasLeft(u)
    <3>1. l.level = 0
      BY <1>2, <2>4, NILIsBalanced DEF HasLeft, IsNode
    <3>2. Shrunk(u, r)
      BY <2>2, <3>1 DEF Shrunk, LevelFits
    <3> QED BY <1>2, <2>3, <2>4, <3>2 DEF DeleteFirstBody, IsNode
  <2>5. CASE HasLeft(u)
    <3> PICK x \in Tree : x = delete_first0[l]
      BY <2>2, DeleteFirstDef
    <3> PICK w : w = [u EXCEPT !.left = x]
      OBVIOUS
    <3>1. w = Branch(u.key, v, x, r)
      BY <1>2, WithLeft
    <3>2. Made(w, v, x, r)
      BY <1>2, <2>2, <3>1, BranchMade, KeyType
    <3>3. Shrunk(l, x)
      BY <1>2, <2>2
    <3>4. Shrunk(u, delete_fixup(w))
      BY <2>1, <3>2, <3>3, LeftShrinks
    <3> QED BY <1>2, <2>3, <2>5, <3>4 DEF DeleteFirstBody, IsNode
  <2> QED BY <2>4, <2>5
<1> HIDE DEF P
<1>3. Tree \subseteq P
  BY <1>1, <1>2, TreeInduction, Zenon
<1> QED BY <1>3 DEF P

LEMMA DeleteLastShrinks ==
  ASSUME Heights = Nat, NEW t \in Tree, Balanced(t)
  PROVE  Shrunk(t, delete_last0[t])
<1> DEFINE P == {u \in Tree : Balanced(u) => Shrunk(u, delete_last0[u])}
<1>1. NIL \in P
  <2>1. delete_last0[NIL] = NIL
    BY DeleteLastDef, NILIsATree DEF DeleteLastEquation, DeleteLastBody, IsNode
  <2> QED BY <2>1, NILIsATree, NILShrinks
<1>2. ASSUME NEW u \in Tree, u # NIL, u.left \in P, u.right \in P
      PROVE  u \in P
  <2> SUFFICES ASSUME Balanced(u) PROVE Shrunk(u, delete_last0[u])
    OBVIOUS
  <2> PICK v, l, r : v = u.level /\ l = u.left /\ r = u.right
    OBVIOUS
  <2>1. Made(u, v, l, r)
    BY <1>2, NodeMade
  <2>2. /\ Balanced(l) /\ Balanced(r) /\ LevelFits(v, l, r) /\ l \in Tree /\ r \in Tree
        /\ v \in Nat \ {0} /\ RightLevel(u) = r.level
    BY <2>1 DEF Made
  <2>3. delete_last0[u] = DeleteLastBody(u, delete_last0[l], delete_last0[r])
    BY DeleteLastDef DEF DeleteLastEquation
  <2>4. CASE ~HasRight(u)
    <3>1. r.level = 0
      BY <1>2, <2>4, NILIsBalanced DEF HasRight, IsNode
    <3>2. Shrunk(u, l)
      BY <2>2, <3>1 DEF Shrunk, LevelFits
    <3> QED BY <1>2, <2>3, <2>4, <3>2 DEF DeleteLastBody, IsNode
  <2>5. CASE HasRight(u)
    <3> PICK x \in Tree : x = delete_last0[r]
      BY <2>2, DeleteLastDef
    <3> PICK w : w = [u EXCEPT !.right = x]
      OBVIOUS
    <3>1. w = Branch(u.key, v, l, x)
      BY <1>2, WithRight
    <3>2. Made(w, v, l, x)
      BY <1>2, <2>2, <3>1, BranchMade, KeyType
    <3>3. Shrunk(r, x)
      BY <1>2, <2>2
    <3>4. Shrunk(u, delete_fixup(w))
      BY <2>1, <3>2, <3>3, RightShrinks
    <3> QED BY <1>2, <2>3, <2>5, <3>4 DEF DeleteLastBody, IsNode
  <2> QED BY <2>4, <2>5
<1> HIDE DEF P
<1>3. Tree \subseteq P
  BY <1>1, <1>2, TreeInduction, Zenon
<1> QED BY <1>3 DEF P

LEMMA ReplaceShrinks ==
  ASSUME Heights = Nat, NEW t \in Tree, HasLeft(t) \/ HasRight(t), Balanced(t)
  PROVE  Shrunk(t, delete_fixup(Replace(t)))
<1>1. t # NIL
  BY DEF HasLeft, HasRight, IsNode
<1> PICK v, l, r : v = t.level /\ l = t.left /\ r = t.right
  OBVIOUS
<1>2. Made(t, v, l, r)
  BY <1>1, NodeMade
<1>3. Balanced(l) /\ Balanced(r) /\ l \in Tree /\ r \in Tree /\ v \in Nat \ {0}
  BY <1>2 DEF Made
<1> PICK w : w = Replace(t)
  OBVIOUS
<1>4. CASE HasLeft(t)
  <2> PICK x \in Tree : x = delete_last0[l]
    BY <1>3, DeleteLastDef
  <2> PICK k \in Int : k = last[l]
    BY <1>3, LastDef
  <2>1. w = Branch(k, v, x, r)
    BY <1>4, ReplaceType
  <2>2. Made(w, v, x, r)
    BY <1>3, <2>1, BranchMade
  <2>3. Shrunk(l, x)
    BY <1>3, DeleteLastShrinks
  <2> QED BY <1>2, <2>2, <2>3, LeftShrinks
<1>5. CASE ~HasLeft(t)
  <2> PICK y \in Tree : y = delete_first0[r]
    BY <1>3, DeleteFirstDef
  <2> PICK k \in Int : k = first[r]
    BY <1>3, FirstDef
  <2>1. w = Branch(k, v, l, y)
    BY <1>5, ReplaceType
  <2>2. Made(w, v, l, y)
    BY <1>3, <2>1, BranchMade
  <2>3. Shrunk(r, y)
    BY <1>3, DeleteFirstShrinks
  <2> QED BY <1>2, <2>2, <2>3, RightShrinks
<1> QED BY <1>4, <1>5

LEMMA DeleteShrinks ==
  ASSUME Heights = Nat, NEW t \in Tree, NEW k \in Int, Balanced(t)
  PROVE  Shrunk(t, delete0[t][k])
<1> DEFINE P == {u \in Tree : Balanced(u) => Shrunk(u, delete0[u][k])}
<1>1. \A u \in Tree : delete0[u][k] = DeleteBody(u, delete0[u.left][k], delete0[u.right][k], k)
  BY DeleteDef DEF DeleteEquation
<1>2. NIL \in P
  <2>1. delete0[NIL][k] = NIL
    BY <1>1, NILIsATree DEF DeleteBody, IsNode
  <2> QED BY <2>1, NILIsATree, NILShrinks
<1>3. ASSUME NEW u \in Tree, u # NIL, u.left \in P, u.right \in P
      PROVE  u \in P
  <2> SUFFICES ASSUME Balanced(u) PROVE Shrunk(u, delete0[u][k])
    OBVIOUS
  <2> PICK v, l, r : v = u.level /\ l = u.left /\ r = u.right
    OBVIOUS
  <2>1. Made(u, v, l, r)
    BY <1>3, NodeMade
  <2>2. /\ Balanced(l) /\ Balanced(r) /\ LevelFits(v, l, r) /\ l \in Tree /\ r \in Tree
        /\ v \in Nat \ {0} /\ RightLevel(u) = r.level /\ u.level = v
    BY <2>1 DEF Made
  <2> PICK j \in Int : j = u.key
    BY KeyType
  <2> PICK x \in Tree : x = delete0[l][k]
    BY <2>2, DeleteDef
  <2> PICK y \in Tree : y = delete0[r][k]
    BY <2>2, DeleteDef
  <2>3. delete0[u][k] = DeleteBody(u, x, y, k)
    BY <1>1
  <2>4. CASE k < j
    <3> PICK w : w = [u EXCEPT !.left = x]
      OBVIOUS
    <3>1. w = Branch(j, v, x, r)
      BY <1>3, WithLeft
    <3>2. Made(w, v, x, r)
      BY <2>2, <3>1, BranchMade
    <3>3. Shrunk(l, x)
      BY <1>3, <2>2
    <3>4. Shrunk(u, delete_fixup(w))
      BY <2>1, <3>2, <3>3, LeftShrinks
    <3> QED BY <1>3, <2>3, <2>4, <3>4 DEF DeleteBody, IsNode
  <2>5. CASE k > j
    <3> PICK w : w = [u EXCEPT !.right = y]
      OBVIOUS
    <3>1. w = Branch(j, v, l, y)
      BY <1>3, WithRight
    <3>2. Made(w, v, l, y)
      BY <2>2, <3>1, BranchMade
    <3>3. Shrunk(r, y)
      BY <1>3, <2>2
    <3>4. Shrunk(u, delete_fixup(w))
      BY <2>1, <3>2, <3>3, RightShrinks
    <3> QED BY <1>3, <2>3, <2>5, <3>4 DEF DeleteBody, IsNode
  <2>6. CASE k = j /\ (HasLeft(u) \/ HasRight(u))
    <3>1. Shrunk(u, delete_fixup(Replace(u)))
      BY <2>6, ReplaceShrinks
    <3> QED BY <1>3, <2>3, <2>6, <3>1 DEF DeleteBody, IsNode
  <2>7. CASE k = j /\ ~HasLeft(u) /\ ~HasRight(u)
    <3>1. l.level = 0
      BY <1>3, <2>7, NILIsBalanced DEF HasLeft, IsNode
    <3>2. Shrunk(u, NIL)
      BY <2>2, <3>1, NILIsBalanced, NILIsATree DEF Shrunk, LevelFits
    <3> QED BY <1>3, <2>3, <2>7, <3>2 DEF DeleteBody, IsNode
  <2> QED BY <2>4, <2>5, <2>6, <2>7
<1> HIDE DEF P
<1>4. Tree \subseteq P
  BY <1>2, <1>3, TreeInduction, Zenon
<1> QED BY <1>4 DEF P

\* The tree u is what an insertion makes of t: a level higher only if the right
\* child was on the root's level, and it is not then.
Grown(t, u) ==
  /\ u \in Tree /\ Balanced(u) /\ u.level > 0 /\ u.level \in {t.level, t.level + 1}
  /\ u.level = t.level + 1 => RightLevel(u) < u.level /\ RightLevel(t) = t.level

LEMMA LeftGrows ==
  ASSUME Heights = Nat, NEW t, NEW w, NEW v, NEW l, NEW r, NEW x,
         Made(t, v, l, r), Made(w, v, x, r), Balanced(t), Grown(l, x)
  PROVE  Grown(t, split(skew(w)))
<1>1. /\ Balanced(l) /\ Balanced(r) /\ LevelFits(v, l, r) /\ v \in Nat \ {0}
      /\ t.level = v /\ RightLevel(t) = r.level /\ r \in Tree
  BY DEF Made
<1>2. Balanced(x) /\ x \in Tree /\ x.level \in {v - 1, v} /\ (x.level = v => RightLevel(x) < v)
  <2>1. Balanced(x) /\ x \in Tree /\ x.level \in {l.level, l.level + 1} /\ l.level = v - 1
    BY <1>1 DEF Grown, LevelFits
  <2>2. CASE x.level = v
    <3>1. x.level = l.level + 1
      BY <1>1, <2>1, <2>2
    <3>2. RightLevel(x) < x.level
      BY <3>1 DEF Grown
    <3> QED BY <1>1, <2>1, <2>2, <3>2
  <2>3. CASE x.level # v
    BY <1>1, <2>1, <2>3
  <2> QED BY <2>2, <2>3
<1>3. CASE x.level = v - 1
  <2>1. Balanced(w) /\ w \in Tree /\ w.level = v
    BY <1>1, <1>2, <1>3 DEF Made, LevelFits
  <2>2. split(skew(w)) = w
    BY <2>1, BalancedStays
  <2> QED BY <1>1, <2>1, <2>2 DEF Grown
<1>4. CASE x.level = v
  <2>1. PICK a, b : Made(x, v, a, b)
    BY <1>1, <1>2, <1>4, NodeOfLevel
  <2>2. Balanced(a) /\ Balanced(b) /\ LevelFits(v, a, b) /\ b.level = v - 1 /\ b \in Tree
    BY <1>1, <1>2, <1>4, <2>1 DEF Made, LevelFits
  <2>3. RightLevel(b) <= v - 1
    BY <2>2, RightLevelBound
  <2>4. SkewMakes(w, v, a, b, r)
    BY <2>1, SkewMade
  <2> PICK y : y = skew(w)
    OBVIOUS
  <2>5. PICK m : Made(m, v, b, r) /\ Made(y, v, a, m)
    BY <2>4 DEF SkewMakes
  <2>6. Balanced(m) /\ m.level = v /\ RightLevel(m) = r.level
    BY <1>1, <2>2, <2>5 DEF Made, LevelFits
  <2>7. CASE r.level # v
    <3>1. split(y) = y
      BY <2>5, <2>6, <2>7, NoSplit
    <3>2. Balanced(y) /\ y \in Tree /\ y.level = v
      BY <1>1, <2>2, <2>5, <2>6, <2>7 DEF Made, LevelFits
    <3> QED BY <1>1, <3>1, <3>2 DEF Grown
  <2>8. CASE r.level = v
    <3>1. SplitMakes(y, v, v, a, b, r)
      BY <2>5, <2>8, SplitMade
    <3> PICK u : u = split(y)
      OBVIOUS
    <3>2. PICK p : Made(p, v, a, b) /\ Made(u, v + 1, p, r)
      BY <3>1 DEF SplitMakes
    <3>3. Balanced(p) /\ p.level = v
      BY <1>1, <2>2, <2>3, <3>2 DEF Made, LevelFits
    <3>4. LevelFits(v + 1, p, r)
      BY <1>1, <2>8, <3>2, <3>3 DEF Made, LevelFits
    <3>5. Balanced(u) /\ u \in Tree /\ u.level = v + 1 /\ RightLevel(u) = v
      BY <1>1, <2>8, <3>2, <3>3, <3>4 DEF Made
    <3>6. Grown(t, u)
      BY <1>1, <2>8, <3>5 DEF Grown
    <3> QED BY <3>6
  <2> QED BY <2>7, <2>8
<1> QED BY <1>2, <1>3, <1>4

LEMMA RightGrows ==
  ASSUME Heights = Nat, NEW t, NEW w, NEW v, NEW l, NEW r, NEW y,
         Made(t, v, l, r), Made(w, v, l, y), Balanced(t), Grown(r, y)
  PROVE  Grown(t, split(skew(w)))
<1>1. /\ Balanced(l) /\ Balanced(r) /\ LevelFits(v, l, r) /\ v \in Nat \ {0}
      /\ t.level = v /\ RightLevel(t) = r.level /\ l.level = v - 1
  BY DEF Made, LevelFits
<1>2. Balanced(y) /\ y \in Tree /\ y.level \in {v - 1, v} /\ (r.level = v - 1 => RightLevel(y) < v)
  <2>1. Balanced(y) /\ y \in Tree /\ y.level \in {r.level, r.level + 1}
    BY DEF Grown
  <2>2. RightLevel(y) <= y.level /\ RightLevel(y) \in Nat
    BY <2>1, RightLevelBound, LevelTypes
  <2>3. CASE y.level = r.level + 1
    <3>1. RightLevel(y) < y.level /\ RightLevel(r) = r.level
      BY <2>3 DEF Grown
    <3>2. r.level = v - 1
      BY <1>1, <3>1 DEF LevelFits
    <3> QED BY <1>1, <2>1, <2>3, <3>1, <3>2
  <2>4. CASE y.level = r.level
    BY <1>1, <2>1, <2>2, <2>4 DEF LevelFits
  <2> QED BY <2>1, <2>3, <2>4
<1>3. RightLevel(y) <= y.level /\ RightLevel(y) \in Nat
  BY <1>2, RightLevelBound, LevelTypes
<1>4. skew(w) = w
  BY <1>1, NoSkew
<1>5. CASE RightLevel(y) # v
  <2>1. Balanced(w) /\ w \in Tree /\ w.level = v
    BY <1>1, <1>2, <1>3, <1>5 DEF Made, LevelFits
  <2>2. split(w) = w
    BY <2>1, BalancedStays
  <2> QED BY <1>1, <1>4, <2>1, <2>2 DEF Grown
<1>6. CASE RightLevel(y) = v
  <2>1. y.level = v /\ r.level = v
    BY <1>1, <1>2, <1>3, <1>6 DEF LevelFits
  <2>2. PICK b, c : Made(y, v, b, c)
    BY <1>1, <1>2, <2>1, NodeOfLevel
  <2>3. Balanced(b) /\ Balanced(c) /\ LevelFits(v, b, c) /\ c.level = v /\ b \in Tree /\ c \in Tree
    BY <1>2, <1>6, <2>2 DEF Made
  <2>4. RightLevel(b) <= v - 1
    BY <2>3, RightLevelBound DEF LevelFits
  <2>5. SplitMakes(w, v, v, l, b, c)
    BY <2>2, <2>3, SplitMade
  <2> PICK u : u = split(w)
    OBVIOUS
  <2>6. PICK p : Made(p, v, l, b) /\ Made(u, v + 1, p, c)
    BY <2>5 DEF SplitMakes
  <2>7. Balanced(p) /\ p.level = v
    BY <1>1, <2>3, <2>4, <2>6 DEF Made, LevelFits
  <2>8. LevelFits(v + 1, p, c)
    BY <1>1, <2>3, <2>6, <2>7 DEF Made, LevelFits
  <2>9. Balanced(u) /\ u \in Tree /\ u.level = v + 1 /\ RightLevel(u) = v
    BY <1>1, <2>3, <2>6, <2>7, <2>8 DEF Made
  <2>10. Grown(t, u)
    BY <1>1, <2>1, <2>9 DEF Grown
  <2> QED BY <1>4, <2>10
<1> QED BY <1>5, <1>6

LEMMA InsertGrows ==
  ASSUME Heights = Nat, NEW t \in Tree, NEW k \in Int, Balanced(t)
  PROVE  Grown(t, insert0[t][k])
<1> DEFINE P == {u \in Tree : Balanced(u) => Grown(u, insert0[u][k])}
<1>1. \A u \in Tree : insert0[u][k] = InsertBody(u, insert0[u.left][k], insert0[u.right][k], k)
  BY InsertDef DEF InsertEquation
<1>2. NIL \in P
  <2> PICK w \in Tree : w = Leaf(k) /\ w # NIL
    BY LeafIsATree
  <2>1. Made(w, 1, NIL, NIL)
    BY LeafIsATree, BranchMade, NILIsATree, 1 \in Nat \ {0}
  <2>2. LevelFits(1, NIL, NIL) /\ Balanced(NIL) /\ NIL.level = 0 /\ RightLevel(NIL) = 0
    BY NILIsBalanced DEF LevelFits
  <2>3. Balanced(w) /\ w.level = 1 /\ RightLevel(w) = 0
    BY <2>1, <2>2 DEF Made
  <2>4. split(skew(w)) = w
    BY <2>3, BalancedStays
  <2>5. insert0[NIL][k] = w
    BY <1>1, <2>4, NILIsATree DEF InsertBody, IsNode
  <2>6. Grown(NIL, w)
    BY <2>2, <2>3 DEF Grown
  <2> QED BY <2>5, <2>6, NILIsATree
<1>3. ASSUME NEW u \in Tree, u # NIL, u.left \in P, u.right \in P
      PROVE  u \in P
  <2> SUFFICES ASSUME Balanced(u) PROVE Grown(u, insert0[u][k])
    OBVIOUS
  <2> PICK v, l, r : v = u.level /\ l = u.left /\ r = u.right
    OBVIOUS
  <2>1. Made(u, v, l, r)
    BY <1>3, NodeMade
  <2>2. /\ Balanced(l) /\ Balanced(r) /\ l \in Tree /\ r \in Tree
        /\ v \in Nat \ {0} /\ u.level = v
    BY <2>1 DEF Made
  <2> PICK j \in Int : j = u.key
    BY KeyType
  <2> PICK x \in Tree : x = insert0[l][k]
    BY <2>2, InsertDef
  <2> PICK y \in Tree : y = insert0[r][k]
    BY <2>2, InsertDef
  <2>3. insert0[u][k] = InsertBody(u, x, y, k)
    BY <1>1
  <2>4. CASE k < j
    <3> PICK w : w = [u EXCEPT !.left = x]
      OBVIOUS
    <3>1. w = Branch(j, v, x, r)
      BY <1>3, WithLeft
    <3>2. Made(w, v, x, r)
      BY <2>2, <3>1, BranchMade
    <3>3. Grown(l, x)
      BY <1>3, <2>2
    <3>4. Grown(u, split(skew(w)))
      BY <2>1, <3>2, <3>3, LeftGrows
    <3> QED BY <1>3, <2>3, <2>4, <3>4 DEF InsertBody, IsNode
  <2>5. CASE k > j
    <3> PICK w : w = [u EXCEPT !.right = y]
      OBVIOUS
    <3>1. w = Branch(j, v, l, y)
      BY <1>3, WithRight
    <3>2. Made(w, v, l, y)
      BY <2>2, <3>1, BranchMade
    <3>3. Grown(r, y)
      BY <1>3, <2>2
    <3>4. Grown(u, split(skew(w)))
      BY <2>1, <3>2, <3>3, RightGrows
    <3> QED BY <1>3, <2>3, <2>5, <3>4 DEF InsertBody, IsNode
  <2>6. CASE k = j
    <3>1. split(skew(u)) = u
      BY BalancedStays
    <3>2. Grown(u, u)
      BY <2>2 DEF Grown
    <3> QED BY <1>3, <2>3, <2>6, <3>1, <3>2 DEF InsertBody, IsNode
  <2> QED BY <2>4, <2>5, <2>6
<1> HIDE DEF P
<1>4. Tree \subseteq P
  BY <1>2, <1>3, TreeInduction, Zenon
<1> QED BY <1>4 DEF P

-----------------------------------------------------------------------------
(* The map.                                                                *)

LEMMA MinIs ==
  ASSUME NEW S \in SUBSET Int, NEW k, IsLeast(k, S)
  PROVE  Min(S) = k
<1>1. k \in S /\ \A j \in S : k <= j
  BY DEF IsLeast
<1>2. \A j \in S : (\A i \in S : j <= i) => j = k
  BY <1>1
<1> QED BY <1>1, <1>2 DEF Min

LEMMA MaxIs ==
  ASSUME NEW S \in SUBSET Int, NEW k, IsGreatest(k, S)
  PROVE  Max(S) = k
<1>1. k \in S /\ \A j \in S : j <= k
  BY DEF IsGreatest
<1>2. \A j \in S : (\A i \in S : i <= j) => j = k
  BY <1>1
<1> QED BY <1>1, <1>2 DEF Max

LEMMA LeastIs ==
  ASSUME NEW S \in SUBSET Int, NEW k, IsLeast(k, S)
  PROVE  Least(S) = k
<1>1. S # {}
  BY DEF IsLeast
<1> QED BY <1>1, MinIs DEF Least

LEMMA GreatestIs ==
  ASSUME NEW S \in SUBSET Int, NEW k, IsGreatest(k, S)
  PROVE  Greatest(S) = k
<1>1. S # {}
  BY DEF IsGreatest
<1> QED BY <1>1, MaxIs DEF Greatest

LEMMA KeyBelongs ==
  ASSUME Heights = Nat, NEW t \in Tree, t # NIL
  PROVE  t.key \in KeysOf(t)
BY NodeJoins DEF Joins

LEMMA EndsAreEnds ==
  ASSUME Heights = Nat, NEW t \in Tree, Ordered(t)
  PROVE  first[t] = Least(KeysOf(t)) /\ last[t] = Greatest(KeysOf(t))
<1>1. CASE t = NIL
  <2>1. first[t] = NoKey /\ last[t] = NoKey
    BY <1>1, FirstDef, LastDef, NILIsATree, KeyType
       DEF FirstEquation, FirstBody, LastEquation, LastBody, HasLeft, HasRight, IsNode
  <2> QED BY <1>1, <2>1, NothingInNIL DEF Least, Greatest
<1>2. CASE t # NIL
  <2>1. KeysOf(t) \in SUBSET Int
    BY KeysAreNumbers
  <2>2. IsLeast(first[t], KeysOf(t)) /\ IsGreatest(last[t], KeysOf(t))
    BY <1>2, FirstIsLeast, LastIsGreatest
  <2> QED BY <2>1, <2>2, LeastIs, GreatestIs
<1> QED BY <1>1, <1>2

\* The tree is in order and balanced, and its keys are those of the map.
MapInv ==
  /\ root \in Tree /\ keys \subseteq Keys
  /\ KeysOf(root) = keys /\ Size[root] = Cardinality(keys)
  /\ Ordered(root) /\ Balanced(root)

LEMMA KeysFinite ==
  ASSUME NEW S \in SUBSET Keys
  PROVE  IsFiniteSet(S) /\ Cardinality(S) \in Nat
<1>1. IsFiniteSet(Keys)
  BY MaxKeyAssumption, FS_Interval DEF Keys
<1>2. IsFiniteSet(S)
  BY <1>1, FS_Subset
<1> QED BY <1>2, FS_CardinalityType

LEMMA PutKeeps ==
  ASSUME MapInv, NEW k \in Keys, root' \in Tree, Put(root, root', k), Balanced(root'),
         keys' = keys \cup {k}
  PROVE  MapInv'
<1>1. IsFiniteSet(keys) /\ Cardinality(keys) \in Nat
  BY KeysFinite DEF MapInv
<1>2. Cardinality(keys \cup {k}) = IF k \in keys THEN Cardinality(keys) ELSE Cardinality(keys) + 1
  <2>1. CASE k \in keys
    <3>1. keys \cup {k} = keys
      BY <2>1
    <3> QED BY <2>1, <3>1
  <2>2. CASE k \notin keys
    BY <1>1, <2>2, FS_AddElement
  <2> QED BY <2>1, <2>2
<1>3. KeysOf(root') = keys \cup {k} /\ Ordered(root')
  BY DEF MapInv, Put
<1>4. Size[root'] = Cardinality(keys \cup {k})
  BY <1>1, <1>2 DEF MapInv, Put
<1>5. keys \cup {k} \subseteq Keys
  BY DEF MapInv
<1> QED BY <1>3, <1>4, <1>5 DEF MapInv, KeysOf, Ordered, Balanced

LEMMA TakeKeeps ==
  ASSUME Heights = Nat, MapInv, NEW k \in Int, root' \in Tree, Taken(root, root', k), Balanced(root'),
         keys' = keys \ {k}
  PROVE  MapInv'
<1>1. IsFiniteSet(keys) /\ Cardinality(keys) \in Nat
  BY KeysFinite DEF MapInv
<1>2. keys \ {k} \subseteq Keys
  BY DEF MapInv
<1>3. Cardinality(keys \ {k}) \in Nat
  BY <1>2, KeysFinite
<1>4. Cardinality(keys) = Cardinality(keys \ {k}) + (IF k \in keys THEN 1 ELSE 0)
  <2>1. CASE k \in keys
    <3>1. Cardinality(keys \ {k}) = Cardinality(keys) - 1
      BY <1>1, <2>1, FS_RemoveElement
    <3>2. Cardinality(keys) = Cardinality(keys \ {k}) + 1
      BY <1>1, <3>1
    <3> QED BY <2>1, <3>2
  <2>2. CASE k \notin keys
    <3>1. keys \ {k} = keys
      BY <2>2
    <3>2. Cardinality(keys \ {k}) = Cardinality(keys)
      BY <3>1
    <3>3. Cardinality(keys) = Cardinality(keys) + 0
      BY <1>1
    <3> QED BY <2>2, <3>2, <3>3
  <2> QED BY <2>1, <2>2
<1>5. KeysOf(root') = keys \ {k} /\ Ordered(root')
  BY DEF MapInv, Taken
<1>6. Size[root'] = Cardinality(keys \ {k})
  <2>1. Size[root'] \in Nat
    BY SizeDef, KeysAreNumbers
  <2>2. Size[root] = Size[root'] + (IF k \in keys THEN 1 ELSE 0)
    BY DEF MapInv, Taken
  <2> QED BY <1>3, <1>4, <2>1, <2>2 DEF MapInv
<1> QED BY <1>2, <1>5, <1>6 DEF MapInv, KeysOf, Ordered, Balanced

LEMMA MapInvInit ==
  ASSUME Heights = Nat, MapInit
  PROVE  MapInv
<1>1. root = NIL /\ keys = {} /\ Cardinality({}) = 0
  BY FS_EmptySet DEF MapInit
<1> QED BY <1>1, NILIsATree, NothingInNIL, NILIsBalanced DEF MapInv

LEMMA KeysAreKeys == Keys \subseteq Int
BY DEF Keys

LEMMA MapInvStep ==
  ASSUME Heights = Nat, MapInv, [MapNext]_mapvars
  PROVE  MapInv'
<1>0. root \in Tree /\ keys \subseteq Keys /\ keys = KeysOf(root) /\ Ordered(root) /\ Balanced(root)
  BY DEF MapInv
<1>1. ASSUME NEW k \in Keys, Insert(k) PROVE MapInv'
  <2>1. root' = insert0[root][k] /\ keys' = keys \cup {k} /\ k \in Int
    BY <1>1, KeysAreKeys DEF Insert
  <2>2. root' \in Tree
    BY <1>0, <2>1, InsertDef
  <2>3. Put(root, root', k)
    BY <1>0, <2>1, InsertPuts
  <2>4. Balanced(root')
    BY <1>0, <2>1, InsertGrows DEF Grown
  <2> QED BY <1>1, <2>1, <2>2, <2>3, <2>4, PutKeeps
<1>2. ASSUME NEW k \in Keys, Delete(k) PROVE MapInv'
  <2>1. root' = delete0[root][k] /\ keys' = keys \ {k} /\ k \in Int
    BY <1>2, KeysAreKeys DEF Delete
  <2>2. root' \in Tree
    BY <1>0, <2>1, DeleteDef
  <2>3. Taken(root, root', k)
    BY <1>0, <2>1, DeleteTakes
  <2>4. Balanced(root')
    BY <1>0, <2>1, DeleteShrinks DEF Shrunk
  <2> QED BY <2>1, <2>2, <2>3, <2>4, TakeKeeps
<1>3. ASSUME DeleteFirst PROVE MapInv'
  <2>1. root' = delete_first0[root] /\ keys' = keys \ {Least(keys)}
    BY <1>3 DEF DeleteFirst
  <2>2. first[root] = Least(keys) /\ first[root] \in Int
    BY <1>0, EndsAreEnds, FirstDef
  <2>3. root' \in Tree
    BY <1>0, <2>1, DeleteFirstDef
  <2>4. Balanced(root')
    BY <1>0, <2>1, DeleteFirstShrinks DEF Shrunk
  <2>5. Taken(root, root', first[root])
    <3>1. CASE root = NIL
      <4>1. root' = NIL
        BY <2>1, <3>1, DeleteFirstDef, NILIsATree DEF DeleteFirstEquation, DeleteFirstBody, IsNode
      <4> QED BY <3>1, <4>1, NothingInNIL DEF Taken
    <3>2. CASE root # NIL
      BY <1>0, <2>1, <3>2, DeleteFirstTakes
    <3> QED BY <3>1, <3>2
  <2> QED BY <2>1, <2>2, <2>3, <2>4, <2>5, TakeKeeps
<1>4. ASSUME DeleteLast PROVE MapInv'
  <2>1. root' = delete_last0[root] /\ keys' = keys \ {Greatest(keys)}
    BY <1>4 DEF DeleteLast
  <2>2. last[root] = Greatest(keys) /\ last[root] \in Int
    BY <1>0, EndsAreEnds, LastDef
  <2>3. root' \in Tree
    BY <1>0, <2>1, DeleteLastDef
  <2>4. Balanced(root')
    BY <1>0, <2>1, DeleteLastShrinks DEF Shrunk
  <2>5. Taken(root, root', last[root])
    <3>1. CASE root = NIL
      <4>1. root' = NIL
        BY <2>1, <3>1, DeleteLastDef, NILIsATree DEF DeleteLastEquation, DeleteLastBody, IsNode
      <4> QED BY <3>1, <4>1, NothingInNIL DEF Taken
    <3>2. CASE root # NIL
      BY <1>0, <2>1, <3>2, DeleteLastTakes
    <3> QED BY <3>1, <3>2
  <2> QED BY <2>1, <2>2, <2>3, <2>4, <2>5, TakeKeeps
<1>5. CASE UNCHANGED mapvars
  BY <1>5 DEF mapvars, MapInv, KeysOf, Ordered, Balanced
<1> QED BY <1>1, <1>2, <1>3, <1>4, <1>5 DEF MapNext

\* The invariant behind the theorems below: the tree in order and balanced, and
\* the keys in it those of the map.
THEOREM Invariance ==
  ASSUME Heights = Nat
  PROVE  MapSpec => []MapInv
<1>1. MapInit => MapInv
  BY MapInvInit
<1>2. MapInv /\ [MapNext]_mapvars => MapInv'
  BY MapInvStep
<1> QED BY <1>1, <1>2, PTL DEF MapSpec

\* Whatever is inserted and deleted, the tree holds the keys inserted and not
\* deleted since, each in one node and in search order.
THEOREM TreeHoldsKeys ==
  ASSUME Heights = Nat
  PROVE  MapSpec => []HoldsKeys
<1>1. MapInv => HoldsKeys
  BY DEF MapInv, HoldsKeys, Ordered, Below, Above
<1> QED BY <1>1, Invariance, PTL

\* Whatever is inserted and deleted, the tree keeps the rules of an AA tree.
THEOREM TreeIsBalanced ==
  ASSUME Heights = Nat
  PROVE  MapSpec => []IsBalanced
<1>1. MapInv => IsBalanced
  BY DEF MapInv, IsBalanced, Balanced, Rules
<1> QED BY <1>1, Invariance, PTL

-----------------------------------------------------------------------------
(* Lookups in a tree in order.                                             *)

LEMMA SearchFinds ==
  ASSUME Heights = Nat, NEW t \in Tree, NEW k \in Int, Ordered(t)
  PROVE  search[t][k] = IF k \in KeysOf(t) THEN k ELSE NoKey
<1> DEFINE P == {u \in Tree : Ordered(u) => search[u][k] = IF k \in KeysOf(u) THEN k ELSE NoKey}
<1>1. \A u \in Tree : search[u][k] = SearchBody(u, search[u.left][k], search[u.right][k], k)
  BY SearchDef DEF SearchEquation
<1>2. NIL \in P
  BY <1>1, NILIsATree, NothingInNIL DEF SearchBody, IsNode
<1>3. ASSUME NEW u \in Tree, u # NIL, u.left \in P, u.right \in P
      PROVE  u \in P
  <2> SUFFICES ASSUME Ordered(u) PROVE search[u][k] = IF k \in KeysOf(u) THEN k ELSE NoKey
    OBVIOUS
  <2>1. Joins(u, u.key, u.left, u.right)
    BY <1>3, NodeJoins
  <2>2. search[u][k] = IF k < u.key THEN search[u.left][k] ELSE IF k > u.key THEN search[u.right][k] ELSE u.key
    BY <1>1, <1>3 DEF SearchBody, IsNode
  <2>3. CASE k < u.key
    <3>1. k \in KeysOf(u) <=> k \in KeysOf(u.left)
      BY <2>1, <2>3 DEF Joins, SubtreesInOrder, Above
    <3> QED BY <1>3, <2>1, <2>2, <2>3, <3>1 DEF Joins, SubtreesInOrder
  <2>4. CASE k > u.key
    <3>1. k \in KeysOf(u) <=> k \in KeysOf(u.right)
      BY <2>1, <2>4 DEF Joins, SubtreesInOrder, Below
    <3>2. ~(k < u.key)
      BY <2>1, <2>4 DEF Joins
    <3> QED BY <1>3, <2>1, <2>2, <2>4, <3>1, <3>2 DEF Joins, SubtreesInOrder
  <2>5. CASE k = u.key
    BY <2>1, <2>2, <2>5 DEF Joins
  <2> QED BY <2>1, <2>3, <2>4, <2>5 DEF Joins
<1> HIDE DEF P
<1>4. Tree \subseteq P
  BY <1>2, <1>3, TreeInduction, Zenon
<1> QED BY <1>4 DEF P

\* The keys that iter, next and prev look for.
AtLeast(S, k) == {j \in S : j >= k}
Greater(S, k) == {j \in S : j > k}
Smaller(S, k) == {j \in S : j < k}

\* The least key of S that is not below k, or else the key found.
Found(x, S, k, found) ==
  \/ AtLeast(S, k) = {} /\ x = found
  \/ IsLeast(x, AtLeast(S, k))

LEMMA IterFinds ==
  ASSUME Heights = Nat, NEW t \in Tree, NEW k \in Int, Ordered(t)
  PROVE  \A found \in Int : Found(iter0[t][k][found], KeysOf(t), k, found)
<1> DEFINE P == {u \in Tree : Ordered(u) =>
                   \A found \in Int : Found(iter0[u][k][found], KeysOf(u), k, found)}
<1>1. \A u \in Tree : iter0[u][k] = IterBody(u, iter0[u.left][k], iter0[u.right][k], k)
  <2>1. iter0 = [u \in Tree |-> [i \in Int |-> IterBody(u, iter0[u.left][i], iter0[u.right][i], i)]]
    BY IterDef DEF IterEquation
  <2>2. \A u \in Tree : iter0[u] = [i \in Int |-> IterBody(u, iter0[u.left][i], iter0[u.right][i], i)]
    BY <2>1, Zenon
  <2> QED BY <2>2, Zenon
<1>2. NIL \in P
  <2>1. \A found \in Int : iter0[NIL][k][found] = found
    BY <1>1, NILIsATree DEF IterBody, IsNode
  <2> QED BY <2>1, NILIsATree, NothingInNIL DEF Found, AtLeast
<1>3. ASSUME NEW u \in Tree, u # NIL, u.left \in P, u.right \in P
      PROVE  u \in P
  <2> SUFFICES ASSUME Ordered(u), NEW found \in Int
               PROVE  Found(iter0[u][k][found], KeysOf(u), k, found)
    OBVIOUS
  <2>1. Joins(u, u.key, u.left, u.right)
    BY <1>3, NodeJoins
  <2> PICK j \in Int : j = u.key
    BY KeyType
  <2> PICK L \in SUBSET Int : L = KeysOf(u.left)
    BY <2>1 DEF Joins
  <2> PICK R \in SUBSET Int : R = KeysOf(u.right)
    BY <2>1 DEF Joins
  <2> PICK x : x = iter0[u][k][found]
    OBVIOUS
  <2>2. x = IF k < j THEN iter0[u.left][k][j] ELSE IF k > j THEN iter0[u.right][k][found] ELSE j
    BY <1>1, <1>3 DEF IterBody, IsNode
  <2>3. /\ KeysOf(u) = {j} \cup L \cup R /\ (\A i \in L : i < j) /\ (\A i \in R : j < i)
        /\ Ordered(u.left) /\ Ordered(u.right)
    BY <2>1 DEF Joins, SubtreesInOrder, Above, Below
  <2>4. CASE k < j
    <3>1. Found(x, L, k, j)
      BY <1>3, <2>2, <2>3, <2>4
    <3>2. CASE AtLeast(L, k) = {} /\ x = j
      <4>1. IsLeast(j, AtLeast(KeysOf(u), k))
        BY <2>3, <2>4, <3>2 DEF AtLeast, IsLeast
      <4> QED BY <3>2, <4>1 DEF Found
    <3>3. CASE IsLeast(x, AtLeast(L, k))
      <4>1. IsLeast(x, AtLeast(KeysOf(u), k))
        BY <2>3, <2>4, <3>3 DEF AtLeast, IsLeast
      <4> QED BY <4>1 DEF Found
    <3> QED BY <3>1, <3>2, <3>3 DEF Found
  <2>5. CASE k > j
    <3>1. Found(x, R, k, found)
      BY <1>3, <2>2, <2>3, <2>5
    <3>2. AtLeast(KeysOf(u), k) = AtLeast(R, k)
      BY <2>3, <2>5 DEF AtLeast
    <3> QED BY <3>1, <3>2 DEF Found
  <2>6. CASE k = j
    <3>1. x = j
      BY <2>2, <2>6
    <3>2. IsLeast(j, AtLeast(KeysOf(u), k))
      BY <2>3, <2>6 DEF AtLeast, IsLeast
    <3> QED BY <3>1, <3>2 DEF Found
  <2> QED BY <2>4, <2>5, <2>6
<1> HIDE DEF P
<1>4. Tree \subseteq P
  BY <1>2, <1>3, TreeInduction, Zenon
<1> QED BY <1>4 DEF P

-----------------------------------------------------------------------------
(* The walk down to a key, and where it turned left or right.              *)

\* Where a path turns left, and right.
LeftTurns(p)  == {i \in 1 .. Len(p) - 1 : p[i].left = p[i + 1]}
RightTurns(p) == {i \in 1 .. Len(p) - 1 : p[i].right = p[i + 1]}

LEMMA UpFromIs ==
  ASSUME NEW p
  PROVE  /\ UpFrom(p, TRUE) = IF LeftTurns(p) = {} THEN NoKey ELSE p[Max(LeftTurns(p))].key
         /\ UpFrom(p, FALSE) = IF RightTurns(p) = {} THEN NoKey ELSE p[Max(RightTurns(p))].key
BY DEF UpFrom, LeftTurns, RightTurns

\* The path p leads from t on along q.
Extends(p, t, q) ==
  /\ p \in Seq(Tree) /\ q \in Seq(Tree)
  /\ Len(q) \in Nat \ {0} /\ Len(p) = Len(q) + 1
  /\ p[1] = t /\ \A i \in 1 .. Len(q) : p[i + 1] = q[i]

LEMMA PathExtends ==
  ASSUME NEW t \in Tree, NEW q \in Seq(Tree), q # <<>>
  PROVE  Extends(<<t>> \o q, t, q)
BY DEF Extends

LEMMA LongerTurns ==
  ASSUME NEW p, NEW t, NEW q, Extends(p, t, q), NEW i \in Int
  PROVE  /\ i \in LeftTurns(p) <=> ((i = 1 /\ t.left = q[1]) \/ i - 1 \in LeftTurns(q))
         /\ i \in RightTurns(p) <=> ((i = 1 /\ t.right = q[1]) \/ i - 1 \in RightTurns(q))
<1>1. CASE i = 1
  <2>1. i \in 1 .. Len(p) - 1 /\ p[i] = t /\ p[i + 1] = q[1]
    BY <1>1 DEF Extends
  <2>2. i - 1 \notin LeftTurns(q) /\ i - 1 \notin RightTurns(q)
    BY <1>1 DEF LeftTurns, RightTurns
  <2> QED BY <1>1, <2>1, <2>2 DEF LeftTurns, RightTurns
<1>2. CASE i # 1
  <2>1. i \in 1 .. Len(p) - 1 <=> i - 1 \in 1 .. Len(q) - 1
    BY <1>2 DEF Extends
  <2>2. i - 1 \in 1 .. Len(q) - 1 => p[i] = q[i - 1] /\ p[i + 1] = q[(i - 1) + 1]
    BY DEF Extends
  <2> QED BY <1>2, <2>1, <2>2 DEF LeftTurns, RightTurns
<1> QED BY <1>1, <1>2

\* The turns T of a path, and those of one with a node more at its start, where
\* it turns, or not.
Shifted(T, U, turns) ==
  /\ T \subseteq Nat \ {0} /\ U \subseteq Nat \ {0}
  /\ \A i \in Int : i \in U <=> ((i = 1 /\ turns) \/ i - 1 \in T)

LEMMA TurnsShift ==
  ASSUME NEW p, NEW t, NEW q, Extends(p, t, q)
  PROVE  /\ Shifted(LeftTurns(q), LeftTurns(p), t.left = q[1])
         /\ Shifted(RightTurns(q), RightTurns(p), t.right = q[1])
<1>1. LeftTurns(p) \subseteq Nat \ {0} /\ LeftTurns(q) \subseteq Nat \ {0}
  BY DEF LeftTurns, Extends
<1>2. RightTurns(p) \subseteq Nat \ {0} /\ RightTurns(q) \subseteq Nat \ {0}
  BY DEF RightTurns, Extends
<1> QED BY <1>1, <1>2, LongerTurns, Zenon DEF Shifted

LEMMA OnlyFirstTurn ==
  ASSUME NEW T, NEW U, NEW b \in BOOLEAN, Shifted(T, U, b), T = {}
  PROVE  IF b THEN IsGreatest(1, U) ELSE U = {}
<1>1. CASE b
  BY <1>1 DEF Shifted, IsGreatest
<1>2. CASE ~b
  BY <1>2 DEF Shifted
<1> QED BY <1>1, <1>2

LEMMA LastTurnShifts ==
  ASSUME NEW T, NEW U, NEW b \in BOOLEAN, Shifted(T, U, b), NEW i, IsGreatest(i, T)
  PROVE  IsGreatest(i + 1, U)
<1>1. i \in Nat \ {0} /\ i \in T
  BY DEF Shifted, IsGreatest
<1>2. i + 1 \in U
  BY <1>1 DEF Shifted
<1>3. ASSUME NEW j \in U PROVE j <= i + 1
  <2>1. j \in Nat \ {0}
    BY <1>3 DEF Shifted
  <2>2. j = 1 \/ j - 1 \in T
    BY <1>3, <2>1 DEF Shifted
  <2> QED BY <1>1, <2>1, <2>2 DEF IsGreatest
<1> QED BY <1>2, <1>3 DEF IsGreatest

\* The path leads to a node.
Leads(p, t) ==
  /\ p \in Seq(Tree) /\ Len(p) \in Nat \ {0} /\ p[1] = t
  /\ p[Len(p)] \in Tree /\ p[Len(p)] # NIL

LEMMA SubtreesDiffer ==
  ASSUME Heights = Nat, NEW t \in Tree, t # NIL, Ordered(t), t.left # NIL \/ t.right # NIL
  PROVE  t.left # t.right
<1> SUFFICES ASSUME t.left = t.right PROVE FALSE
  OBVIOUS
<1>1. Joins(t, t.key, t.left, t.right)
  BY NodeJoins
<1>2. t.left \in Tree /\ t.left # NIL
  BY TreeIsBranch DEF IsBranch
<1>3. t.left.key \in KeysOf(t.left) /\ t.left.key \in KeysOf(t.right)
  BY <1>2, KeyBelongs
<1> QED BY <1>1, <1>3 DEF Joins, SubtreesInOrder, Below, Above

\* The path to a key goes on with that in one of the subtrees.
LEMMA PathGoesOn ==
  ASSUME Heights = Nat, NEW t \in Tree, t # NIL, NEW k \in Int
  PROVE  /\ k < t.key => Path[t][k] = <<t>> \o Path[t.left][k]
         /\ k > t.key => Path[t][k] = <<t>> \o Path[t.right][k]
         /\ k = t.key => Path[t][k] = <<t>>
<1> PICK x \in Seq(Tree) : x = Path[t.left][k]
  BY PathDef, TreeIsBranch DEF IsBranch
<1> PICK y \in Seq(Tree) : y = Path[t.right][k]
  BY PathDef, TreeIsBranch DEF IsBranch
<1>1. Path[t][k] = PathBody(t, x, y, k)
  <2>1. Path = [u \in Tree |-> [i \in Int |-> PathBody(u, Path[u.left][i], Path[u.right][i], i)]]
    BY PathDef DEF PathEquation
  <2>2. Path[t] = [i \in Int |-> PathBody(t, Path[t.left][i], Path[t.right][i], i)]
    BY <2>1, Zenon
  <2> QED BY <2>2, Zenon
<1> PICK j \in Int : j = t.key
  BY KeyType
<1>2. Path[t][k] = <<t>> \o (IF k < j THEN x ELSE IF k > j THEN y ELSE <<>>)
  BY <1>1 DEF PathBody, IsNode
<1>3. <<t>> \o <<>> = <<t>>
  OBVIOUS
<1>4. k > j => ~(k < j)
  OBVIOUS
<1>5. k = j => ~(k < j) /\ ~(k > j)
  OBVIOUS
<1> QED BY <1>2, <1>3, <1>4, <1>5

Continues(p, t, q, u) ==
  Leads(p, t) /\ Extends(p, t, q) /\ q[1] = u /\ p[1] = t /\ p[Len(p)] = q[Len(q)]

LEMMA PathLeads ==
  ASSUME NEW t \in Tree, NEW u \in Tree, NEW p, NEW q, Leads(q, u), p = <<t>> \o q
  PROVE  Continues(p, t, q, u)
<1>1. q \in Seq(Tree) /\ q # <<>>
  BY DEF Leads
<1>2. Extends(p, t, q)
  BY <1>1, PathExtends
<1>3. p[Len(q) + 1] = q[Len(q)]
  BY <1>2 DEF Extends
<1>4. p[Len(p)] = q[Len(q)]
  BY <1>2, <1>3 DEF Extends
<1>5. q[1] = u
  BY DEF Leads
<1> QED BY <1>2, <1>4, <1>5 DEF Extends, Leads, Continues

\* The next greater of the keys S: below the end of the path, or where it last turned
\* left, or there is none.
NextOnPath(p, S) ==
  \/ /\ HasRight(p[Len(p)])
     /\ IsLeast(first[p[Len(p)].right], S)
  \/ /\ ~HasRight(p[Len(p)])
     /\ S = {} /\ LeftTurns(p) = {}
  \/ /\ ~HasRight(p[Len(p)])
     /\ \E i : IsGreatest(i, LeftTurns(p)) /\ IsLeast(p[i].key, S)

NextKept(p, q, S, U) == NextOnPath(q, S) => NextOnPath(p, U)

LEMMA NextStays ==
  ASSUME NEW p, NEW q, Extends(p, p[1], q), p[Len(p)] = q[Len(q)],
         NEW S, NEW U, \A x : IsLeast(x, S) => IsLeast(x, U),
         S = {} => IF p[1].left = q[1] THEN IsLeast(p[1].key, U) ELSE U = {}
  PROVE  NextKept(p, q, S, U)
<1> SUFFICES ASSUME NextOnPath(q, S) PROVE NextOnPath(p, U)
  BY DEF NextKept
<1> PICK b \in BOOLEAN : b = (p[1].left = q[1])
  OBVIOUS
<1>1. Shifted(LeftTurns(q), LeftTurns(p), b)
  BY TurnsShift
<1>2. CASE HasRight(q[Len(q)]) /\ IsLeast(first[q[Len(q)].right], S)
  BY <1>2 DEF NextOnPath
<1>3. CASE ~HasRight(q[Len(q)]) /\ S = {} /\ LeftTurns(q) = {}
  <2>1. IF b THEN IsGreatest(1, LeftTurns(p)) ELSE LeftTurns(p) = {}
    BY <1>1, <1>3, OnlyFirstTurn
  <2> QED BY <1>3, <2>1 DEF NextOnPath
<1>4. ASSUME ~HasRight(q[Len(q)]), NEW i, IsGreatest(i, LeftTurns(q)), IsLeast(q[i].key, S)
      PROVE  NextOnPath(p, U)
  <2>1. IsGreatest(i + 1, LeftTurns(p))
    BY <1>1, <1>4, LastTurnShifts
  <2>2. i \in 1 .. Len(q)
    BY <1>4 DEF IsGreatest, LeftTurns, Extends
  <2>3. p[i + 1] = q[i]
    BY <2>2 DEF Extends
  <2>4. IsLeast(p[i + 1].key, U)
    BY <1>4, <2>3
  <2> QED BY <1>4, <2>1, <2>4 DEF NextOnPath
<1> QED BY <1>2, <1>3, <1>4 DEF NextOnPath

LEMMA NextIsOnPath ==
  ASSUME Heights = Nat, NEW t \in Tree, NEW k \in Int, Ordered(t), k \in KeysOf(t)
  PROVE  Leads(Path[t][k], t) /\ NextOnPath(Path[t][k], Greater(KeysOf(t), k))
<1> DEFINE P == {u \in Tree : Ordered(u) /\ k \in KeysOf(u) =>
                   Leads(Path[u][k], u) /\ NextOnPath(Path[u][k], Greater(KeysOf(u), k))}
<1>1. NIL \in P
  BY NILIsATree, NothingInNIL
<1>2. ASSUME NEW u \in Tree, u # NIL, u.left \in P, u.right \in P
      PROVE  u \in P
  <2> SUFFICES ASSUME Ordered(u), k \in KeysOf(u)
               PROVE  Leads(Path[u][k], u) /\ NextOnPath(Path[u][k], Greater(KeysOf(u), k))
    OBVIOUS
  <2>1. Joins(u, u.key, u.left, u.right)
    BY <1>2, NodeJoins
  <2> PICK l \in Tree : l = u.left
    BY <1>2, TreeIsBranch DEF IsBranch
  <2> PICK r \in Tree : r = u.right
    BY <1>2, TreeIsBranch DEF IsBranch
  <2> PICK j \in Int : j = u.key
    BY KeyType
  <2> PICK L \in SUBSET Int : L = KeysOf(l)
    BY <2>1 DEF Joins
  <2> PICK R \in SUBSET Int : R = KeysOf(r)
    BY <2>1 DEF Joins
  <2> PICK p : p = Path[u][k]
    OBVIOUS
  <2> PICK U : U = Greater(KeysOf(u), k)
    OBVIOUS
  <2>2. /\ KeysOf(u) = {j} \cup L \cup R /\ (\A i \in L : i < j) /\ (\A i \in R : j < i)
        /\ Ordered(l) /\ Ordered(r)
    BY <2>1 DEF Joins, SubtreesInOrder, Above, Below
  <2>3. CASE k < j
    <3>1. k \in L /\ l # NIL
      BY <2>2, <2>3, NothingInNIL
    <3> PICK q : q = Path[l][k]
      OBVIOUS
    <3>2. p = <<u>> \o q
      BY <1>2, <2>3, PathGoesOn
    <3>3. Leads(q, l) /\ NextOnPath(q, Greater(L, k))
      BY <1>2, <2>2, <3>1
    <3>4. Continues(p, u, q, l)
      BY <3>2, <3>3, PathLeads
    <3>5. Leads(p, u) /\ Extends(p, p[1], q) /\ q[1] = l /\ p[1] = u /\ p[Len(p)] = q[Len(q)]
      BY <3>4 DEF Continues
    <3>6. \A x : IsLeast(x, Greater(L, k)) => IsLeast(x, U)
      BY <2>2, <2>3 DEF Greater, IsLeast
    <3>7. Greater(L, k) = {} => IsLeast(u.key, U)
      BY <2>2, <2>3 DEF Greater, IsLeast
    <3>8. NextKept(p, q, Greater(L, k), U)
      BY <3>5, <3>6, <3>7, NextStays
    <3> QED BY <3>3, <3>5, <3>8 DEF NextKept
  <2>4. CASE j < k
    <3>1. k \in R /\ r # NIL
      BY <2>2, <2>4, NothingInNIL
    <3> PICK q : q = Path[r][k]
      OBVIOUS
    <3>2. p = <<u>> \o q
      BY <1>2, <2>4, PathGoesOn
    <3>3. Leads(q, r) /\ NextOnPath(q, Greater(R, k))
      BY <1>2, <2>2, <3>1
    <3>4. Continues(p, u, q, r)
      BY <3>2, <3>3, PathLeads
    <3>5. Leads(p, u) /\ Extends(p, p[1], q) /\ q[1] = r /\ p[1] = u /\ p[Len(p)] = q[Len(q)]
      BY <3>4 DEF Continues
    <3>6. U = Greater(R, k)
      BY <2>2, <2>4 DEF Greater
    <3>7. u.left # q[1]
      BY <1>2, <3>1, <3>5, SubtreesDiffer
    <3>8. NextKept(p, q, U, U)
      BY <3>5, <3>7, NextStays
    <3> QED BY <3>3, <3>5, <3>6, <3>8 DEF NextKept
  <2>5. CASE k = j
    <3>1. p = <<u>>
      BY <1>2, <2>5, PathGoesOn
    <3>2. Len(p) = 1 /\ p[1] = u /\ p \in Seq(Tree)
      BY <3>1
    <3>3. LeftTurns(p) = {}
      BY <3>2 DEF LeftTurns
    <3>4. Leads(p, u)
      BY <1>2, <3>2 DEF Leads
    <3>5. U = R
      BY <2>2, <2>5 DEF Greater
    <3>6. CASE HasRight(u)
      <4>1. IsLeast(first[r], R)
        BY <2>2, <3>6, FirstIsLeast DEF HasRight, IsNode
      <4> QED BY <3>2, <3>4, <3>5, <3>6, <4>1 DEF NextOnPath
    <3>7. CASE ~HasRight(u)
      <4>1. R = {}
        BY <1>2, <3>7, NothingInNIL DEF HasRight, IsNode
      <4> QED BY <3>2, <3>3, <3>4, <3>5, <3>7, <4>1 DEF NextOnPath
    <3> QED BY <3>6, <3>7
  <2> QED BY <2>3, <2>4, <2>5
<1> HIDE DEF P
<1>3. Tree \subseteq P
  BY <1>1, <1>2, TreeInduction, Zenon
<1> QED BY <1>3 DEF P

\* The next smaller of the keys S: below the end of the path, or where it last turned
\* right, or there is none.
PrevOnPath(p, S) ==
  \/ /\ HasLeft(p[Len(p)])
     /\ IsGreatest(last[p[Len(p)].left], S)
  \/ /\ ~HasLeft(p[Len(p)])
     /\ S = {} /\ RightTurns(p) = {}
  \/ /\ ~HasLeft(p[Len(p)])
     /\ \E i : IsGreatest(i, RightTurns(p)) /\ IsGreatest(p[i].key, S)

PrevKept(p, q, S, U) == PrevOnPath(q, S) => PrevOnPath(p, U)

LEMMA PrevStays ==
  ASSUME NEW p, NEW q, Extends(p, p[1], q), p[Len(p)] = q[Len(q)],
         NEW S, NEW U, \A x : IsGreatest(x, S) => IsGreatest(x, U),
         S = {} => IF p[1].right = q[1] THEN IsGreatest(p[1].key, U) ELSE U = {}
  PROVE  PrevKept(p, q, S, U)
<1> SUFFICES ASSUME PrevOnPath(q, S) PROVE PrevOnPath(p, U)
  BY DEF PrevKept
<1> PICK b \in BOOLEAN : b = (p[1].right = q[1])
  OBVIOUS
<1>1. Shifted(RightTurns(q), RightTurns(p), b)
  BY TurnsShift
<1>2. CASE HasLeft(q[Len(q)]) /\ IsGreatest(last[q[Len(q)].left], S)
  BY <1>2 DEF PrevOnPath
<1>3. CASE ~HasLeft(q[Len(q)]) /\ S = {} /\ RightTurns(q) = {}
  <2>1. IF b THEN IsGreatest(1, RightTurns(p)) ELSE RightTurns(p) = {}
    BY <1>1, <1>3, OnlyFirstTurn
  <2> QED BY <1>3, <2>1 DEF PrevOnPath
<1>4. ASSUME ~HasLeft(q[Len(q)]), NEW i, IsGreatest(i, RightTurns(q)), IsGreatest(q[i].key, S)
      PROVE  PrevOnPath(p, U)
  <2>1. IsGreatest(i + 1, RightTurns(p))
    BY <1>1, <1>4, LastTurnShifts
  <2>2. i \in 1 .. Len(q)
    BY <1>4 DEF IsGreatest, RightTurns, Extends
  <2>3. p[i + 1] = q[i]
    BY <2>2 DEF Extends
  <2>4. IsGreatest(p[i + 1].key, U)
    BY <1>4, <2>3
  <2> QED BY <1>4, <2>1, <2>4 DEF PrevOnPath
<1> QED BY <1>2, <1>3, <1>4 DEF PrevOnPath

LEMMA PrevIsOnPath ==
  ASSUME Heights = Nat, NEW t \in Tree, NEW k \in Int, Ordered(t), k \in KeysOf(t)
  PROVE  Leads(Path[t][k], t) /\ PrevOnPath(Path[t][k], Smaller(KeysOf(t), k))
<1> DEFINE P == {u \in Tree : Ordered(u) /\ k \in KeysOf(u) =>
                   Leads(Path[u][k], u) /\ PrevOnPath(Path[u][k], Smaller(KeysOf(u), k))}
<1>1. NIL \in P
  BY NILIsATree, NothingInNIL
<1>2. ASSUME NEW u \in Tree, u # NIL, u.left \in P, u.right \in P
      PROVE  u \in P
  <2> SUFFICES ASSUME Ordered(u), k \in KeysOf(u)
               PROVE  Leads(Path[u][k], u) /\ PrevOnPath(Path[u][k], Smaller(KeysOf(u), k))
    OBVIOUS
  <2>1. Joins(u, u.key, u.left, u.right)
    BY <1>2, NodeJoins
  <2> PICK l \in Tree : l = u.left
    BY <1>2, TreeIsBranch DEF IsBranch
  <2> PICK r \in Tree : r = u.right
    BY <1>2, TreeIsBranch DEF IsBranch
  <2> PICK j \in Int : j = u.key
    BY KeyType
  <2> PICK L \in SUBSET Int : L = KeysOf(l)
    BY <2>1 DEF Joins
  <2> PICK R \in SUBSET Int : R = KeysOf(r)
    BY <2>1 DEF Joins
  <2> PICK p : p = Path[u][k]
    OBVIOUS
  <2> PICK U : U = Smaller(KeysOf(u), k)
    OBVIOUS
  <2>2. /\ KeysOf(u) = {j} \cup L \cup R /\ (\A i \in L : i < j) /\ (\A i \in R : j < i)
        /\ Ordered(l) /\ Ordered(r)
    BY <2>1 DEF Joins, SubtreesInOrder, Above, Below
  <2>3. CASE k > j
    <3>1. k \in R /\ r # NIL
      BY <2>2, <2>3, NothingInNIL
    <3> PICK q : q = Path[r][k]
      OBVIOUS
    <3>2. p = <<u>> \o q
      BY <1>2, <2>3, PathGoesOn
    <3>3. Leads(q, r) /\ PrevOnPath(q, Smaller(R, k))
      BY <1>2, <2>2, <3>1
    <3>4. Continues(p, u, q, r)
      BY <3>2, <3>3, PathLeads
    <3>5. Leads(p, u) /\ Extends(p, p[1], q) /\ q[1] = r /\ p[1] = u /\ p[Len(p)] = q[Len(q)]
      BY <3>4 DEF Continues
    <3>6. \A x : IsGreatest(x, Smaller(R, k)) => IsGreatest(x, U)
      BY <2>2, <2>3 DEF Smaller, IsGreatest
    <3>7. Smaller(R, k) = {} => IsGreatest(u.key, U)
      BY <2>2, <2>3 DEF Smaller, IsGreatest
    <3>8. PrevKept(p, q, Smaller(R, k), U)
      BY <3>5, <3>6, <3>7, PrevStays
    <3> QED BY <3>3, <3>5, <3>8 DEF PrevKept
  <2>4. CASE j > k
    <3>1. k \in L /\ l # NIL
      BY <2>2, <2>4, NothingInNIL
    <3> PICK q : q = Path[l][k]
      OBVIOUS
    <3>2. p = <<u>> \o q
      BY <1>2, <2>4, PathGoesOn
    <3>3. Leads(q, l) /\ PrevOnPath(q, Smaller(L, k))
      BY <1>2, <2>2, <3>1
    <3>4. Continues(p, u, q, l)
      BY <3>2, <3>3, PathLeads
    <3>5. Leads(p, u) /\ Extends(p, p[1], q) /\ q[1] = l /\ p[1] = u /\ p[Len(p)] = q[Len(q)]
      BY <3>4 DEF Continues
    <3>6. U = Smaller(L, k)
      BY <2>2, <2>4 DEF Smaller
    <3>7. u.right # q[1]
      BY <1>2, <3>1, <3>5, SubtreesDiffer
    <3>8. PrevKept(p, q, U, U)
      BY <3>5, <3>7, PrevStays
    <3> QED BY <3>3, <3>5, <3>6, <3>8 DEF PrevKept
  <2>5. CASE k = j
    <3>1. p = <<u>>
      BY <1>2, <2>5, PathGoesOn
    <3>2. Len(p) = 1 /\ p[1] = u /\ p \in Seq(Tree)
      BY <3>1
    <3>3. RightTurns(p) = {}
      BY <3>2 DEF RightTurns
    <3>4. Leads(p, u)
      BY <1>2, <3>2 DEF Leads
    <3>5. U = L
      BY <2>2, <2>5 DEF Smaller
    <3>6. CASE HasLeft(u)
      <4>1. IsGreatest(last[l], L)
        BY <2>2, <3>6, LastIsGreatest DEF HasLeft, IsNode
      <4> QED BY <3>2, <3>4, <3>5, <3>6, <4>1 DEF PrevOnPath
    <3>7. CASE ~HasLeft(u)
      <4>1. L = {}
        BY <1>2, <3>7, NothingInNIL DEF HasLeft, IsNode
      <4> QED BY <3>2, <3>3, <3>4, <3>5, <3>7, <4>1 DEF PrevOnPath
    <3> QED BY <3>6, <3>7
  <2> QED BY <2>3, <2>4, <2>5
<1> HIDE DEF P
<1>3. Tree \subseteq P
  BY <1>1, <1>2, TreeInduction, Zenon
<1> QED BY <1>3 DEF P

LEMMA NextFinds ==
  ASSUME Heights = Nat, NEW t \in Tree, NEW k \in Int, Ordered(t), k \in KeysOf(t)
  PROVE  next(t, k) = Least(Greater(KeysOf(t), k))
<1> PICK S \in SUBSET Int : S = Greater(KeysOf(t), k)
  BY KeysAreNumbers DEF Greater
<1> PICK p : p = Path[t][k]
  OBVIOUS
<1>1. NextOnPath(p, S)
  BY NextIsOnPath
<1>2. next(t, k) = IF HasRight(p[Len(p)]) THEN first[p[Len(p)].right] ELSE UpFrom(p, TRUE)
  BY DEF next
<1>3. UpFrom(p, TRUE) = IF LeftTurns(p) = {} THEN NoKey ELSE p[Max(LeftTurns(p))].key
  BY UpFromIs
<1>4. CASE HasRight(p[Len(p)])
  <2>1. IsLeast(next(t, k), S)
    BY <1>1, <1>2, <1>4 DEF NextOnPath
  <2> QED BY <2>1, LeastIs
<1>5. CASE ~HasRight(p[Len(p)]) /\ S = {} /\ LeftTurns(p) = {}
  <2>1. next(t, k) = NoKey
    BY <1>2, <1>3, <1>5
  <2> QED BY <2>1, <1>5 DEF Least
<1>6. ASSUME ~HasRight(p[Len(p)]), NEW i, IsGreatest(i, LeftTurns(p)), IsLeast(p[i].key, S)
      PROVE  next(t, k) = Least(S)
  <2>0. Len(p) \in Nat
    BY NextIsOnPath DEF Leads
  <2>a. LeftTurns(p) \in SUBSET Int
    BY <2>0 DEF LeftTurns
  <2>b. i \in LeftTurns(p)
    BY <1>6 DEF IsGreatest
  <2>1. LeftTurns(p) \in SUBSET Int /\ LeftTurns(p) # {}
    BY <2>a, <2>b
  <2>2. Max(LeftTurns(p)) = i
    BY <1>6, <2>1, MaxIs
  <2>3. next(t, k) = p[i].key
    BY <1>2, <1>3, <1>6, <2>1, <2>2
  <2> QED BY <1>6, <2>3, LeastIs
<1> QED BY <1>1, <1>4, <1>5, <1>6 DEF NextOnPath

LEMMA PrevFinds ==
  ASSUME Heights = Nat, NEW t \in Tree, NEW k \in Int, Ordered(t), k \in KeysOf(t)
  PROVE  prev(t, k) = Greatest(Smaller(KeysOf(t), k))
<1> PICK S \in SUBSET Int : S = Smaller(KeysOf(t), k)
  BY KeysAreNumbers DEF Smaller
<1> PICK p : p = Path[t][k]
  OBVIOUS
<1>1. PrevOnPath(p, S)
  BY PrevIsOnPath
<1>2. prev(t, k) = IF HasLeft(p[Len(p)]) THEN last[p[Len(p)].left] ELSE UpFrom(p, FALSE)
  BY DEF prev
<1>3. UpFrom(p, FALSE) = IF RightTurns(p) = {} THEN NoKey ELSE p[Max(RightTurns(p))].key
  BY UpFromIs
<1>4. CASE HasLeft(p[Len(p)])
  <2>1. IsGreatest(prev(t, k), S)
    BY <1>1, <1>2, <1>4 DEF PrevOnPath
  <2> QED BY <2>1, GreatestIs
<1>5. CASE ~HasLeft(p[Len(p)]) /\ S = {} /\ RightTurns(p) = {}
  <2>1. prev(t, k) = NoKey
    BY <1>2, <1>3, <1>5
  <2> QED BY <2>1, <1>5 DEF Greatest
<1>6. ASSUME ~HasLeft(p[Len(p)]), NEW i, IsGreatest(i, RightTurns(p)), IsGreatest(p[i].key, S)
      PROVE  prev(t, k) = Greatest(S)
  <2>0. Len(p) \in Nat
    BY PrevIsOnPath DEF Leads
  <2>a. RightTurns(p) \in SUBSET Int
    BY <2>0 DEF RightTurns
  <2>b. i \in RightTurns(p)
    BY <1>6 DEF IsGreatest
  <2>1. RightTurns(p) \in SUBSET Int /\ RightTurns(p) # {}
    BY <2>a, <2>b
  <2>2. Max(RightTurns(p)) = i
    BY <1>6, <2>1, MaxIs
  <2>3. prev(t, k) = p[i].key
    BY <1>2, <1>3, <1>6, <2>1, <2>2
  <2> QED BY <1>6, <2>3, GreatestIs
<1> QED BY <1>1, <1>4, <1>5, <1>6 DEF PrevOnPath

LEMMA IterIs ==
  ASSUME Heights = Nat, NEW t \in Tree, NEW k \in Int, Ordered(t)
  PROVE  iter(t, k) = Least(AtLeast(KeysOf(t), k))
<1> PICK S \in SUBSET Int : S = AtLeast(KeysOf(t), k)
  BY KeysAreNumbers DEF AtLeast
<1>1. Found(iter(t, k), KeysOf(t), k, NoKey)
  BY IterFinds, NoKey \in Int DEF iter, NoKey
<1>2. CASE S = {} /\ iter(t, k) = NoKey
  BY <1>2 DEF Least
<1>3. CASE IsLeast(iter(t, k), S)
  BY <1>3, LeastIs
<1> QED BY <1>1, <1>2, <1>3 DEF Found

\* Whatever is inserted and deleted, a search finds the key's node and nothing
\* else, first and last are the ends, and next, prev and iter find the neighbours.
THEOREM LookupsAreRight ==
  ASSUME Heights = Nat
  PROVE  MapSpec => []LookupsFind
<1>1. MapInv => LookupsFind
  <2> SUFFICES ASSUME MapInv PROVE LookupsFind
    OBVIOUS
  <2>1. root \in Tree /\ Ordered(root) /\ KeysOf(root) = keys /\ Keys \subseteq Int /\ keys \subseteq Keys
    BY KeysAreKeys DEF MapInv
  <2>2. first[root] = Least(keys) /\ last[root] = Greatest(keys)
    BY <2>1, EndsAreEnds
  <2>3. \A k \in Keys : search[root][k] = IF k \in keys THEN k ELSE NoKey
    BY <2>1, SearchFinds
  <2>4. \A k \in Keys : iter(root, k) = Least({j \in keys : j >= k})
    BY <2>1, IterIs DEF AtLeast
  <2>5. \A k \in keys : next(root, k) = Least({j \in keys : j > k})
    BY <2>1, NextFinds DEF Greater
  <2>6. \A k \in keys : prev(root, k) = Greatest({j \in keys : j < k})
    BY <2>1, PrevFinds DEF Smaller
  <2> QED BY <2>2, <2>3, <2>4, <2>5, <2>6 DEF LookupsFind
<1> QED BY <1>1, Invariance, PTL
=============================================================================
