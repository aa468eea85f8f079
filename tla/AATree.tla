-------------------------------- MODULE AATree --------------------------------
(***************************************************************************)
(* The AA tree of chiba/concurrency/aatree.h, the map of the paused and of *)
(* the detached coroutines.  A node is the record of its key, its level    *)
(* and its subtrees; a function of the code that changes a node and        *)
(* returns it is an operator from the old tree to the new one.  AATreeMap  *)
(* has the tree's public operations, Sco puts the nodes into memory, and   *)
(* AATreeProofs the theorems.                                              *)
(***************************************************************************)
EXTENDS Integers, FiniteSets, FiniteSetsExt, Sequences

CONSTANT Heights   \* the trees are those of these heights and of the lesser ones:
                   \* Nat, of which one great enough is all that TLC can use

ASSUME HeightsAssumption == Heights \subseteq Nat

NoKey == 0
NIL == [key |-> NoKey, level |-> 0]

\* The trees of at most a height.
Trees[h \in Nat] ==
  IF h = 0 THEN {NIL}
  ELSE {NIL} \cup [key : Int, level : Nat \ {0}, left : Trees[h - 1], right : Trees[h - 1]]

Tree == UNION {Trees[h] : h \in Heights}

IsNode(t) == t # NIL
Leaf(k) == [key |-> k, level |-> 1, left |-> NIL, right |-> NIL]
HasLeft(t)  == IsNode(t) /\ IsNode(t.left)
HasRight(t) == IsNode(t) /\ IsNode(t.right)

-----------------------------------------------------------------------------
(* Rebalancing.                                                            *)

skew(t) ==
  IF HasLeft(t) /\ t.left.level = t.level
    THEN [t.left EXCEPT !.right = [t EXCEPT !.left = t.left.right]]
    ELSE t

split(t) ==
  IF HasRight(t) /\ HasRight(t.right) /\ t.right.right.level = t.level
    THEN [t.right EXCEPT !.left = [t EXCEPT !.right = t.right.left], !.level = @ + 1]
    ELSE t

\* The level a node may have over its children, of which it has one at least.
LevelOver(t) == 1 + (IF HasLeft(t) /\ HasRight(t) THEN Min({t.left.level, t.right.level}) ELSE 0)

decrease_level(t) ==
  IF (HasLeft(t) \/ HasRight(t)) /\ LevelOver(t) < t.level
    THEN [t EXCEPT !.level = LevelOver(t),
                   !.right = IF HasRight(t) /\ LevelOver(t) < t.right.level
                               THEN [t.right EXCEPT !.level = LevelOver(t)] ELSE @]
    ELSE t

\* A plausible mistake: the right subtree is not looked at.
delete_fixup_top(t) == split(skew(decrease_level(t)))

skew_right(t) == [t EXCEPT !.right = skew(@)]

skew_right_right(t) ==
  IF HasRight(t) /\ HasRight(t.right) THEN [t EXCEPT !.right.right = skew(@)] ELSE t

split_right(t) == [t EXCEPT !.right = split(@)]

delete_fixup(t) == split_right(split(skew_right_right(skew_right(skew(decrease_level(t))))))

-----------------------------------------------------------------------------
(* insert0, delete_first0, delete_last0, delete0.  The key of the replaced  *)
(* or deleted node is computed beside the new tree.                        *)

search[t \in Tree] == [k \in Int |->
  IF ~IsNode(t) THEN NoKey
  ELSE IF k < t.key THEN search[t.left][k]
  ELSE IF k > t.key THEN search[t.right][k]
  ELSE t.key]

insert0[t \in Tree] == [k \in Int |->
  split(skew(
    IF ~IsNode(t) THEN Leaf(k)
    ELSE IF k < t.key THEN [t EXCEPT !.left = insert0[@][k]]
    ELSE IF k > t.key THEN [t EXCEPT !.right = insert0[@][k]]
    ELSE t))]

first[t \in Tree] == IF HasLeft(t) THEN first[t.left] ELSE t.key

last[t \in Tree] == IF HasRight(t) THEN last[t.right] ELSE t.key

delete_first0[t \in Tree] ==
  IF ~IsNode(t) THEN t
  ELSE IF ~HasLeft(t) THEN t.right
  ELSE delete_fixup([t EXCEPT !.left = delete_first0[@]])

delete_last0[t \in Tree] ==
  IF ~IsNode(t) THEN t
  ELSE IF ~HasRight(t) THEN t.left
  ELSE delete_fixup([t EXCEPT !.right = delete_last0[@]])

\* A plausible mistake: the next smaller node is put in place and left where it was.
CopyLast(t) == [t EXCEPT !.key = last[t.left]]

\* The node's place goes to the next larger or the next smaller one.
Replace(t) ==
  IF HasLeft(t)
    THEN [t EXCEPT !.key = last[t.left], !.left = delete_last0[@]]
    ELSE [t EXCEPT !.key = first[t.right], !.right = delete_first0[@]]

delete0[t \in Tree] == [k \in Int |->
  IF ~IsNode(t) THEN t
  ELSE IF k < t.key THEN delete_fixup([t EXCEPT !.left = delete0[@][k]])
  ELSE IF k > t.key THEN delete_fixup([t EXCEPT !.right = delete0[@][k]])
  ELSE IF HasLeft(t) \/ HasRight(t) THEN delete_fixup(Replace(t))
  ELSE NIL]

-----------------------------------------------------------------------------
(* iter, next, prev.  The code walks up with the help of parent.           *)

iter0[t \in Tree] == [k \in Int |-> [found \in Int |->
  IF ~IsNode(t) THEN found
  ELSE IF k < t.key THEN iter0[t.left][k][t.key]
  ELSE IF k > t.key THEN iter0[t.right][k][found]
  ELSE t.key]]

iter(t, k) == iter0[t][k][NoKey]

\* The node of a key, and the nodes above it from the root.
Path[t \in Tree] == [k \in Int |->
  IF ~IsNode(t) THEN <<>>
  ELSE <<t>> \o (IF k < t.key THEN Path[t.left][k]
                 ELSE IF k > t.key THEN Path[t.right][k] ELSE <<>>)]

\* Up from the end of a path, to the first node above whose subtree on the side
\* (the left one for next) the walk comes from.
UpFrom(path, fromLeft) ==
  LET child(t) == IF fromLeft THEN t.left ELSE t.right
      above == {i \in 1 .. Len(path) - 1 : child(path[i]) = path[i + 1]}
  IN IF above = {} THEN NoKey ELSE path[Max(above)].key

\* A plausible mistake: nothing is looked for above the node.
nextBelow(root, k) ==
  LET path == Path[root][k] t == path[Len(path)] IN
  IF HasRight(t) THEN first[t.right] ELSE NoKey

next(root, k) ==
  LET path == Path[root][k] t == path[Len(path)] IN
  IF HasRight(t) THEN first[t.right] ELSE UpFrom(path, TRUE)

prev(root, k) ==
  LET path == Path[root][k] t == path[Len(path)] IN
  IF HasLeft(t) THEN last[t.left] ELSE UpFrom(path, FALSE)

-----------------------------------------------------------------------------
(* What a tree holds.                                                      *)

Nodes[t \in Tree] == IF IsNode(t) THEN {t} \cup Nodes[t.left] \cup Nodes[t.right] ELSE {}

Size[t \in Tree] == IF IsNode(t) THEN 1 + Size[t.left] + Size[t.right] ELSE 0

KeysOf(t) == {n.key : n \in Nodes[t]}
===============================================================================
