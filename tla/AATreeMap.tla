------------------------------ MODULE AATreeMap ------------------------------
(***************************************************************************)
(* The public operations on one AA tree in any order, beside the set of    *)
(* keys it should hold.                                                    *)
(***************************************************************************)
EXTENDS AATree

CONSTANT MaxKey    \* bound: the keys are 1 .. MaxKey

ASSUME MaxKeyAssumption == MaxKey \in Nat \ {0}

Keys == 1 .. MaxKey

VARIABLES
  root,     \* the tree
  keys      \* the keys inserted and not deleted since

mapvars == <<root, keys>>

Least(S)    == IF S = {} THEN NoKey ELSE Min(S)
Greatest(S) == IF S = {} THEN NoKey ELSE Max(S)

MapInit == root = NIL /\ keys = {}

Insert(k) ==
  /\ root' = insert0[root][k]
  /\ keys' = keys \cup {k}

Delete(k) ==
  /\ root' = delete0[root][k]
  /\ keys' = keys \ {k}

DeleteFirst ==
  /\ root' = delete_first0[root]
  /\ keys' = keys \ {Least(keys)}

DeleteLast ==
  /\ root' = delete_last0[root]
  /\ keys' = keys \ {Greatest(keys)}

MapNext ==
  \/ \E k \in Keys : Insert(k) \/ Delete(k)
  \/ DeleteFirst \/ DeleteLast

MapSpec == MapInit /\ [][MapNext]_mapvars

-----------------------------------------------------------------------------
(* Properties.                                                             *)

\* The tree holds the keys that were put in and not taken out, each once and in
\* search order, through all rotations.
HoldsKeys ==
  /\ KeysOf(root) = keys /\ Size[root] = Cardinality(keys)
  /\ \A t \in Nodes[root] :
       (\A k \in KeysOf(t.left) : k < t.key) /\ (\A k \in KeysOf(t.right) : t.key < k)

\* The rules of an AA tree, which bound its height: a left child is one level
\* below, a right child at most one, a right grandchild at least one, and every
\* node above level one has two children.
IsBalanced ==
  \A t \in Nodes[root] :
    /\ t.left.level = t.level - 1
    /\ t.right.level \in {t.level - 1, t.level}
    /\ HasRight(t) => t.right.right.level < t.level
    /\ t.level > 1 => HasLeft(t) /\ HasRight(t)

\* A search, which insertions and deletions answer with, finds the key's node and
\* nothing else; first and last, which delete_first and delete_last answer with,
\* are the ends; a walk with next or prev from any node, and one from any key
\* with iter, meets the keys in order and none twice.
LookupsFind ==
  /\ first[root] = Least(keys) /\ last[root] = Greatest(keys)
  /\ \A k \in Keys :
       /\ search[root][k] = IF k \in keys THEN k ELSE NoKey
       /\ iter(root, k) = Least({j \in keys : j >= k})
  /\ \A k \in keys :
       /\ next(root, k) = Least({j \in keys : j > k})
       /\ prev(root, k) = Greatest({j \in keys : j < k})
=============================================================================
