----------------------------- MODULE BTreeClient -----------------------------
(***************************************************************************)
(* The index as myjql.c uses it: a key is inserted when it is not there    *)
(* and deleted when it is: a few keys in any order, or first every key in  *)
(* ascending or descending order and then deletions in any order, which    *)
(* puts trees of three levels in reach.  A row is the key of its record    *)
(* here, and the heap counts the copies of each key that the handlers have *)
(* made and not deleted; Myjql has the real records.                       *)
(***************************************************************************)
EXTENDS BTree, FiniteSets, FiniteSetsExt

CONSTANTS
  Key,         \* a set of integers
  FewKeys,     \* bound: the keys that are inserted in any order
  MaxDeletes   \* bound: deletions after all keys were inserted in order

VARIABLES
  tree,     \* the index
  keys,     \* the keys it should hold
  mode,     \* how keys are inserted
  deletes   \* deletions so far

vars == <<tree, keys, mode, deletes>>

KeyCmp(copies, j, k) == j - k
CopyKey(copies, k) == [heap |-> [copies EXCEPT ![k] = @ + 1], rid |-> k]
DropCopy(copies, k) == [copies EXCEPT ![k] = @ - 1]

Init ==
  /\ tree = EmptyTree([k \in Key |-> 0])
  /\ keys = {}
  /\ mode \in {"any", "up", "down"}
  /\ deletes = 0

Insert(k) ==
  /\ k \notin keys
  /\ mode = "any"  => k \in FewKeys
  /\ mode = "up"   => deletes = 0 /\ k = Min(Key \ keys)
  /\ mode = "down" => deletes = 0 /\ k = Max(Key \ keys)
  /\ tree' = b_tree_insert(tree, k)
  /\ keys' = keys \cup {k}
  /\ UNCHANGED <<mode, deletes>>

Delete(k) ==
  /\ k \in keys
  /\ mode # "any" => deletes < MaxDeletes /\ (deletes > 0 \/ keys = Key)
  /\ tree' = b_tree_delete(tree, k)
  /\ keys' = keys \ {k}
  /\ deletes' = IF mode = "any" THEN 0 ELSE deletes + 1
  /\ UNCHANGED mode

Next == \E k \in Key : Insert(k) \/ Delete(k)

Spec == Init /\ [][Next]_vars

-----------------------------------------------------------------------------
(* Rows and children have their types; no copy is deleted that was not made. *)
TypeOK ==
  /\ tree.root \in Page \cup {Nil} /\ tree.free \in Page \cup {Nil}
  /\ tree.length \in 1 .. NPages
  /\ tree.heap \in [Key -> Nat]
  /\ \A a \in Page : /\ ToSet(tree.node[a].row) \subseteq Key
                     /\ ToSet(tree.node[a].child) \subseteq Page

(* b_tree_search finds exactly the keys that were inserted and not deleted,
   whatever splits, redistributions and merges there were between. *)
SearchExact == \A k \in Key : b_tree_search(tree, k) = IF k \in keys THEN k ELSE Nil

(* All leaves are at one depth, no node has more than 2 * DEGREE keys, none but
   the root fewer than DEGREE, and an inner node has one child more. *)
Balanced ==
  tree.root # Nil =>
    /\ Cardinality(LeafDepths(tree, tree.root)) = 1
    /\ \A a \in TreePages(tree) :
         LET n == tree.node[a]
         IN  /\ N(tree, a) <= 2 * DEGREE
             /\ a # tree.root => N(tree, a) >= DEGREE
             /\ ~n.leaf => Len(n.child) = N(tree, a) + 1

(* Every page but the control block is in the tree or on the free list, and
   none is in both: pages of merged nodes are found again and none is used
   twice. *)
PagesAccountedFor ==
  /\ TreePages(tree) \cap FreePages(tree) = {}
  /\ TreePages(tree) \cup FreePages(tree) = 1 .. tree.length - 1

(* The copies of keys that exist are the separators in the inner nodes, one
   copy each: none leaks in the record table, none is deleted while in use. *)
CopiesExact ==
  \A k \in Key :
    tree.heap[k] = Cardinality({a \in InnerPages(tree) : k \in ToSet(tree.node[a].row)})

(* Between operations no page of the index is pinned, and none of them was
   without a frame: whatever branch was taken, each page that was fetched is
   released once, and CACHE_PAGE frames are enough. *)
PinsBalanced == Unpinned(tree)

(* The file grows only when no page is free. *)
GrowsOnlyWhenFull ==
  [][tree'.length > tree.length => tree'.free = Nil]_vars
=============================================================================
