-------------------------------- MODULE BTree --------------------------------
(***************************************************************************)
(* The index (src/b_tree.c) as operators on one record t:                  *)
(*   root, free   the control block: root_node and free_node_head          *)
(*   length       pages in the file, page 0 being the control block        *)
(*   node         the other pages; n is the length of row                  *)
(*   heap         the tables that cmp reads and the two handlers change    *)
(*   pins         pins[a]: calls of get_page(a) less calls of release(a)   *)
(*   ub           a page was asked for while every frame was pinned        *)
(* The pages are those of the array that the buffer pool implements        *)
(* (PageStore).  Positions in row and child count from 1.  The loops that  *)
(* shift entries are insertions into and removals from a sequence; a split *)
(* writes the same two halves whether the new entry belongs to the left    *)
(* one, to the right one or between them, and the model writes them once.  *)
(***************************************************************************)
EXTENDS Integers, SequencesExt

CONSTANTS
  DEGREE,
  NPages,                \* bound: pages of the file
  CACHE_PAGE,            \* frames of the pool
  RowRowCmp(_, _, _),    \* cmp of two rows, in a heap
  PtrRowCmp(_, _, _),    \* cmp of a key and a row, in a heap
  InsertHandler(_, _),   \* insert_handler: [heap, rid of the copy]
  DeleteHandler(_, _)    \* delete_handler: the heap after it

ASSUME BTreeAssumption == DEGREE \in Nat /\ DEGREE >= 2 /\ CACHE_PAGE \in Nat

Nil == -1
Page == 1 .. NPages - 1

FreshNode == [leaf |-> TRUE, next |-> Nil, row |-> <<>>, child |-> <<>>]

(* b_tree_init on a new file. *)
EmptyTree(heap) ==
  [root |-> Nil, free |-> Nil, length |-> 1, node |-> [a \in Page |-> FreshNode],
   heap |-> heap, pins |-> [a \in 0 .. NPages - 1 |-> 0], ub |-> FALSE]

(* b_tree_close and b_tree_init: the file is as it was, the pins were those of
   the pool. *)
b_tree_reopen(t) == [t EXCEPT !.pins = [a \in DOMAIN @ |-> 0]]

get_page(t, a) ==
  [t EXCEPT !.pins[a] = @ + 1,
            !.ub = @ \/ Cardinality({b \in DOMAIN t.pins : t.pins[b] # 0}) >= CACHE_PAGE]

release(t, a) == [t EXCEPT !.pins[a] = @ - 1]
release2(t, a, b) == release(release(t, a), b)
release3(t, a, b, c) == release(release2(t, a, b), c)

N(t, a) == Len(t.node[a].row)

(* Where an entry for rid goes, and the child under which it is: before the
   first row that is greater. *)
Pos(t, a, rid) ==
  LET row == t.node[a].row
      i   == SelectInSeq(row, LAMBDA r : RowRowCmp(t.heap, rid, r) < 0)
  IN  IF i = 0 THEN Len(row) + 1 ELSE i

ChildFor(t, a, rid) == t.node[a].child[Pos(t, a, rid)]

(* A page from the free list, or one more page of the file. *)
NewPage(t) == IF t.free # Nil THEN t.free ELSE t.length

(* Mutant: the page stays on the free list and the file grows. *)
TakePageGrows(t) == get_page([t EXCEPT !.length = @ + 1], NewPage(t))

TakePage(t) ==
  get_page(IF t.free # Nil THEN [t EXCEPT !.free = t.node[t.free].next]
           ELSE [t EXCEPT !.length = @ + 1],
           NewPage(t))

(* Mutant: the page is not put on the list. *)
FreePageNot(t, a) ==
  release([t EXCEPT !.node[a] = [@ EXCEPT !.row = <<>>, !.child = <<>>]], a)

(* Page a, which the caller holds, goes on the free list and is released. *)
FreePage(t, a) ==
  LET t1 == get_page(t, 0)
  IN  release2([t1 EXCEPT !.node[a] = [@ EXCEPT !.row = <<>>, !.child = <<>>, !.next = t.free],
                          !.free = a],
               0, a)

(* The copy of a key in the tables is deleted. *)
DeleteCopy(t, rid) == [t EXCEPT !.heap = DeleteHandler(@, rid)]

-----------------------------------------------------------------------------
(* insert_entry: the tree after the insertion, and the new child entry, the
   key and the address of a node to be added to the parent; ptr is Nil when
   there is none.  The parts below are called with page a pinned. *)

Done(t) == [t |-> t, key |-> Nil, ptr |-> Nil]

InsertIntoLeaf(t, a, rid) ==
  Done(release([t EXCEPT !.node[a].row = InsertAt(@, Pos(t, a, rid), rid)], a))

(* The upper part of a leaf that is full goes to page b; the key of its first
   row is copied for the parent. *)
DivideLeaf(t, a, b, rid) ==
  LET all   == InsertAt(t.node[a].row, Pos(t, a, rid), rid)
      upper == SubSeq(all, DEGREE + 1, 2 * DEGREE + 1)
      copy  == InsertHandler(t.heap, upper[1])
  IN  [t   |-> [t EXCEPT !.node[a].row = SubSeq(all, 1, DEGREE),
                         !.node[b] = [leaf |-> TRUE, next |-> Nil, row |-> upper,
                                      child |-> <<>>],
                         !.heap = copy.heap],
       key |-> copy.rid,
       ptr |-> b]

(* Mutant: the parent gets the row itself and no copy of it. *)
SplitLeafNoCopy(t, a, rid) ==
  LET b  == NewPage(t)
      d  == DivideLeaf(release(TakePage(get_page(t, 0)), 0), a, b, rid)
      t1 == [d.t EXCEPT !.heap = t.heap]
  IN  [t |-> release2(t1, a, b), key |-> t1.node[b].row[1], ptr |-> b]

SplitLeaf(t, a, rid) ==
  LET b == NewPage(t)
      d == DivideLeaf(release(TakePage(get_page(t, 0)), 0), a, b, rid)
  IN  [d EXCEPT !.t = release2(@, a, b)]

(* A new root above a and b, on page r. *)
GrowRoot(t, r, a, key, b) ==
  LET t1 == get_page(release3(t, a, b, r), 0)
  IN  release([t1 EXCEPT !.node[r] = [leaf |-> FALSE, next |-> Nil, row |-> <<key>>,
                                      child |-> <<a, b>>],
                         !.root = r],
              0)

SplitRootLeaf(t, a, rid) ==
  LET b  == NewPage(t)
      t1 == TakePage(get_page(t, 0))
      r  == NewPage(t1)
      d  == DivideLeaf(release(TakePage(t1), 0), a, b, rid)
  IN  [d EXCEPT !.t = GrowRoot(d.t, r, a, d.key, b)]

AddEntry(t, a, key, ptr) ==
  LET i == Pos(t, a, key)
  IN  Done(release([t EXCEPT !.node[a].row = InsertAt(@, i, key),
                             !.node[a].child = InsertAt(@, i + 1, ptr)], a))

(* The upper part of a full inner node goes to page b; the key in the middle
   goes up. *)
DivideNode(t, a, b, key, ptr) ==
  LET i   == Pos(t, a, key)
      row == InsertAt(t.node[a].row, i, key)
      ch  == InsertAt(t.node[a].child, i + 1, ptr)
  IN  [t   |-> [t EXCEPT !.node[a].row = SubSeq(row, 1, DEGREE),
                         !.node[a].child = SubSeq(ch, 1, DEGREE + 1),
                         !.node[b] = [leaf |-> FALSE, next |-> Nil,
                                      row |-> SubSeq(row, DEGREE + 2, 2 * DEGREE + 1),
                                      child |-> SubSeq(ch, DEGREE + 2, 2 * DEGREE + 2)]],
       key |-> row[DEGREE + 1],
       ptr |-> b]

SplitNode(t, a, key, ptr) ==
  LET b == NewPage(t)
      d == DivideNode(release(TakePage(get_page(t, 0)), 0), a, b, key, ptr)
  IN  [d EXCEPT !.t = release2(@, a, b)]

SplitRootNode(t, a, key, ptr) ==
  LET b  == NewPage(t)
      t1 == TakePage(get_page(t, 0))
      r  == NewPage(t1)
      d  == DivideNode(release(TakePage(t1), 0), a, b, key, ptr)
  IN  [d EXCEPT !.t = GrowRoot(d.t, r, a, d.key, b)]

(* The page is released while the child is visited and fetched again after. *)
RECURSIVE insert_entry(_, _, _, _)
insert_entry(t, a, rid, root) ==
  LET t1 == get_page(t, a)
  IN  IF t.node[a].leaf
      THEN IF N(t, a) < 2 * DEGREE THEN InsertIntoLeaf(t1, a, rid)
           ELSE IF a = root THEN SplitRootLeaf(t1, a, rid)
           ELSE SplitLeaf(t1, a, rid)
      ELSE LET e  == insert_entry(release(t1, a), ChildFor(t, a, rid), rid, root)
               t2 == get_page(e.t, a)
           IN  IF e.ptr = Nil THEN Done(release(t2, a))
               ELSE IF N(t2, a) < 2 * DEGREE THEN AddEntry(t2, a, e.key, e.ptr)
               ELSE IF a = root THEN SplitRootNode(t2, a, e.key, e.ptr)
               ELSE SplitNode(t2, a, e.key, e.ptr)

(* b_tree_insert.  The first leaf of an empty tree is taken from the free list
   or is page 1; page 1 is said to be the root, and released, either way. *)
b_tree_insert(t, rid) ==
  LET t1 == get_page(t, 0)
      a  == IF t.root # Nil THEN t.root ELSE IF t.free # Nil THEN t.free ELSE 1
      t2 == get_page(t1, a)
      t3 == IF t.root # Nil THEN t2
            ELSE [t2 EXCEPT !.free = IF @ # Nil THEN t.node[@].next ELSE @,
                            !.length = IF t.free = Nil /\ @ = 1 THEN 2 ELSE @,
                            !.node[a] = FreshNode,
                            !.root = 1]
  IN  insert_entry(release2(t3, 0, t3.root), t3.root, rid, t3.root).t

-----------------------------------------------------------------------------
(* delete_entry: the tree after the deletion, and the position in the parent
   of the entry to be removed there, Nil when there is none.  p is the
   parent, Nil for the root.  The parts below are called with page a pinned,
   those that need them with the parent p and the neighbour b pinned too. *)

Kept(t) == [t |-> t, old |-> Nil]

(* Where node a is among the children of p. *)
Place(t, p, a) == SelectInSeq(t.node[p].child, LAMBDA c : c = a)

RemoveKey(t, a, rid) ==
  LET i == SelectInSeq(t.node[a].row, LAMBDA r : RowRowCmp(t.heap, rid, r) = 0)
  IN  [t EXCEPT !.node[a].row = RemoveAt(@, i)]

DeleteFromRootLeaf(t, a, rid) ==
  LET t1 == RemoveKey(t, a, rid)
  IN  Kept(IF N(t1, a) = 0 THEN [FreePage(t1, a) EXCEPT !.root = Nil] ELSE release(t1, a))

(* Separator i of p is replaced by a copy of the key of rid. *)
NewSeparator(t, p, i, rid) ==
  LET t1   == DeleteCopy(t, t.node[p].row[i])
      copy == InsertHandler(t1.heap, rid)
  IN  [t1 EXCEPT !.node[p].row[i] = copy.rid, !.heap = copy.heap]

(* Mutant: the parent is not released. *)
LeafFromRightKeepsPin(t, a, p, i, b, rid) ==
  LET t1 == RemoveKey(t, a, rid)
      t2 == [t1 EXCEPT !.node[a].row = Append(@, Head(t.node[b].row)), !.node[b].row = Tail(@)]
  IN  Kept(release2(NewSeparator(t2, p, i, Head(t2.node[b].row)), a, b))

LeafFromRight(t, a, p, i, b, rid) ==
  LET t1 == RemoveKey(t, a, rid)
      t2 == [t1 EXCEPT !.node[a].row = Append(@, Head(t.node[b].row)), !.node[b].row = Tail(@)]
  IN  Kept(release3(NewSeparator(t2, p, i, Head(t2.node[b].row)), a, p, b))

LeafMergeRight(t, a, p, i, b, rid) ==
  LET t1 == RemoveKey(release(t, p), a, rid)
      t2 == [t1 EXCEPT !.node[a].row = @ \o t1.node[b].row]
  IN  [t |-> FreePage(release(t2, a), b), old |-> i]

LeafFromLeft(t, a, p, i, b, rid) ==
  LET last == Last(t.node[b].row)
      t1   == RemoveKey(t, a, rid)
      t2   == [t1 EXCEPT !.node[a].row = <<last>> \o @, !.node[b].row = Front(@)]
  IN  Kept(release3(NewSeparator(t2, p, i - 1, last), a, p, b))

LeafMergeLeft(t, a, p, i, b, rid) ==
  LET t1 == RemoveKey(release(t, p), a, rid)
      t2 == [t1 EXCEPT !.node[b].row = @ \o t1.node[a].row]
  IN  [t |-> FreePage(release(t2, b), a), old |-> i - 1]

(* A right neighbour is preferred, the last child has only a left one. *)
DeleteFromLeaf(t, a, p, rid) ==
  LET i     == Place(t, p, a)
      right == i # N(t, p) + 1
      b     == t.node[p].child[IF right THEN i + 1 ELSE i - 1]
      t1    == get_page(get_page(t, p), b)
  IN  CASE right /\ N(t, b) > DEGREE  -> LeafFromRight(t1, a, p, i, b, rid)
        [] right /\ N(t, b) <= DEGREE -> LeafMergeRight(t1, a, p, i, b, rid)
        [] ~right /\ N(t, b) > DEGREE -> LeafFromLeft(t1, a, p, i, b, rid)
        [] OTHER                      -> LeafMergeLeft(t1, a, p, i, b, rid)

(* Mutant: the copy is deleted on every level. *)
DropEntryDeletesAlways(t, a, old) ==
  [DeleteCopy(t, t.node[a].row[old])
     EXCEPT !.node[a].row = RemoveAt(@, old), !.node[a].child = RemoveAt(@, old + 1)]

(* Entry old of inner node a goes.  Above the leaves its key is a copy that
   nobody else has; further up it has been moved down into the child. *)
DropEntry(t, a, old) ==
  LET c  == t.node[a].child[1]
      t1 == get_page(t, c)
      t2 == release(IF t.node[c].leaf THEN DeleteCopy(t1, t.node[a].row[old]) ELSE t1, c)
  IN  [t2 EXCEPT !.node[a].row = RemoveAt(@, old), !.node[a].child = RemoveAt(@, old + 1)]

DropFromRoot(t, a, old) ==
  LET t1 == DropEntry(t, a, old)
  IN  Kept(IF N(t1, a) = 0
           THEN [FreePage(t1, a) EXCEPT !.root = t1.node[a].child[1]] ELSE release(t1, a))

(* Mutant: the neighbour keeps the child. *)
NodeFromRightNoChild(t, a, p, i, b, old) ==
  LET t1 == DropEntry(t, a, old)
  IN  Kept(release3([t1 EXCEPT !.node[a].row = Append(@, t1.node[p].row[i]),
                               !.node[p].row[i] = Head(t1.node[b].row),
                               !.node[b].row = Tail(@)], a, p, b))

(* A neighbour's entry moves through the parent. *)
NodeFromRight(t, a, p, i, b, old) ==
  LET t1 == DropEntry(t, a, old)
  IN  Kept(release3([t1 EXCEPT !.node[a].row = Append(@, t1.node[p].row[i]),
                               !.node[a].child = Append(@, Head(t1.node[b].child)),
                               !.node[p].row[i] = Head(t1.node[b].row),
                               !.node[b].row = Tail(@),
                               !.node[b].child = Tail(@)], a, p, b))

(* Mutant: the separator is not moved down. *)
NodeMergeRightNoSeparator(t, a, p, i, b, old) ==
  LET t1 == release(DropEntry(t, a, old), p)
      t2 == [t1 EXCEPT !.node[a].row = @ \o t1.node[b].row,
                       !.node[a].child = @ \o Tail(t1.node[b].child)]
  IN  [t |-> FreePage(release(t2, a), b), old |-> i]

NodeMergeRight(t, a, p, i, b, old) ==
  LET t1 == release(DropEntry(t, a, old), p)
      t2 == [t1 EXCEPT !.node[a].row = Append(@, t1.node[p].row[i]) \o t1.node[b].row,
                       !.node[a].child = @ \o t1.node[b].child]
  IN  [t |-> FreePage(release(t2, a), b), old |-> i]

NodeFromLeft(t, a, p, i, b, old) ==
  LET t1 == DropEntry(t, a, old)
  IN  Kept(release3([t1 EXCEPT !.node[a].row = <<t1.node[p].row[i - 1]>> \o @,
                               !.node[a].child = <<Last(t1.node[b].child)>> \o @,
                               !.node[p].row[i - 1] = Last(t1.node[b].row),
                               !.node[b].row = Front(@),
                               !.node[b].child = Front(@)], a, p, b))

NodeMergeLeft(t, a, p, i, b, old) ==
  LET t1 == release(DropEntry(t, a, old), p)
      t2 == [t1 EXCEPT !.node[b].row = Append(@, t1.node[p].row[i - 1]) \o t1.node[a].row,
                       !.node[b].child = @ \o t1.node[a].child]
  IN  [t |-> FreePage(release(t2, b), a), old |-> i - 1]

DeleteFromNode(t, a, p, old) ==
  LET i     == Place(t, p, a)
      right == i # N(t, p) + 1
      b     == t.node[p].child[IF right THEN i + 1 ELSE i - 1]
      t1    == get_page(get_page(t, p), b)
  IN  CASE right /\ N(t, b) > DEGREE  -> NodeFromRight(t1, a, p, i, b, old)
        [] right /\ N(t, b) <= DEGREE -> NodeMergeRight(t1, a, p, i, b, old)
        [] ~right /\ N(t, b) > DEGREE -> NodeFromLeft(t1, a, p, i, b, old)
        [] OTHER                      -> NodeMergeLeft(t1, a, p, i, b, old)

RECURSIVE delete_entry(_, _, _, _)
delete_entry(t, a, p, rid) ==
  LET t1 == get_page(t, a)
  IN  IF t.node[a].leaf
      THEN IF p = Nil THEN DeleteFromRootLeaf(t1, a, rid)
           ELSE IF N(t, a) > DEGREE THEN Kept(release(RemoveKey(t1, a, rid), a))
           ELSE DeleteFromLeaf(t1, a, p, rid)
      ELSE LET e  == delete_entry(release(t1, a), ChildFor(t, a, rid), a, rid)
               t2 == get_page(e.t, a)
           IN  IF e.old = Nil THEN Kept(release(t2, a))
               ELSE IF p = Nil THEN DropFromRoot(t2, a, e.old)
               ELSE IF N(t2, a) > DEGREE THEN Kept(release(DropEntry(t2, a, e.old), a))
               ELSE DeleteFromNode(t2, a, p, e.old)

(* An empty tree is left with its control block pinned. *)
b_tree_delete(t, rid) ==
  LET t1 == get_page(t, 0)
  IN  IF t.root = Nil THEN t1
      ELSE delete_entry(release(t1, 0), t.root, Nil, rid).t

-----------------------------------------------------------------------------
(* The row whose key is `key`, or Nil.  One page is pinned at a time, and the
   tree is not changed. *)
RECURSIVE search_entry(_, _, _)
search_entry(t, a, key) ==
  LET row == t.node[a].row
      at  == SelectInSeq(row, LAMBDA r : PtrRowCmp(t.heap, key, r) = 0)
      i   == SelectInSeq(row, LAMBDA r : PtrRowCmp(t.heap, key, r) < 0)
  IN  IF t.node[a].leaf THEN IF at = 0 THEN Nil ELSE row[at]
      ELSE search_entry(t, t.node[a].child[IF i = 0 THEN Len(row) + 1 ELSE i], key)

b_tree_search(t, key) == IF t.root = Nil THEN Nil ELSE search_entry(t, t.root, key)

-----------------------------------------------------------------------------
(* Views of a tree, for the properties. *)

(* The pages of the subtree at a. *)
RECURSIVE Pages(_, _)
Pages(t, a) ==
  {a} \cup UNION {Pages(t, c) : c \in ToSet(t.node[a].child)}

TreePages(t) == IF t.root = Nil THEN {} ELSE Pages(t, t.root)

(* The rows in the leaves, and the copies in the inner nodes. *)
LeafPages(t) == {a \in TreePages(t) : t.node[a].leaf}
InnerPages(t) == {a \in TreePages(t) : ~t.node[a].leaf}

RECURSIVE FreeFrom(_, _)
FreeFrom(t, a) == IF a = Nil THEN {} ELSE {a} \cup FreeFrom(t, t.node[a].next)

FreePages(t) == FreeFrom(t, t.free)

(* The depths at which there are leaves below a. *)
RECURSIVE LeafDepths(_, _)
LeafDepths(t, a) ==
  IF t.node[a].leaf THEN {0}
  ELSE UNION {{d + 1 : d \in LeafDepths(t, c)} : c \in ToSet(t.node[a].child)}

(* What the operations leave of pins: none, and never was there no frame. *)
Unpinned(t) == ~t.ub /\ \A a \in DOMAIN t.pins : t.pins[a] = 0
=============================================================================
