---------------------------- MODULE BlockProofs ----------------------------
(***************************************************************************)
(* Proofs about the operators of Block: init_block, new_item and           *)
(* delete_item keep a block well formed and change what is read under no   *)
(* other index, for every page size, every ItemID size and every items.    *)
(***************************************************************************)
EXTENDS Block, Facts, TLAPS

(* Every index in use leads to the bytes of an item. *)
ItemsHeld(block) ==
  \A i \in Idx : InUse(block, i) => \E x \in Item : Holds(block, i, x)

(* What new_item and delete_item need of a block, and keep. *)
GoodBlock(block) ==
  /\ block \in BlockRecord
  /\ SectionsApart(block)
  /\ ItemsDisjoint(block)
  /\ Packed(block)
  /\ ItemsHeld(block)

(* The ItemIDs that fit in front of the items have indices in Idx. *)
LEMMA CountFits ==
  ASSUME NEW n \in Nat, HEADER + ITEM_ID * n <= PAGE_SIZE
  PROVE  /\ 0 .. n - 1 \subseteq Idx
         /\ n <= PAGE_SIZE
<1>1. ITEM_ID * n \in Nat /\ ITEM_ID * n <= PAGE_SIZE - HEADER /\ PAGE_SIZE - HEADER \in Nat
  BY BlockAssumption
<1>2. n <= (PAGE_SIZE - HEADER) \div ITEM_ID
  BY <1>1, FitsQuotient, BlockAssumption
<1>3. (PAGE_SIZE - HEADER) \div ITEM_ID \in Int
  BY <1>1, BlockAssumption
<1>4. 0 .. n - 1 \subseteq Idx
  BY <1>2, <1>3 DEF Idx
<1>5. n <= ITEM_ID * n
  BY BlockAssumption
<1> QED BY <1>1, <1>4, <1>5, BlockAssumption

(* The fields of a block are numbers within the page. *)
LEMMA BlockFields ==
  ASSUME NEW b \in BlockRecord
  PROVE  /\ b.n_items \in Nat /\ b.head_ptr \in Nat /\ b.tail_ptr \in Nat
         /\ \A i \in Idx : /\ b.ids[i] \in ItemID
                           /\ b.ids[i].offset \in Nat /\ b.ids[i].offset < PAGE_SIZE
                           /\ b.ids[i].size \in Nat /\ b.ids[i].size <= PAGE_SIZE
BY BlockAssumption DEF BlockRecord, ItemID, Offsets

(* Where an item in use lies: above tail_ptr and within the page, and it has
   at least one byte. *)
LEMMA ItemPlace ==
  ASSUME NEW b, GoodBlock(b), NEW i, InUse(b, i)
  PROVE  /\ i \in Idx
         /\ b.ids[i].offset \in Nat /\ b.ids[i].size \in Nat \ {0}
         /\ b.tail_ptr <= b.ids[i].offset
         /\ b.ids[i].offset + b.ids[i].size <= PAGE_SIZE
<1>1. b.n_items \in Nat /\ b.tail_ptr \in Nat /\ PAGE_SIZE \in Nat
  BY BlockFields, BlockAssumption DEF GoodBlock
<1>2. i \in Idx
  <2>1. HEADER + ITEM_ID * b.n_items = b.head_ptr /\ b.head_ptr <= b.tail_ptr
        /\ b.tail_ptr <= PAGE_SIZE /\ b.head_ptr \in Nat
    BY BlockFields DEF GoodBlock, SectionsApart
  <2>2. HEADER + ITEM_ID * b.n_items <= PAGE_SIZE
    BY <1>1, <2>1
  <2> QED BY <1>1, <2>2, CountFits DEF InUse
<1>3. b.ids[i].offset \in Nat /\ b.ids[i].size \in Nat
  BY <1>2, BlockFields DEF GoodBlock
<1>4. b.ids[i].size # 0
  BY <1>2, BlockAssumption DEF GoodBlock, ItemsHeld, Holds
<1>5. Extent(b, i) \subseteq b.tail_ptr .. PAGE_SIZE - 1
  BY <1>2 DEF GoodBlock, ItemsDisjoint
<1> DEFINE o == b.ids[i].offset
           s == b.ids[i].size
<1> HIDE DEF o, s
<1>6. Extent(b, i) = o .. o + s - 1 /\ o \in Nat /\ s \in Nat \ {0}
  BY <1>3, <1>4 DEF Extent, o, s
<1>7. o \in Extent(b, i) /\ o + s - 1 \in Extent(b, i)
  BY <1>6
<1>8. b.tail_ptr <= o /\ o + s <= PAGE_SIZE
  BY <1>1, <1>5, <1>6, <1>7
<1> QED BY <1>2, <1>3, <1>4, <1>8 DEF o, s

(* Of two items in use one lies entirely in front of the other. *)
LEMMA ItemsOrdered ==
  ASSUME NEW b, GoodBlock(b), NEW i, NEW j, InUse(b, i), InUse(b, j), i # j
  PROVE  \/ b.ids[i].offset + b.ids[i].size <= b.ids[j].offset
         \/ b.ids[j].offset + b.ids[j].size <= b.ids[i].offset
<1> DEFINE o == b.ids[i].offset
           s == b.ids[i].size
           p == b.ids[j].offset
           t == b.ids[j].size
<1>1. i \in Idx /\ j \in Idx /\ o \in Nat /\ s \in Nat \ {0} /\ p \in Nat /\ t \in Nat \ {0}
  BY ItemPlace
<1>2. (o .. o + s - 1) \cap (p .. p + t - 1) = {}
  BY <1>1 DEF GoodBlock, ItemsDisjoint, Extent
<1> HIDE DEF o, s, p, t
<1>3. ~(o \in p .. p + t - 1) /\ ~(p \in o .. o + s - 1)
  <2>1. o \in o .. o + s - 1 /\ p \in p .. p + t - 1
    BY <1>1
  <2> QED BY <1>2, <2>1
<1>4. o + s <= p \/ p + t <= o
  BY <1>1, <1>3
<1> QED BY <1>4 DEF o, s, p, t

(* An index leads to one item at most. *)
LEMMA HoldsUnique ==
  ASSUME NEW b, NEW i, NEW x \in Item, NEW y \in Item, Holds(b, i, x), Holds(b, i, y)
  PROVE  x = y
<1>1. 0 \in 0 .. SizeOf(x) - 1 /\ 0 \in 0 .. SizeOf(y) - 1
  BY BlockAssumption
<1>2. <<x, 0>> = <<y, 0>>
  BY <1>1 DEF Holds
<1> QED BY <1>2

(* A page of zeros is a record of the right type. *)
LEMMA EmptyBlockType == EmptyBlock \in BlockRecord
<1>1. 0 \in 0 .. PAGE_SIZE
  BY BlockAssumption
<1>2. ASSUME NEW i \in Idx PROVE 0 \in Offsets
  <2>1. (PAGE_SIZE - HEADER) \div ITEM_ID >= 1
    BY BlockAssumption DEF Idx
  <2>2. PAGE_SIZE # 0
    <3> SUFFICES ASSUME PAGE_SIZE = 0 PROVE FALSE
      OBVIOUS
    <3>1. PAGE_SIZE - HEADER = 0
      BY BlockAssumption
    <3> QED BY <2>1, <3>1, BlockAssumption
  <2> QED BY <2>2, BlockAssumption DEF Offsets
<1>3. [i \in Idx |-> [availability |-> 0, offset |-> 0, size |-> 0]] \in [Idx -> ItemID]
  BY <1>1, <1>2 DEF ItemID
<1>4. [a \in Offsets |-> NoByte] \in [Offsets -> Byte]
  BY DEF Byte
<1> QED BY <1>1, <1>3, <1>4 DEF EmptyBlock, BlockRecord

(* init_block makes a good block without items, all of it free, whatever was
   on the page. *)
LEMMA InitBlock ==
  ASSUME NEW b \in BlockRecord
  PROVE  /\ GoodBlock(init_block(b))
         /\ FreeSpace(init_block(b)) = PAGE_SIZE - HEADER
         /\ init_block(b).n_items = 0
         /\ \A i : ~InUse(init_block(b), i)
<1> DEFINE c == init_block(b)
<1>1. /\ c \in BlockRecord
      /\ c.n_items = 0 /\ c.head_ptr = HEADER /\ c.tail_ptr = PAGE_SIZE
  BY BlockAssumption DEF init_block, BlockRecord
<1>2. \A i : ~InUse(c, i)
  BY <1>1 DEF InUse
<1> HIDE DEF c
<1>3. SectionsApart(c)
  BY <1>1, BlockAssumption DEF SectionsApart
<1>4. ItemsDisjoint(c) /\ ItemsHeld(c)
  BY <1>2 DEF ItemsDisjoint, ItemsHeld
<1>5. Packed(c)
  BY <1>1, BlockAssumption DEF Packed
<1>6. FreeSpace(c) = PAGE_SIZE - HEADER
  BY <1>1 DEF FreeSpace
<1> QED BY <1>1, <1>2, <1>3, <1>4, <1>5, <1>6 DEF GoodBlock, c

-----------------------------------------------------------------------------
(* The ItemID that new_item takes is not in use, and fits in front of the
   items when there is room for it. *)
LEMMA NewIdxFree ==
  ASSUME NEW b, GoodBlock(b), ITEM_ID <= FreeSpace(b)
  PROVE  /\ NewIdx(b) \in Idx
         /\ ~InUse(b, NewIdx(b))
         /\ Available(b) = {} => /\ NewIdx(b) = b.n_items
                                /\ HEADER + ITEM_ID * (b.n_items + 1) = b.head_ptr + ITEM_ID
         /\ Available(b) # {} => NewIdx(b) \in 0 .. b.n_items - 1
<1>1. /\ b.n_items \in Nat /\ b.head_ptr \in Nat /\ b.tail_ptr \in Nat
      /\ HEADER \in Nat /\ ITEM_ID \in Nat /\ PAGE_SIZE \in Nat
  BY BlockFields, BlockAssumption DEF GoodBlock
<1>2. b.head_ptr = HEADER + ITEM_ID * b.n_items /\ b.tail_ptr <= PAGE_SIZE
  BY DEF GoodBlock, SectionsApart
<1>3. HEADER + ITEM_ID * (b.n_items + 1) = b.head_ptr + ITEM_ID
  BY <1>1, <1>2
<1>4. 0 .. b.n_items \subseteq Idx
  <2>1. HEADER + ITEM_ID * (b.n_items + 1) <= PAGE_SIZE
    BY <1>1, <1>2, <1>3 DEF FreeSpace
  <2>2. 0 .. (b.n_items + 1) - 1 \subseteq Idx
    BY <1>1, <2>1, CountFits
  <2> QED BY <1>1, <2>2
<1>5. CASE Available(b) = {}
  <2>1. NewIdx(b) = b.n_items
    BY <1>5 DEF NewIdx
  <2> QED BY <1>1, <1>3, <1>4, <1>5, <2>1 DEF InUse
<1>6. CASE Available(b) # {}
  <2>1. Available(b) \subseteq Nat
    BY <1>1 DEF Available
  <2>2. \E i \in Available(b) : \A j \in Available(b) : i <= j
    BY <1>6, <2>1, LeastNat
  <2>3. NewIdx(b) \in Available(b)
    BY <1>6, <2>2 DEF NewIdx
  <2> HIDE DEF NewIdx
  <2>4. NewIdx(b) \in 0 .. b.n_items - 1 /\ b.ids[NewIdx(b)].availability = 1
    BY <2>3 DEF Available
  <2> QED BY <1>1, <1>4, <1>6, <2>4 DEF InUse
<1> QED BY <1>5, <1>6

(* The fields of a block that new_item has changed. *)
LEMMA NewItemFields ==
  ASSUME NEW b, GoodBlock(b), NEW x \in Item, SizeOf(x) + ITEM_ID <= FreeSpace(b)
  PROVE  LET c  == new_item(b, x)
             n  == NewIdx(b)
             at == b.tail_ptr - SizeOf(x)
         IN  /\ at \in Nat /\ at < PAGE_SIZE /\ at < b.tail_ptr
             /\ c \in BlockRecord
             /\ SectionsApart(c)
             /\ c.tail_ptr = at
             /\ c.ids[n] = [availability |-> 0, offset |-> at, size |-> SizeOf(x)]
             /\ \A i \in Idx \ {n} : c.ids[i] = b.ids[i]
             /\ c.data = WithItem(b.data, x, at)
             /\ InUse(c, n)
             /\ \A i \in Idx \ {n} : InUse(c, i) <=> InUse(b, i)
<1> DEFINE c  == new_item(b, x)
           n  == NewIdx(b)
           at == b.tail_ptr - SizeOf(x)
           new == Available(b) = {}
           id == [availability |-> 0, offset |-> at, size |-> SizeOf(x)]
<1>1. /\ b.n_items \in Nat /\ b.head_ptr \in Nat /\ b.tail_ptr \in Nat
      /\ HEADER \in Nat /\ ITEM_ID \in Nat \ {0} /\ PAGE_SIZE \in Nat
      /\ SizeOf(x) \in Nat \ {0}
  BY BlockFields, BlockAssumption DEF GoodBlock
<1>2. b.head_ptr = HEADER + ITEM_ID * b.n_items /\ b.tail_ptr <= PAGE_SIZE
  BY DEF GoodBlock, SectionsApart
<1>3. b.head_ptr + ITEM_ID <= at
  BY <1>1 DEF FreeSpace
<1>4. at \in Nat /\ at < PAGE_SIZE /\ at < b.tail_ptr /\ SizeOf(x) <= PAGE_SIZE
  BY <1>1, <1>2, <1>3
<1>5. /\ n \in Idx /\ ~InUse(b, n)
      /\ new => n = b.n_items /\ HEADER + ITEM_ID * (b.n_items + 1) = b.head_ptr + ITEM_ID
      /\ ~new => n \in 0 .. b.n_items - 1
  <2>1. ITEM_ID <= FreeSpace(b)
    BY <1>1, <1>3 DEF FreeSpace
  <2> QED BY <2>1, NewIdxFree
<1>6. /\ c.n_items = IF new THEN b.n_items + 1 ELSE b.n_items
      /\ c.head_ptr = IF new THEN b.head_ptr + ITEM_ID ELSE b.head_ptr
      /\ c.tail_ptr = at
      /\ c.ids = [b.ids EXCEPT ![n] = id]
      /\ c.data = WithItem(b.data, x, at)
      /\ c = [n_items |-> c.n_items, head_ptr |-> c.head_ptr, tail_ptr |-> c.tail_ptr,
              ids |-> c.ids, data |-> c.data]
  BY DEF new_item
<1> HIDE DEF c, n, at, new
<1>7. b.ids \in [Idx -> ItemID] /\ b.data \in [Offsets -> Byte]
  BY DEF GoodBlock, BlockRecord
<1>8. id \in ItemID
  BY <1>1, <1>4 DEF ItemID, Offsets
<1>9. c.ids \in [Idx -> ItemID] /\ c.ids[n] = id /\ \A i \in Idx \ {n} : c.ids[i] = b.ids[i]
  <2> HIDE DEF id
  <2> QED BY <1>5, <1>6, <1>7, <1>8
<1>10. c.data \in [Offsets -> Byte]
  <2> SUFFICES ASSUME NEW a \in Offsets, a \in at .. at + SizeOf(x) - 1
               PROVE  <<x, a - at>> \in Byte
    BY <1>6, <1>7 DEF WithItem
  <2>1. a - at \in 0 .. SizeOf(x) - 1
    BY <1>1, <1>4
  <2> QED BY <2>1 DEF Byte, Bytes
<1>11. SectionsApart(c)
  <2>1. c.head_ptr = HEADER + ITEM_ID * c.n_items
    BY <1>2, <1>5, <1>6
  <2>2. c.head_ptr <= c.tail_ptr /\ c.tail_ptr <= PAGE_SIZE
    BY <1>1, <1>3, <1>4, <1>6
  <2> QED BY <2>1, <2>2 DEF SectionsApart
<1>12. c \in BlockRecord
  <2>1. c.n_items \in Nat /\ c.head_ptr \in Nat /\ c.head_ptr <= at
    BY <1>1, <1>3, <1>4, <1>6
  <2>2. HEADER + ITEM_ID * c.n_items <= PAGE_SIZE
    BY <1>1, <1>4, <1>6, <1>11, <2>1 DEF SectionsApart
  <2>3. c.n_items <= PAGE_SIZE
    BY <2>1, <2>2, CountFits
  <2>4. /\ c.n_items \in 0 .. PAGE_SIZE /\ c.head_ptr \in 0 .. PAGE_SIZE
        /\ c.tail_ptr \in 0 .. PAGE_SIZE
    BY <1>1, <1>4, <1>6, <2>1, <2>3
  <2> QED BY <1>6, <1>9, <1>10, <2>4 DEF BlockRecord
<1>13. InUse(c, n)
  BY <1>1, <1>5, <1>6, <1>9 DEF InUse
<1>14. \A i \in Idx \ {n} : InUse(c, i) <=> InUse(b, i)
  BY <1>1, <1>5, <1>6, <1>9, SMTT(20) DEF InUse, Idx
<1> QED BY <1>4, <1>6, <1>9, <1>11, <1>12, <1>13, <1>14 DEF c, n, at

(* new_item leaves the items in use where they are. *)
LEMMA NewItemKeeps ==
  ASSUME NEW b, GoodBlock(b), NEW x \in Item, SizeOf(x) + ITEM_ID <= FreeSpace(b),
         NEW i \in Idx, i # NewIdx(b), InUse(b, i), NEW y \in Item
  PROVE  Holds(new_item(b, x), i, y) <=> Holds(b, i, y)
<1> DEFINE c  == new_item(b, x)
           at == b.tail_ptr - SizeOf(x)
           o  == b.ids[i].offset
           s  == b.ids[i].size
<1>1. /\ at \in Nat /\ at < b.tail_ptr
      /\ c.ids[i] = b.ids[i]
      /\ c.data = WithItem(b.data, x, at)
  BY NewItemFields, ZenonT(40)
<1>2. /\ o \in Nat /\ s \in Nat \ {0} /\ b.tail_ptr <= o /\ o + s <= PAGE_SIZE
      /\ PAGE_SIZE \in Nat /\ b.tail_ptr \in Nat /\ SizeOf(x) \in Nat
  BY ItemPlace, BlockFields, BlockAssumption DEF GoodBlock
<1>3. at + SizeOf(x) = b.tail_ptr
  BY <1>2
<1> HIDE DEF c, at, o, s
<1>4. ASSUME s = SizeOf(y), NEW j \in 0 .. SizeOf(y) - 1
      PROVE  c.data[o + j] = b.data[o + j]
  <2>1. o + j \in Offsets /\ o + j \notin at .. at + SizeOf(x) - 1
    BY <1>1, <1>2, <1>3, <1>4 DEF Offsets
  <2> QED BY <1>1, <2>1 DEF WithItem
<1>5. c.ids[i].offset = o /\ c.ids[i].size = s
  BY <1>1 DEF o, s
<1> QED BY <1>4, <1>5 DEF Holds, c, o, s

(* new_item keeps a block good; the new index was not in use and leads to the
   new item, every other index is in use as before and leads to what it led to. *)
LEMMA NewItem ==
  ASSUME NEW b, GoodBlock(b), NEW x \in Item, SizeOf(x) + ITEM_ID <= FreeSpace(b)
  PROVE  LET c == new_item(b, x)
             n == NewIdx(b)
         IN  /\ GoodBlock(c)
             /\ n \in Idx /\ ~InUse(b, n)
             /\ InUse(c, n) /\ Holds(c, n, x)
             /\ c.ids[n].size = SizeOf(x)
             /\ \A i \in Idx \ {n} : InUse(c, i) <=> InUse(b, i)
             /\ \A i \in Idx \ {n} : InUse(b, i) =>
                  \A y \in Item : Holds(c, i, y) <=> Holds(b, i, y)
<1> DEFINE c  == new_item(b, x)
           n  == NewIdx(b)
           at == b.tail_ptr - SizeOf(x)
<1>1. /\ at \in Nat /\ at < PAGE_SIZE /\ at < b.tail_ptr
      /\ c \in BlockRecord
      /\ SectionsApart(c)
      /\ c.tail_ptr = at
      /\ c.ids[n] = [availability |-> 0, offset |-> at, size |-> SizeOf(x)]
      /\ \A i \in Idx \ {n} : c.ids[i] = b.ids[i]
      /\ c.data = WithItem(b.data, x, at)
      /\ InUse(c, n)
      /\ \A i \in Idx \ {n} : InUse(c, i) <=> InUse(b, i)
  BY NewItemFields
<1>2. n \in Idx /\ ~InUse(b, n)
  <2>1. ITEM_ID <= FreeSpace(b)
    BY BlockAssumption, BlockFields DEF GoodBlock, FreeSpace
  <2> QED BY <2>1, NewIdxFree
<1>3. \A i \in Idx \ {n} : InUse(b, i) => \A y \in Item : Holds(c, i, y) <=> Holds(b, i, y)
  BY NewItemKeeps
<1>4. /\ SizeOf(x) \in Nat \ {0} /\ PAGE_SIZE \in Nat /\ b.tail_ptr \in Nat
      /\ at + SizeOf(x) = b.tail_ptr /\ b.tail_ptr <= PAGE_SIZE
  BY BlockFields, BlockAssumption DEF GoodBlock, SectionsApart
<1> HIDE DEF c, n, at
<1>5. Holds(c, n, x)
  <2> SUFFICES ASSUME NEW j \in 0 .. SizeOf(x) - 1
               PROVE  c.data[at + j] = <<x, j>>
    BY <1>1 DEF Holds
  <2>1. /\ at + j \in Offsets /\ at + j \in at .. at + SizeOf(x) - 1
        /\ (at + j) - at = j
    BY <1>1, <1>4 DEF Offsets
  <2> QED BY <1>1, <2>1 DEF WithItem
<1>6. ItemsHeld(c)
  <2> SUFFICES ASSUME NEW i \in Idx, InUse(c, i)
               PROVE  \E y \in Item : Holds(c, i, y)
    BY DEF ItemsHeld
  <2>1. CASE i = n
    BY <1>5, <2>1
  <2>2. CASE i # n
    <3>1. InUse(b, i)
      BY <1>1, <2>2
    <3>2. PICK y \in Item : Holds(b, i, y)
      BY <3>1 DEF GoodBlock, ItemsHeld
    <3> QED BY <1>3, <2>2, <3>1, <3>2
  <2> QED BY <2>1, <2>2
<1>7. Extent(c, n) = at .. b.tail_ptr - 1
  BY <1>1, <1>4 DEF Extent
<1>8. \A i \in Idx \ {n} : Extent(c, i) = Extent(b, i)
  BY <1>1 DEF Extent
<1>9. ASSUME NEW i \in Idx \ {n}, InUse(b, i)
      PROVE  /\ Extent(b, i) \subseteq b.tail_ptr .. PAGE_SIZE - 1
             /\ Extent(b, i) \cap Extent(c, n) = {}
  <2>1. Extent(b, i) \subseteq b.tail_ptr .. PAGE_SIZE - 1
    BY <1>9 DEF GoodBlock, ItemsDisjoint
  <2>2. (b.tail_ptr .. PAGE_SIZE - 1) \cap (at .. b.tail_ptr - 1) = {}
    BY <1>1, <1>4
  <2> QED BY <1>7, <2>1, <2>2
<1>10. ItemsDisjoint(c)
  <2>1. ASSUME NEW i \in Idx, InUse(c, i)
        PROVE  Extent(c, i) \subseteq c.tail_ptr .. PAGE_SIZE - 1
    <3>1. CASE i = n
      <4>1. at .. b.tail_ptr - 1 \subseteq at .. PAGE_SIZE - 1
        BY <1>1, <1>4
      <4> QED BY <1>1, <1>7, <3>1, <4>1
    <3>2. CASE i # n
      <4>1. Extent(c, i) \subseteq b.tail_ptr .. PAGE_SIZE - 1
        BY <1>1, <1>8, <1>9, <2>1, <3>2
      <4>2. b.tail_ptr .. PAGE_SIZE - 1 \subseteq at .. PAGE_SIZE - 1
        BY <1>1, <1>4
      <4> QED BY <1>1, <4>1, <4>2
    <3> QED BY <3>1, <3>2
  <2>2. ASSUME NEW i \in Idx, NEW j \in Idx, InUse(c, i), InUse(c, j), i # j
        PROVE  Extent(c, i) \cap Extent(c, j) = {}
    <3>1. CASE i = n
      BY <1>1, <1>8, <1>9, <2>2, <3>1
    <3>2. CASE j = n
      BY <1>1, <1>8, <1>9, <2>2, <3>2
    <3>3. CASE i # n /\ j # n
      BY <1>1, <1>8, <2>2, <3>3 DEF GoodBlock, ItemsDisjoint
    <3> QED BY <3>1, <3>2, <3>3
  <2> QED BY <2>1, <2>2 DEF ItemsDisjoint
<1>11. Packed(c)
  <2> SUFFICES ASSUME NEW a \in at .. PAGE_SIZE - 1
               PROVE  \E i \in Idx : InUse(c, i) /\ a \in Extent(c, i)
    BY <1>1 DEF Packed
  <2>1. a \in at .. b.tail_ptr - 1 \/ a \in b.tail_ptr .. PAGE_SIZE - 1
    BY <1>1, <1>4
  <2>2. CASE a \in at .. b.tail_ptr - 1
    BY <1>1, <1>2, <1>7, <2>2
  <2>3. CASE a \in b.tail_ptr .. PAGE_SIZE - 1
    <3>1. PICK i \in Idx : InUse(b, i) /\ a \in Extent(b, i)
      BY <2>3 DEF GoodBlock, Packed
    <3> QED BY <1>1, <1>2, <1>8, <3>1
  <2> QED BY <2>1, <2>2, <2>3
<1>12. GoodBlock(c)
  BY <1>1, <1>6, <1>10, <1>11 DEF GoodBlock
<1>13. c.ids[n].size = SizeOf(x)
  BY <1>1
<1> QED BY <1>1, <1>2, <1>3, <1>5, <1>12, <1>13 DEF c, n

-----------------------------------------------------------------------------
(* Where delete_item leaves the ItemID of another item in use: an item in
   front of the deleted one moves back by its size, one behind it stays. *)
LEMMA DeleteMoves ==
  ASSUME NEW b, GoodBlock(b), NEW k, InUse(b, k), NEW i, InUse(b, i), i # k
  PROVE  LET d == SlideIds(b, k)[i]
             o == b.ids[i].offset
             s == b.ids[i].size
         IN  /\ d.size = s
             /\ \/ /\ o + s <= b.ids[k].offset
                   /\ d.offset = o + b.ids[k].size
                \/ /\ b.ids[k].offset + b.ids[k].size <= o
                   /\ d.offset = o
<1> DEFINE o == b.ids[i].offset
           s == b.ids[i].size
           O == b.ids[k].offset
           S == b.ids[k].size
<1>1. /\ i \in Idx /\ k \in Idx
      /\ o \in Nat /\ s \in Nat \ {0} /\ O \in Nat /\ S \in Nat \ {0}
  BY ItemPlace
<1>2. o + s <= O \/ O + S <= o
  BY ItemsOrdered
<1>3. b.ids[i] \in ItemID
  BY <1>1, BlockFields DEF GoodBlock
<1>4. CASE o < O
  <2>1. SlideIds(b, k)[i] = [b.ids[i] EXCEPT !.offset = o + S]
    BY <1>1, <1>4 DEF SlideIds
  <2>2. SlideIds(b, k)[i].offset = o + S /\ SlideIds(b, k)[i].size = s
    BY <1>3, <2>1 DEF ItemID
  <2>3. o + s <= O
    BY <1>1, <1>2, <1>4
  <2> QED BY <2>2, <2>3
<1>5. CASE ~(o < O)
  <2>1. SlideIds(b, k)[i] = b.ids[i]
    BY <1>1, <1>5 DEF SlideIds
  <2>2. O + S <= o
    BY <1>1, <1>2, <1>5
  <2> QED BY <2>1, <2>2
<1> QED BY <1>4, <1>5

(* The ItemIDs after a deletion are ItemIDs: no offset leaves the page; of the
   availabilities only that of the deleted one changes. *)
LEMMA DeleteIds ==
  ASSUME NEW b, GoodBlock(b), NEW k, InUse(b, k)
  PROVE  /\ SlideIds(b, k) \in [Idx -> ItemID]
         /\ SlideIds(b, k)[k].availability = 1
         /\ \A i \in Idx \ {k} : SlideIds(b, k)[i].availability = b.ids[i].availability
<1> DEFINE d == SlideIds(b, k)
<1>1. k \in Idx /\ \A i \in Idx : b.ids[i] \in ItemID
  BY ItemPlace, BlockFields DEF GoodBlock
<1>2. d[k] \in ItemID /\ d[k].availability = 1
  <2>1. d[k] = [b.ids[k] EXCEPT !.availability = 1]
    BY <1>1 DEF SlideIds
  <2> HIDE DEF d
  <2> QED BY <1>1, <2>1 DEF ItemID
<1>3. ASSUME NEW i \in Idx \ {k}
      PROVE  d[i] \in ItemID /\ d[i].availability = b.ids[i].availability
  <2>1. CASE InUse(b, i) /\ b.ids[i].offset < b.ids[k].offset
    <3>1. d[i] = [b.ids[i] EXCEPT !.offset = b.ids[i].offset + b.ids[k].size]
      BY <1>1, <2>1 DEF SlideIds
    <3>2. b.ids[i].offset + b.ids[k].size \in Offsets
      BY <2>1, ItemPlace, BlockAssumption DEF Offsets
    <3> HIDE DEF d
    <3> QED BY <1>1, <3>1, <3>2 DEF ItemID
  <2>2. CASE ~(InUse(b, i) /\ b.ids[i].offset < b.ids[k].offset)
    <3>1. d[i] = b.ids[i]
      BY <1>1, <2>2 DEF SlideIds
    <3> QED BY <1>1, <3>1
  <2> QED BY <2>1, <2>2
<1>4. d = [i \in Idx |-> d[i]]
  BY DEF SlideIds
<1> HIDE DEF d
<1> QED BY <1>2, <1>3, <1>4 DEF d

(* The fields of a block that delete_item has changed. *)
LEMMA DeleteItemFields ==
  ASSUME NEW b, GoodBlock(b), NEW k, InUse(b, k)
  PROVE  LET c == delete_item(b, k)
         IN  /\ c \in BlockRecord
             /\ SectionsApart(c)
             /\ c.tail_ptr = b.tail_ptr + b.ids[k].size
             /\ c.ids = SlideIds(b, k)
             /\ c.data = SlideData(b, b.ids[k].offset, b.ids[k].size)
             /\ ~InUse(c, k)
             /\ \A i \in Idx \ {k} : InUse(c, i) <=> InUse(b, i)
<1> DEFINE c == delete_item(b, k)
           O == b.ids[k].offset
           S == b.ids[k].size
           ids == SlideIds(b, k)
           drop == ids[b.n_items - 1].availability = 1
<1>1. /\ b.n_items \in Nat /\ b.head_ptr \in Nat /\ b.tail_ptr \in Nat
      /\ HEADER \in Nat /\ ITEM_ID \in Nat \ {0} /\ PAGE_SIZE \in Nat
  BY BlockFields, BlockAssumption DEF GoodBlock
<1>2. /\ b.head_ptr = HEADER + ITEM_ID * b.n_items
      /\ b.head_ptr <= b.tail_ptr /\ b.tail_ptr <= PAGE_SIZE
  BY DEF GoodBlock, SectionsApart
<1>3. /\ k \in Idx /\ O \in Nat /\ S \in Nat \ {0}
      /\ b.tail_ptr <= O /\ O + S <= PAGE_SIZE
  BY ItemPlace
<1>4. /\ c.n_items = IF drop THEN b.n_items - 1 ELSE b.n_items
      /\ c.head_ptr = IF drop THEN b.head_ptr - ITEM_ID ELSE b.head_ptr
      /\ c.tail_ptr = b.tail_ptr + S
      /\ c.ids = ids
      /\ c.data = SlideData(b, O, S)
      /\ c = [n_items |-> c.n_items, head_ptr |-> c.head_ptr, tail_ptr |-> c.tail_ptr,
              ids |-> c.ids, data |-> c.data]
  BY DEF delete_item
<1>5. /\ ids \in [Idx -> ItemID]
      /\ ids[k].availability = 1
      /\ \A i \in Idx \ {k} : ids[i].availability = b.ids[i].availability
  BY DeleteIds
<1> HIDE DEF c, O, S, ids, drop
<1>6. k \in 0 .. b.n_items - 1
  BY DEF InUse
<1>7. c.data \in [Offsets -> Byte]
  <2>1. b.data \in [Offsets -> Byte]
    BY DEF GoodBlock, BlockRecord
  <2>2. ASSUME NEW a \in Offsets, a \in b.tail_ptr + S .. O + S - 1
        PROVE  a - S \in Offsets
    BY <1>1, <1>3, <2>2 DEF Offsets
  <2> QED BY <1>4, <2>1, <2>2 DEF SlideData
<1>8. SectionsApart(c)
  <2>1. ITEM_ID * (b.n_items - 1) = ITEM_ID * b.n_items - ITEM_ID
    BY <1>1
  <2>2. c.head_ptr = HEADER + ITEM_ID * c.n_items
    <3>1. ITEM_ID * b.n_items \in Int
      BY <1>1
    <3> QED BY <1>1, <1>2, <1>4, <2>1, <3>1
  <2>3. c.head_ptr <= c.tail_ptr /\ c.tail_ptr <= PAGE_SIZE
    BY <1>1, <1>2, <1>3, <1>4
  <2> QED BY <2>2, <2>3 DEF SectionsApart
<1>9. c \in BlockRecord
  <2>1. c.n_items \in Nat /\ c.n_items <= b.n_items
    BY <1>1, <1>4, <1>6
  <2>2. b.n_items <= PAGE_SIZE
    BY BlockAssumption DEF GoodBlock, BlockRecord
  <2>3. c.head_ptr \in Nat
    <3>1. ITEM_ID * c.n_items \in Nat
      BY <1>1, <2>1
    <3> QED BY <1>1, <1>8, <3>1 DEF SectionsApart
  <2>4. c.tail_ptr \in Nat /\ c.head_ptr <= c.tail_ptr /\ c.tail_ptr <= PAGE_SIZE
    BY <1>1, <1>3, <1>4, <1>8 DEF SectionsApart
  <2>5. /\ c.n_items \in 0 .. PAGE_SIZE /\ c.head_ptr \in 0 .. PAGE_SIZE
        /\ c.tail_ptr \in 0 .. PAGE_SIZE
    BY <1>1, <2>1, <2>2, <2>3, <2>4
  <2> QED BY <1>4, <1>5, <1>7, <2>5 DEF BlockRecord
<1>10. ~InUse(c, k)
  BY <1>4, <1>5 DEF InUse
<1>11. ASSUME NEW i \in Idx \ {k}
       PROVE  InUse(c, i) <=> InUse(b, i)
  <2>1. i \in Int /\ c.ids[i].availability = b.ids[i].availability
    BY <1>4, <1>5 DEF Idx
  <2>2. CASE drop
    <3>1. i = b.n_items - 1 => b.ids[i].availability # 0
      BY <1>5, <2>1, <2>2, <1>4 DEF drop
    <3>2. i \in 0 .. c.n_items - 1 <=> i \in 0 .. b.n_items - 1 /\ i # b.n_items - 1
      BY <1>1, <1>4, <2>1, <2>2
    <3> QED BY <2>1, <3>1, <3>2 DEF InUse
  <2>3. CASE ~drop
    BY <1>4, <2>1, <2>3 DEF InUse
  <2> QED BY <2>2, <2>3
<1> QED BY <1>4, <1>8, <1>9, <1>10, <1>11 DEF c, O, S, ids

(* The bytes of the items that remain move with their ItemIDs. *)
LEMMA DeleteItemKeeps ==
  ASSUME NEW b, GoodBlock(b), NEW k, InUse(b, k), NEW i, InUse(b, i), i # k, NEW y \in Item
  PROVE  Holds(delete_item(b, k), i, y) <=> Holds(b, i, y)
<1> DEFINE c == delete_item(b, k)
           o == b.ids[i].offset
           s == b.ids[i].size
           O == b.ids[k].offset
           S == b.ids[k].size
           p == c.ids[i].offset
<1>1. /\ c.ids[i].size = s
      /\ (o + s <= O /\ p = o + S) \/ (O + S <= o /\ p = o)
      /\ c.data = SlideData(b, O, S)
  BY DeleteMoves, DeleteItemFields
<1>2. /\ o \in Nat /\ s \in Nat \ {0} /\ O \in Nat /\ S \in Nat \ {0}
      /\ b.tail_ptr <= o /\ o + s <= PAGE_SIZE /\ b.tail_ptr <= O /\ O + S <= PAGE_SIZE
      /\ PAGE_SIZE \in Nat /\ b.tail_ptr \in Nat
  BY ItemPlace, BlockFields, BlockAssumption DEF GoodBlock
<1> HIDE DEF c, o, s, O, S, p
<1>3. ASSUME s = SizeOf(y), NEW j \in 0 .. SizeOf(y) - 1
      PROVE  c.data[p + j] = b.data[o + j]
  <2>1. CASE o + s <= O /\ p = o + S
    <3>1. /\ p + j \in Offsets /\ p + j \in b.tail_ptr + S .. O + S - 1
          /\ (p + j) - S = o + j
      BY <1>2, <1>3, <2>1 DEF Offsets
    <3> QED BY <1>1, <3>1 DEF SlideData
  <2>2. CASE O + S <= o /\ p = o
    <3>1. p + j \in Offsets /\ p + j \notin b.tail_ptr + S .. O + S - 1 /\ p + j = o + j
      BY <1>2, <1>3, <2>2 DEF Offsets
    <3> QED BY <1>1, <3>1 DEF SlideData
  <2> QED BY <1>1, <2>1, <2>2
<1> QED BY <1>1, <1>3 DEF Holds, c, o, s, p

(* delete_item keeps a block good; the index is no longer in use, every other
   one is in use as before and leads to what it led to. *)
LEMMA DeleteItem ==
  ASSUME NEW b, GoodBlock(b), NEW k, InUse(b, k)
  PROVE  LET c == delete_item(b, k)
         IN  /\ GoodBlock(c)
             /\ ~InUse(c, k)
             /\ \A i \in Idx \ {k} : InUse(c, i) <=> InUse(b, i)
             /\ \A i \in Idx \ {k} : InUse(b, i) =>
                  \A y \in Item : Holds(c, i, y) <=> Holds(b, i, y)
<1> DEFINE c == delete_item(b, k)
           O == b.ids[k].offset
           S == b.ids[k].size
           o(i) == b.ids[i].offset
           s(i) == b.ids[i].size
           p(i) == c.ids[i].offset
<1>1. /\ c \in BlockRecord
      /\ SectionsApart(c)
      /\ c.tail_ptr = b.tail_ptr + S
      /\ ~InUse(c, k)
      /\ \A i \in Idx \ {k} : InUse(c, i) <=> InUse(b, i)
  BY DeleteItemFields
<1>2. \A i \in Idx \ {k} : InUse(b, i) => \A y \in Item : Holds(c, i, y) <=> Holds(b, i, y)
  BY DeleteItemKeeps
<1>3. /\ k \in Idx /\ O \in Nat /\ S \in Nat \ {0}
      /\ b.tail_ptr <= O /\ O + S <= PAGE_SIZE
      /\ PAGE_SIZE \in Nat /\ b.tail_ptr \in Nat
  BY ItemPlace, BlockFields, BlockAssumption DEF GoodBlock
<1>4. \A i \in Idx \ {k} : InUse(b, i) =>
        /\ o(i) \in Nat /\ s(i) \in Nat \ {0}
        /\ b.tail_ptr <= o(i) /\ o(i) + s(i) <= PAGE_SIZE
        /\ (o(i) + s(i) <= O /\ p(i) = o(i) + S) \/ (O + S <= o(i) /\ p(i) = o(i))
        /\ Extent(c, i) = p(i) .. p(i) + s(i) - 1
        /\ Extent(b, i) = o(i) .. o(i) + s(i) - 1
        /\ p(i) \in Nat /\ b.tail_ptr + S <= p(i) /\ p(i) + s(i) <= PAGE_SIZE
  <2> SUFFICES ASSUME NEW i \in Idx \ {k}, InUse(b, i)
               PROVE  /\ o(i) \in Nat /\ s(i) \in Nat \ {0}
                      /\ b.tail_ptr <= o(i) /\ o(i) + s(i) <= PAGE_SIZE
                      /\ \/ o(i) + s(i) <= O /\ p(i) = o(i) + S
                         \/ O + S <= o(i) /\ p(i) = o(i)
                      /\ Extent(c, i) = p(i) .. p(i) + s(i) - 1
                      /\ Extent(b, i) = o(i) .. o(i) + s(i) - 1
                      /\ p(i) \in Nat /\ b.tail_ptr + S <= p(i)
                      /\ p(i) + s(i) <= PAGE_SIZE
    OBVIOUS
  <2>1. /\ c.ids[i].size = s(i)
        /\ (o(i) + s(i) <= O /\ p(i) = o(i) + S) \/ (O + S <= o(i) /\ p(i) = o(i))
    BY DeleteMoves, DeleteItemFields
  <2>2. /\ o(i) \in Nat /\ s(i) \in Nat \ {0}
        /\ b.tail_ptr <= o(i) /\ o(i) + s(i) <= PAGE_SIZE
    BY ItemPlace
  <2>3. /\ Extent(c, i) = p(i) .. p(i) + s(i) - 1
        /\ Extent(b, i) = o(i) .. o(i) + s(i) - 1
    BY <2>1 DEF Extent
  <2> HIDE DEF c, O, S, o, s, p
  <2>4. p(i) \in Nat /\ b.tail_ptr + S <= p(i) /\ p(i) + s(i) <= PAGE_SIZE
    <3>1. CASE o(i) + s(i) <= O /\ p(i) = o(i) + S
      BY <1>3, <2>2, <3>1
    <3>2. CASE O + S <= o(i) /\ p(i) = o(i)
      BY <1>3, <2>2, <3>2
    <3> QED BY <2>1, <3>1, <3>2
  <2> QED BY <2>1, <2>2, <2>3, <2>4
<1>5. \A i \in Idx \ {k}, j \in Idx \ {k} : InUse(b, i) /\ InUse(b, j) /\ i # j =>
        o(i) + s(i) <= o(j) \/ o(j) + s(j) <= o(i)
  BY ItemsOrdered
<1> HIDE DEF c, O, S, o, s, p
<1>6. ItemsHeld(c)
  <2> SUFFICES ASSUME NEW i \in Idx, InUse(c, i)
               PROVE  \E y \in Item : Holds(c, i, y)
    BY DEF ItemsHeld
  <2>1. i # k /\ InUse(b, i)
    BY <1>1
  <2>2. PICK y \in Item : Holds(b, i, y)
    BY <2>1 DEF GoodBlock, ItemsHeld
  <2> QED BY <1>2, <2>1, <2>2
<1>7. ItemsDisjoint(c)
  <2>1. ASSUME NEW i \in Idx, InUse(c, i)
        PROVE  Extent(c, i) \subseteq c.tail_ptr .. PAGE_SIZE - 1
    <3>1. i \in Idx \ {k} /\ InUse(b, i)
      BY <1>1, <2>1
    <3>2. /\ p(i) \in Nat /\ b.tail_ptr + S <= p(i) /\ p(i) + s(i) <= PAGE_SIZE
          /\ s(i) \in Nat /\ Extent(c, i) = p(i) .. p(i) + s(i) - 1
      BY <1>4, <3>1
    <3>3. p(i) .. p(i) + s(i) - 1 \subseteq b.tail_ptr + S .. PAGE_SIZE - 1
      BY <1>3, <3>2
    <3> QED BY <1>1, <3>2, <3>3
  <2>2. ASSUME NEW i \in Idx, NEW j \in Idx, InUse(c, i), InUse(c, j), i # j
        PROVE  Extent(c, i) \cap Extent(c, j) = {}
    <3>1. i \in Idx \ {k} /\ InUse(b, i) /\ j \in Idx \ {k} /\ InUse(b, j)
      BY <1>1, <2>2
    <3>2. /\ p(i) \in Nat /\ s(i) \in Nat /\ p(j) \in Nat /\ s(j) \in Nat
          /\ p(i) + s(i) <= p(j) \/ p(j) + s(j) <= p(i)
      <4>1. /\ o(i) \in Nat /\ s(i) \in Nat \ {0}
            /\ (o(i) + s(i) <= O /\ p(i) = o(i) + S) \/ (O + S <= o(i) /\ p(i) = o(i))
        BY <1>4, <3>1
      <4>2. /\ o(j) \in Nat /\ s(j) \in Nat \ {0}
            /\ (o(j) + s(j) <= O /\ p(j) = o(j) + S) \/ (O + S <= o(j) /\ p(j) = o(j))
        BY <1>4, <3>1
      <4>3. o(i) + s(i) <= o(j) \/ o(j) + s(j) <= o(i)
        BY <1>5, <2>2, <3>1
      <4> QED BY <1>3, <4>1, <4>2, <4>3
    <3>3. (p(i) .. p(i) + s(i) - 1) \cap (p(j) .. p(j) + s(j) - 1) = {}
      BY <3>2
    <3> QED BY <1>4, <3>1, <3>3
  <2> QED BY <2>1, <2>2 DEF ItemsDisjoint
<1>8. Packed(c)
  <2> SUFFICES ASSUME NEW a \in b.tail_ptr + S .. PAGE_SIZE - 1
               PROVE  \E i \in Idx : InUse(c, i) /\ a \in Extent(c, i)
    BY <1>1 DEF Packed
  <2>1. Extent(b, k) = O .. O + S - 1
    BY DEF Extent, O, S
  <2>2. CASE a < O + S
    <3>1. a - S \in b.tail_ptr .. PAGE_SIZE - 1 /\ a - S < O
      BY <1>3, <2>2
    <3>2. PICK i \in Idx : InUse(b, i) /\ a - S \in Extent(b, i)
      BY <3>1 DEF GoodBlock, Packed
    <3>3. i # k
      BY <1>3, <2>1, <3>1, <3>2
    <3>4. p(i) = o(i) + S
      BY <1>3, <1>4, <3>1, <3>2, <3>3
    <3>5. a \in Extent(c, i)
      BY <1>3, <1>4, <3>2, <3>3, <3>4
    <3> QED BY <1>1, <3>2, <3>3, <3>5
  <2>3. CASE ~(a < O + S)
    <3>1. a \in b.tail_ptr .. PAGE_SIZE - 1 /\ a >= O + S
      BY <1>3, <2>3
    <3>2. PICK i \in Idx : InUse(b, i) /\ a \in Extent(b, i)
      BY <3>1 DEF GoodBlock, Packed
    <3>3. i # k
      BY <1>3, <2>1, <3>1, <3>2
    <3>4. p(i) = o(i)
      BY <1>3, <1>4, <3>1, <3>2, <3>3
    <3>5. a \in Extent(c, i)
      BY <1>4, <3>2, <3>3, <3>4
    <3> QED BY <1>1, <3>2, <3>3, <3>5
  <2> QED BY <2>2, <2>3
<1>9. GoodBlock(c)
  BY <1>1, <1>6, <1>7, <1>8 DEF GoodBlock
<1> QED BY <1>1, <1>2, <1>9 DEF c
=============================================================================
