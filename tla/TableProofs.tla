---------------------------- MODULE TableProofs ----------------------------
(***************************************************************************)
(* Proofs about Table, on a free space map that keeps the promises of      *)
(* hash_map.h: blocks stay well formed and without gaps, the map lists     *)
(* every block under its free space, the table grows only when it must,    *)
(* and it implements RowTable; for every page size, every set of items and *)
(* every number of blocks.                                                 *)
(***************************************************************************)
EXTENDS TableOnMap, BlockProofs

(* The blocks of the file are good, the map is one and lists them exactly. *)
TableInv ==
  /\ TypeOK
  /\ fsm \in Fsm
  /\ \A a \in 0 .. length - 1 : GoodBlock(data[a])
  /\ FsmExact

(* The free space of a good block is a size that fits the map. *)
LEMMA FreeSpaceRange ==
  ASSUME NEW b, GoodBlock(b)
  PROVE  FreeSpace(b) \in 0 .. PAGE_SIZE
<1>1. b.head_ptr \in Nat /\ b.tail_ptr \in Nat /\ PAGE_SIZE \in Nat
  BY BlockFields, BlockAssumption DEF GoodBlock
<1>2. b.head_ptr <= b.tail_ptr /\ b.tail_ptr <= PAGE_SIZE
  BY DEF GoodBlock, SectionsApart
<1> QED BY <1>1, <1>2 DEF FreeSpace

(* The pages of the file are among the pages it may have. *)
LEMMA FilePages ==
  ASSUME NEW n \in 0 .. NBlocks
  PROVE  0 .. n - 1 \subseteq BlockAddr
BY TableAssumption DEF BlockAddr

(* hash_table_insert adds a block that is not in the map. *)
LEMMA MapInsert ==
  ASSUME NEW m \in Fsm, NEW size \in 0 .. PAGE_SIZE, NEW addr \in BlockAddr,
         NewToMap(m, addr)
  PROVE  /\ FsmInsert(m, size, addr) \in Fsm
         /\ FsmContent(FsmInsert(m, size, addr)) = FsmContent(m) \cup {<<size, addr>>}
BY FsmAssumption DEF Inserts

(* hash_table_pop removes a block that is in the map under this size. *)
LEMMA MapPop ==
  ASSUME NEW m \in Fsm, NEW size \in 0 .. PAGE_SIZE, NEW addr \in BlockAddr,
         <<size, addr>> \in FsmContent(m)
  PROVE  /\ FsmPop(m, size, addr) \in Fsm
         /\ FsmContent(FsmPop(m, size, addr)) = FsmContent(m) \ {<<size, addr>>}
BY FsmAssumption DEF Pops

(* table_init on no files. *)
LEMMA InitInv == Init => TableInv
<1> SUFFICES ASSUME Init PROVE TableInv
  OBVIOUS
<1>1. 0 .. length - 1 = {}
  BY DEF Init
<1>2. data \in [BlockAddr -> BlockRecord]
  BY EmptyBlockType DEF Init
<1>3. length \in 0 .. NBlocks
  BY TableAssumption DEF Init
<1>4. fsm \in Fsm /\ FsmContent(fsm) = {}
  BY FsmAssumption DEF Init
<1> QED BY <1>1, <1>2, <1>3, <1>4 DEF TableInv, TypeOK, FsmExact

(* The tail of table_insert and of table_delete: block `addr` is stored and
   goes back to the map, from which it had been taken. *)
LEMMA StoreInv ==
  ASSUME TableInv, NEW addr \in 0 .. length' - 1, length' \in 0 .. NBlocks,
         NEW c, GoodBlock(c), NEW map \in Fsm,
         data' = [data EXCEPT ![addr] = c],
         fsm' = FsmInsert(map, FreeSpace(c), addr),
         (0 .. length' - 1) \ {addr} = (0 .. length - 1) \ {addr},
         FsmContent(map) = {<<FreeSpace(data[a]), a>> : a \in (0 .. length - 1) \ {addr}}
  PROVE  TableInv'
<1>1. NBlocks \in Nat /\ length \in 0 .. NBlocks /\ data \in [BlockAddr -> BlockRecord]
  BY TableAssumption DEF TableInv, TypeOK
<1>2. addr \in BlockAddr /\ 0 .. length' - 1 \subseteq BlockAddr
  BY FilePages
<1>3. c \in BlockRecord
  BY DEF GoodBlock
<1>4. /\ data' \in [BlockAddr -> BlockRecord]
      /\ data'[addr] = c
      /\ \A a \in BlockAddr \ {addr} : data'[a] = data[a]
  BY <1>1, <1>2, <1>3
<1>5. \A a \in 0 .. length' - 1 : GoodBlock(data'[a])
  <2> SUFFICES ASSUME NEW a \in 0 .. length' - 1, a # addr
               PROVE  GoodBlock(data'[a])
    BY <1>4
  <2>1. a \in 0 .. length - 1 /\ data'[a] = data[a]
    BY <1>2, <1>4
  <2> QED BY <2>1 DEF TableInv
<1>6. NewToMap(map, addr)
  BY DEF NewToMap
<1>7. FreeSpace(c) \in 0 .. PAGE_SIZE
  BY FreeSpaceRange
<1>8. fsm' \in Fsm /\ FsmContent(fsm') = FsmContent(map) \cup {<<FreeSpace(c), addr>>}
  BY <1>2, <1>6, <1>7, MapInsert
<1>9. FsmContent(fsm') = {<<FreeSpace(data'[a]), a>> : a \in 0 .. length' - 1}
  <2>1. \A a \in (0 .. length - 1) \ {addr} : data'[a] = data[a]
    BY <1>2, <1>4
  <2>2. FsmContent(map) = {<<FreeSpace(data'[a]), a>> : a \in (0 .. length' - 1) \ {addr}}
    BY <2>1
  <2> QED BY <1>4, <1>8, <2>2
<1> QED BY <1>4, <1>5, <1>8, <1>9 DEF TableInv, TypeOK, FsmExact

(* What hash_table_pop_lower_bound hands to table_insert when it finds a block:
   a block of the file with room for the item, no longer in the map. *)
LEMMA OldBlock ==
  ASSUME TableInv, NEW x \in Item,
         NEW r \in FsmPopLowerBound(fsm, SizeOf(x) + ITEM_ID), r.ret # -1
  PROVE  /\ r.fsm \in Fsm
         /\ r.ret \in 0 .. length - 1
         /\ SizeOf(x) + ITEM_ID <= FreeSpace(data[r.ret])
         /\ FsmContent(r.fsm) = {<<FreeSpace(data[a]), a>> : a \in (0 .. length - 1) \ {r.ret}}
<1>1. PoppedLowerBound(fsm, SizeOf(x) + ITEM_ID, r)
  BY FsmAssumption DEF TableInv, PopsLowerBound
<1>2. PICK p \in FsmContent(fsm) :
        /\ p[1] >= SizeOf(x) + ITEM_ID /\ p[2] = r.ret
        /\ FsmContent(r.fsm) = FsmContent(fsm) \ {p}
  BY <1>1 DEF PoppedLowerBound
<1>3. FsmContent(fsm) = {<<FreeSpace(data[a]), a>> : a \in 0 .. length - 1}
  BY DEF TableInv, FsmExact
<1>4. PICK a \in 0 .. length - 1 : p = <<FreeSpace(data[a]), a>>
  BY <1>2, <1>3
<1>5. a = r.ret /\ p[1] = FreeSpace(data[r.ret])
  BY <1>2, <1>4
<1>6. SizeOf(x) + ITEM_ID <= FreeSpace(data[r.ret])
  <2>1. FreeSpace(data[r.ret]) \in 0 .. PAGE_SIZE
    BY <1>5, FreeSpaceRange DEF TableInv
  <2>2. SizeOf(x) + ITEM_ID \in Nat /\ PAGE_SIZE \in Nat
    BY BlockAssumption
  <2> QED BY <1>2, <1>5, <2>1, <2>2
<1>7. FsmContent(r.fsm) = {<<FreeSpace(data[b]), b>> : b \in (0 .. length - 1) \ {r.ret}}
  BY <1>2, <1>3, <1>4, <1>5
<1> QED BY <1>1, <1>5, <1>6, <1>7 DEF PoppedLowerBound

(* When it finds none, no block has room for the item and its ItemID, and the
   map is unchanged. *)
LEMMA NoOldBlock ==
  ASSUME TableInv, NEW x \in Item,
         NEW r \in FsmPopLowerBound(fsm, SizeOf(x) + ITEM_ID), r.ret = -1
  PROVE  /\ r.fsm \in Fsm
         /\ FsmContent(r.fsm) = {<<FreeSpace(data[a]), a>> : a \in 0 .. length - 1}
         /\ \A a \in 0 .. length - 1 : FreeSpace(data[a]) < SizeOf(x) + ITEM_ID
<1>1. PoppedLowerBound(fsm, SizeOf(x) + ITEM_ID, r)
  BY FsmAssumption DEF TableInv, PopsLowerBound
<1>2. FsmContent(fsm) = {<<FreeSpace(data[a]), a>> : a \in 0 .. length - 1}
  BY DEF TableInv, FsmExact
<1>3. \A p \in FsmContent(fsm) : p[2] # -1
  <2> SUFFICES ASSUME NEW a \in 0 .. length - 1 PROVE a # -1
    BY <1>2
  <2> QED OBVIOUS
<1>4. /\ \A p \in FsmContent(fsm) : p[1] < SizeOf(x) + ITEM_ID
      /\ FsmContent(r.fsm) = FsmContent(fsm)
      /\ r.fsm \in Fsm
  BY <1>1, <1>3 DEF PoppedLowerBound
<1>5. ASSUME NEW a \in 0 .. length - 1
      PROVE  FreeSpace(data[a]) < SizeOf(x) + ITEM_ID
  <2>1. <<FreeSpace(data[a]), a>> \in FsmContent(fsm)
    BY <1>2
  <2> QED BY <1>4, <2>1
<1> QED BY <1>2, <1>4, <1>5

(* A block that table_insert adds has room for the item. *)
LEMMA FreshBlock ==
  ASSUME NEW b \in BlockRecord, NEW x \in Item
  PROVE  /\ GoodBlock(init_block(b))
         /\ SizeOf(x) + ITEM_ID <= FreeSpace(init_block(b))
         /\ NewIdx(init_block(b)) = 0
         /\ \A i : ~InUse(init_block(b), i)
<1>1. /\ GoodBlock(init_block(b))
      /\ FreeSpace(init_block(b)) = PAGE_SIZE - HEADER
      /\ init_block(b).n_items = 0
      /\ \A i : ~InUse(init_block(b), i)
  BY InitBlock
<1>2. SizeOf(x) + ITEM_ID <= PAGE_SIZE - HEADER
  BY BlockAssumption
<1>3. NewIdx(init_block(b)) = 0
  BY <1>1 DEF NewIdx, Available
<1> QED BY <1>1, <1>2, <1>3

(* A new block is good and goes to the map. *)
LEMMA NewBlockInv ==
  ASSUME TableInv, NEW x \in Item, InsertIntoNewBlock(x)
  PROVE  TableInv'
<1>1. PICK r \in FsmPopLowerBound(fsm, SizeOf(x) + ITEM_ID) :
        r.ret = -1 /\ Store(x, length, init_block(data[length]), r.fsm)
  BY DEF InsertIntoNewBlock
<1>2. /\ length < NBlocks /\ length' = length + 1
      /\ length \in 0 .. NBlocks /\ NBlocks \in Nat
  BY TableAssumption DEF InsertIntoNewBlock, TableInv, TypeOK
<1>3. data[length] \in BlockRecord
  BY <1>2 DEF TableInv, TypeOK, BlockAddr
<1> DEFINE b == init_block(data[length])
           c == new_item(b, x)
<1>4. GoodBlock(c)
  BY <1>3, FreshBlock, NewItem
<1>5. /\ r.fsm \in Fsm
      /\ FsmContent(r.fsm) = {<<FreeSpace(data[a]), a>> : a \in 0 .. length - 1}
  BY <1>1, NoOldBlock
<1>6. data' = [data EXCEPT ![length] = c] /\ fsm' = FsmInsert(r.fsm, FreeSpace(c), length)
  BY <1>1 DEF Store
<1>7. /\ length \in 0 .. length' - 1 /\ length' \in 0 .. NBlocks
      /\ (0 .. length' - 1) \ {length} = (0 .. length - 1) \ {length}
      /\ (0 .. length - 1) \ {length} = 0 .. length - 1
  BY <1>2
<1> HIDE DEF c
<1> QED BY <1>4, <1>5, <1>6, <1>7, StoreInv

(* An item goes to a block of the file. *)
LEMMA OldBlockInv ==
  ASSUME TableInv, NEW x \in Item, InsertIntoOldBlock(x)
  PROVE  TableInv'
<1>1. PICK r \in FsmPopLowerBound(fsm, SizeOf(x) + ITEM_ID) :
        r.ret # -1 /\ Store(x, r.ret, data[r.ret], r.fsm) /\ UNCHANGED length
  BY DEF InsertIntoOldBlock
<1> DEFINE c == new_item(data[r.ret], x)
<1>2. /\ r.fsm \in Fsm
      /\ r.ret \in 0 .. length - 1
      /\ SizeOf(x) + ITEM_ID <= FreeSpace(data[r.ret])
      /\ FsmContent(r.fsm) = {<<FreeSpace(data[a]), a>> : a \in (0 .. length - 1) \ {r.ret}}
  BY <1>1, OldBlock
<1>3. GoodBlock(c)
  BY <1>2, NewItem DEF TableInv
<1>4. data' = [data EXCEPT ![r.ret] = c] /\ fsm' = FsmInsert(r.fsm, FreeSpace(c), r.ret)
  BY <1>1 DEF Store
<1>5. length' = length /\ length' \in 0 .. NBlocks
  BY <1>1 DEF TableInv, TypeOK
<1> HIDE DEF c
<1> QED BY <1>2, <1>3, <1>4, <1>5, StoreInv

(* A deletion takes the block out of the map under the size it is listed with
   and puts it back under the new one. *)
LEMMA DeleteInv ==
  ASSUME TableInv, NEW rid \in RID, table_delete(rid)
  PROVE  TableInv'
<1> DEFINE addr == rid[1]
           b    == data[addr]
           c    == delete_item(b, rid[2])
           map  == FsmPop(fsm, FreeSpace(b), addr)
<1>1. /\ data' = [data EXCEPT ![addr] = c]
      /\ fsm' = FsmInsert(map, FreeSpace(c), addr)
      /\ length' = length
      /\ addr < length /\ InUse(b, rid[2])
  BY DEF table_delete, Live
<1>2. addr \in BlockAddr /\ length \in 0 .. NBlocks /\ NBlocks \in Nat
  BY TableAssumption DEF RID, TableInv, TypeOK
<1>3. addr \in 0 .. length - 1
  BY <1>1, <1>2 DEF BlockAddr
<1>4. GoodBlock(b) /\ FreeSpace(b) \in 0 .. PAGE_SIZE
  BY <1>3, FreeSpaceRange DEF TableInv
<1>5. GoodBlock(c)
  BY <1>1, <1>4, DeleteItem
<1>6. /\ FsmContent(fsm) = {<<FreeSpace(data[a]), a>> : a \in 0 .. length - 1}
      /\ <<FreeSpace(b), addr>> \in FsmContent(fsm)
  BY <1>3 DEF TableInv, FsmExact
<1>7. map \in Fsm /\ FsmContent(map) = FsmContent(fsm) \ {<<FreeSpace(b), addr>>}
  BY <1>2, <1>4, <1>6, MapPop DEF TableInv
<1>8. FsmContent(map) = {<<FreeSpace(data[a]), a>> : a \in (0 .. length - 1) \ {addr}}
  BY <1>6, <1>7
<1> HIDE DEF addr, b, c, map
<1> QED BY <1>1, <1>2, <1>3, <1>5, <1>7, <1>8, StoreInv

(* Closing and opening leave the content of the map. *)
LEMMA ReopenInv ==
  ASSUME TableInv, Reopen
  PROVE  TableInv'
<1>1. data' = data /\ length' = length /\ fsm' = FsmReopen(fsm)
  BY DEF Reopen
<1>2. fsm' \in Fsm /\ FsmContent(fsm') = FsmContent(fsm)
  BY <1>1, FsmAssumption DEF TableInv, Reopens
<1> QED BY <1>1, <1>2 DEF TableInv, TypeOK, FsmExact

(* Every step keeps the invariant. *)
LEMMA NextInv == TableInv /\ [Next]_vars => TableInv'
<1> SUFFICES ASSUME TableInv, [Next]_vars PROVE TableInv'
  OBVIOUS
<1>1. CASE Reopen
  BY <1>1, ReopenInv
<1>2. ASSUME NEW x \in Item, table_insert(x) PROVE TableInv'
  BY <1>2, NewBlockInv, OldBlockInv DEF table_insert
<1>3. ASSUME NEW rid \in RID, table_delete(rid) PROVE TableInv'
  BY <1>3, DeleteInv
<1>4. CASE UNCHANGED vars
  BY <1>4 DEF vars, TableInv, TypeOK, FsmExact
<1> QED BY <1>1, <1>2, <1>3, <1>4 DEF Next

(* The invariant holds for ever. *)
LEMMA SpecInv == Spec => []TableInv
BY InitInv, NextInv, PTL DEF Spec

(* Types are kept: every field of every block, those of ItemIDs no longer in
   use included, stays within the page through all slides of delete_item. *)
THEOREM TypeCorrect == Spec => []TypeOK
BY SpecInv, PTL DEF TableInv

(* new_item never writes an item over an ItemID or another item, and
   delete_item's slide never makes two items meet. *)
THEOREM BlocksWellFormed == Spec => []BlockInv
<1>1. TableInv => BlockInv
  BY DEF TableInv, BlockInv, GoodBlock
<1> QED BY <1>1, SpecInv, PTL

(* After any insertions and deletions the bytes of a block that are not an item
   in use are the free space between its pointers. *)
THEOREM NothingWasted == Spec => []NoByteLost
<1>1. TableInv => NoByteLost
  BY DEF TableInv, NoByteLost, GoodBlock
<1> QED BY <1>1, SpecInv, PTL

(* table_insert and table_delete keep the map exact, so hash_table_pop always
   finds the block it is asked for. *)
THEOREM MapExact == Spec => []FsmExact
BY SpecInv, PTL DEF TableInv

-----------------------------------------------------------------------------
(* The table grows only when no block of the file could take the item. *)
LEMMA NewBlockGrows ==
  ASSUME TableInv, NEW x \in Item, InsertIntoNewBlock(x)
  PROVE  \A a \in 0 .. length - 1 :
           FreeSpace(data[a]) < data'[length].ids[0].size + ITEM_ID
<1>1. PICK r \in FsmPopLowerBound(fsm, SizeOf(x) + ITEM_ID) :
        r.ret = -1 /\ Store(x, length, init_block(data[length]), r.fsm)
  BY DEF InsertIntoNewBlock
<1>2. \A a \in 0 .. length - 1 : FreeSpace(data[a]) < SizeOf(x) + ITEM_ID
  BY <1>1, NoOldBlock
<1>3. length \in BlockAddr /\ data \in [BlockAddr -> BlockRecord]
  BY TableAssumption DEF InsertIntoNewBlock, TableInv, TypeOK, BlockAddr
<1> DEFINE b == init_block(data[length])
<1>4. data'[length] = new_item(b, x)
  BY <1>1, <1>3 DEF Store
<1>5. new_item(b, x).ids[0].size = SizeOf(x)
  <2>1. GoodBlock(b) /\ SizeOf(x) + ITEM_ID <= FreeSpace(b) /\ NewIdx(b) = 0
    BY <1>3, FreshBlock
  <2> HIDE DEF b
  <2>2. new_item(b, x).ids[NewIdx(b)].size = SizeOf(x)
    BY <2>1, NewItem
  <2> QED BY <2>1, <2>2
<1> QED BY <1>2, <1>4, <1>5

(* Space given back by table_delete is found again before the file grows. *)
THEOREM SpaceIsReused == Spec => GrowsOnlyWhenFull
<1> DEFINE Grows == length' # length =>
                      \A a \in 0 .. length - 1 :
                        FreeSpace(data[a]) < data'[length].ids[0].size + ITEM_ID
<1>1. TableInv /\ [Next]_vars => [Grows]_vars
  <2> SUFFICES ASSUME TableInv, Next, length' # length
               PROVE  \A a \in 0 .. length - 1 :
                        FreeSpace(data[a]) < data'[length].ids[0].size + ITEM_ID
    OBVIOUS
  <2>1. PICK x \in Item : InsertIntoNewBlock(x)
    BY DEF Next, Reopen, table_insert, InsertIntoOldBlock, table_delete
  <2> QED BY <2>1, NewBlockGrows
<1> QED BY <1>1, SpecInv, PTL DEF Spec, GrowsOnlyWhenFull

-----------------------------------------------------------------------------
(* table_read as a function of the block. *)
ReadFrom(block, idx) ==
  LET held == {x \in Item : InUse(block, idx) /\ Holds(block, idx, x)}
  IN  IF held = {} THEN NoItem ELSE CHOOSE x \in held : TRUE

(* Nothing is read under an index that is not in use. *)
LEMMA ReadNothing ==
  ASSUME NEW b, NEW i, ~InUse(b, i)
  PROVE  ReadFrom(b, i) = NoItem
BY DEF ReadFrom

(* What is read is the item whose bytes are there. *)
LEMMA ReadHeld ==
  ASSUME NEW b, NEW i, InUse(b, i), NEW x \in Item, Holds(b, i, x)
  PROVE  ReadFrom(b, i) = x
<1> DEFINE held == {y \in Item : InUse(b, i) /\ Holds(b, i, y)}
<1>1. held = {x}
  BY HoldsUnique
<1>2. ReadFrom(b, i) = IF held = {} THEN NoItem ELSE CHOOSE y \in held : TRUE
  BY DEF ReadFrom
<1> HIDE DEF held
<1> QED BY <1>1, <1>2

(* The same is read from two blocks that agree on an index. *)
LEMMA ReadSame ==
  ASSUME NEW b, NEW c, NEW i, InUse(c, i) <=> InUse(b, i),
         InUse(b, i) => \A y \in Item : Holds(c, i, y) <=> Holds(b, i, y)
  PROVE  ReadFrom(c, i) = ReadFrom(b, i)
<1> DEFINE H(d) == {x \in Item : InUse(d, i) /\ Holds(d, i, x)}
<1>1. H(c) = H(b)
  OBVIOUS
<1>2. /\ ReadFrom(c, i) = IF H(c) = {} THEN NoItem ELSE CHOOSE x \in H(c) : TRUE
      /\ ReadFrom(b, i) = IF H(b) = {} THEN NoItem ELSE CHOOSE x \in H(b) : TRUE
  BY DEF ReadFrom
<1> HIDE DEF H
<1> QED BY <1>1, <1>2

(* table_read and the blocks, before and after a step. *)
LEMMA TableRead ==
  ASSUME NEW rid \in RID
  PROVE  /\ table_read(rid) = IF rid[1] < length THEN ReadFrom(data[rid[1]], rid[2]) ELSE NoItem
         /\ table_read(rid)' = IF rid[1] < length' THEN ReadFrom(data'[rid[1]], rid[2]) ELSE NoItem
<1> DEFINE The(S) == IF S = {} THEN NoItem ELSE CHOOSE x \in S : TRUE
           H == {x \in Item : InUse(data[rid[1]], rid[2]) /\ Holds(data[rid[1]], rid[2], x)}
           G == {x \in Item : rid \in Live /\ Holds(data[rid[1]], rid[2], x)}
<1>1. /\ ReadFrom(data[rid[1]], rid[2]) = The(H)
      /\ ReadFrom(data'[rid[1]], rid[2]) = The(H')
  BY DEF ReadFrom
<1>2. table_read(rid) = The(G) /\ table_read(rid)' = The(G')
  BY DEF table_read
<1>3. The({}) = NoItem
  OBVIOUS
<1>4. /\ G = IF rid[1] < length THEN H ELSE {}
      /\ G' = IF rid[1] < length' THEN H' ELSE {}
  BY DEF Live
<1> HIDE DEF The, G, H
<1>5. table_read(rid) = IF rid[1] < length THEN ReadFrom(data[rid[1]], rid[2]) ELSE NoItem
  BY <1>1, <1>2, <1>3, <1>4
<1>6. table_read(rid)' = IF rid[1] < length' THEN ReadFrom(data'[rid[1]], rid[2]) ELSE NoItem
  <2>1. CASE rid[1] < length'
    BY <1>1, <1>2, <1>4, <2>1
  <2>2. CASE ~(rid[1] < length')
    BY <1>2, <1>3, <1>4, <2>2
  <2> QED BY <2>1, <2>2
<1> QED BY <1>5, <1>6

(* No item can be read from a new table. *)
LEMMA InitRefines == Init => R!Init
<1> SUFFICES ASSUME Init, NEW rid \in RID PROVE table_read(rid) = NoItem
  BY DEF R!Init
<1>1. rid[1] \in BlockAddr /\ length = 0
  BY DEF RID, Init
<1>2. ~(rid[1] < length)
  BY <1>1, TableAssumption DEF BlockAddr
<1> QED BY <1>2, TableRead

(* A step that changes one block changes what is read from no other. *)
LEMMA OtherBlocks ==
  ASSUME TableInv, NEW addr \in BlockAddr, NEW c, data' = [data EXCEPT ![addr] = c],
         \A a \in BlockAddr \ {addr} : a < length' <=> a < length,
         NEW rid \in RID, rid[1] # addr
  PROVE  table_read(rid)' = table_read(rid)
<1>1. rid[1] \in BlockAddr /\ rid[2] \in Idx
  BY DEF RID
<1>2. data'[rid[1]] = data[rid[1]]
  BY <1>1 DEF TableInv, TypeOK
<1>3. rid[1] < length' <=> rid[1] < length
  BY <1>1
<1> QED BY <1>2, <1>3, TableRead

(* Storing an item makes it readable under a RID that was free. *)
LEMMA StoreRefines ==
  ASSUME TableInv, NEW addr \in BlockAddr, addr < length', NEW x \in Item,
         NEW b, GoodBlock(b), SizeOf(x) + ITEM_ID <= FreeSpace(b),
         data' = [data EXCEPT ![addr] = new_item(b, x)],
         \A a \in BlockAddr \ {addr} : a < length' <=> a < length,
         \A i \in Idx : table_read(<<addr, i>>) = ReadFrom(b, i)
  PROVE  R!Next
<1> DEFINE c == new_item(b, x)
           n == NewIdx(b)
<1>1. /\ GoodBlock(c)
      /\ n \in Idx /\ ~InUse(b, n)
      /\ InUse(c, n) /\ Holds(c, n, x)
      /\ \A i \in Idx \ {n} : InUse(c, i) <=> InUse(b, i)
      /\ \A i \in Idx \ {n} : InUse(b, i) =>
           \A y \in Item : Holds(c, i, y) <=> Holds(b, i, y)
  BY NewItem
<1>2. data' = [data EXCEPT ![addr] = c]
  OBVIOUS
<1> HIDE DEF c, n
<1>3. data'[addr] = c
  BY <1>2 DEF TableInv, TypeOK
<1>4. ASSUME NEW i \in Idx
      PROVE  <<addr, i>> \in RID /\ table_read(<<addr, i>>)' = ReadFrom(c, i)
  <2>1. <<addr, i>> \in RID
    BY DEF RID
  <2>2. <<addr, i>>[1] = addr /\ <<addr, i>>[2] = i
    OBVIOUS
  <2>3. table_read(<<addr, i>>)' =
          IF <<addr, i>>[1] < length' THEN ReadFrom(data'[<<addr, i>>[1]], <<addr, i>>[2])
          ELSE NoItem
    BY <2>1, TableRead
  <2> QED BY <1>3, <2>1, <2>2, <2>3
<1>5. table_read(<<addr, n>>) = NoItem
  BY <1>1, ReadNothing
<1>6. table_read(<<addr, n>>)' = x
  BY <1>1, <1>4, ReadHeld
<1>7. ASSUME NEW r \in RID \ {<<addr, n>>}
      PROVE  table_read(r)' = table_read(r)
  <2>1. CASE r[1] # addr
    BY <1>2, <2>1, OtherBlocks
  <2>2. CASE r[1] = addr
    <3>1. r = <<addr, r[2]>> /\ r[2] \in Idx
      BY <2>2 DEF RID
    <3>2. r[2] # n
      BY <3>1
    <3>3. ReadFrom(c, r[2]) = ReadFrom(b, r[2])
      BY <1>1, <3>1, <3>2, ReadSame
    <3>4. /\ table_read(<<addr, r[2]>>)' = ReadFrom(c, r[2])
          /\ table_read(<<addr, r[2]>>) = ReadFrom(b, r[2])
      BY <1>4, <3>1
    <3> QED BY <3>1, <3>3, <3>4
  <2> QED BY <2>1, <2>2
<1>8. <<addr, n>> \in RID
  BY <1>1, <1>4
<1>9. R!Insert(<<addr, n>>, x)
  BY <1>5, <1>6, <1>7, <1>8 DEF R!Insert, R!OthersKept
<1> QED BY <1>8, <1>9 DEF R!Next

(* table_insert, into a new or an old block. *)
LEMMA InsertRefines ==
  ASSUME TableInv, NEW x \in Item, table_insert(x)
  PROVE  R!Next
<1>1. length \in 0 .. NBlocks /\ NBlocks \in Nat
  BY TableAssumption DEF TableInv, TypeOK
<1>2. CASE InsertIntoNewBlock(x)
  <2> DEFINE b == init_block(data[length])
  <2>1. /\ data' = [data EXCEPT ![length] = new_item(b, x)]
        /\ length' = length + 1 /\ length \in BlockAddr
    BY <1>1, <1>2 DEF InsertIntoNewBlock, Store, BlockAddr
  <2>2. data[length] \in BlockRecord
    BY <2>1 DEF TableInv, TypeOK
  <2>3. /\ GoodBlock(b) /\ SizeOf(x) + ITEM_ID <= FreeSpace(b)
        /\ \A i : ~InUse(b, i)
    BY <2>2, FreshBlock
  <2>4. \A a \in BlockAddr \ {length} : a < length' <=> a < length
    BY <1>1, <2>1 DEF BlockAddr
  <2>5. ASSUME NEW i \in Idx
        PROVE  table_read(<<length, i>>) = ReadFrom(b, i)
    <3>1. <<length, i>> \in RID /\ <<length, i>>[1] = length /\ ~(length < length)
      BY <1>1, <2>1 DEF RID
    <3>2. table_read(<<length, i>>) = NoItem
      BY <3>1, TableRead
    <3> QED BY <2>3, <3>2, ReadNothing
  <2>6. length < length'
    BY <1>1, <2>1
  <2> HIDE DEF b
  <2> QED BY <2>1, <2>3, <2>4, <2>5, <2>6, StoreRefines
<1>3. CASE InsertIntoOldBlock(x)
  <2>1. PICK r \in FsmPopLowerBound(fsm, SizeOf(x) + ITEM_ID) :
          r.ret # -1 /\ Store(x, r.ret, data[r.ret], r.fsm) /\ UNCHANGED length
    BY <1>3 DEF InsertIntoOldBlock
  <2> DEFINE addr == r.ret
             b == data[addr]
  <2>2. addr \in 0 .. length - 1 /\ SizeOf(x) + ITEM_ID <= FreeSpace(b)
    BY <2>1, OldBlock
  <2>3. addr \in BlockAddr /\ addr < length' /\ addr < length
    BY <1>1, <2>1, <2>2 DEF BlockAddr
  <2>4. GoodBlock(b)
    BY <2>2 DEF TableInv
  <2>5. data' = [data EXCEPT ![addr] = new_item(b, x)]
    BY <2>1 DEF Store
  <2>6. ASSUME NEW i \in Idx
        PROVE  table_read(<<addr, i>>) = ReadFrom(b, i)
    <3>1. <<addr, i>> \in RID /\ <<addr, i>>[1] = addr /\ <<addr, i>>[2] = i
      BY <2>3 DEF RID
    <3> QED BY <2>3, <3>1, TableRead
  <2>7. \A a \in BlockAddr \ {addr} : a < length' <=> a < length
    BY <2>1
  <2> HIDE DEF addr, b
  <2> QED BY <2>2, <2>3, <2>4, <2>5, <2>6, <2>7, StoreRefines
<1> QED BY <1>2, <1>3 DEF table_insert

(* table_delete makes its RID, which led to an item, lead to none. *)
LEMMA DeleteRefines ==
  ASSUME TableInv, NEW rid \in RID, table_delete(rid)
  PROVE  R!Next
<1> DEFINE addr == rid[1]
           k == rid[2]
           b == data[addr]
           c == delete_item(b, k)
<1>1. /\ data' = [data EXCEPT ![addr] = c]
      /\ length' = length /\ addr < length /\ InUse(b, k)
  BY DEF table_delete, Live
<1>2. addr \in BlockAddr /\ k \in Idx /\ rid = <<addr, k>>
  BY DEF RID
<1>3. addr \in 0 .. length - 1
  BY <1>1, <1>2, TableAssumption DEF TableInv, TypeOK, BlockAddr
<1>4. GoodBlock(b)
  BY <1>3 DEF TableInv
<1>5. /\ ~InUse(c, k)
      /\ \A i \in Idx \ {k} : InUse(c, i) <=> InUse(b, i)
      /\ \A i \in Idx \ {k} : InUse(b, i) =>
           \A y \in Item : Holds(c, i, y) <=> Holds(b, i, y)
  BY <1>1, <1>4, DeleteItem
<1>6. data'[addr] = c
  BY <1>1, <1>2 DEF TableInv, TypeOK
<1>7. table_read(rid) # NoItem
  <2>1. PICK x \in Item : Holds(b, k, x)
    BY <1>1, <1>2, <1>4 DEF GoodBlock, ItemsHeld
  <2>2. table_read(rid) = x
    BY <1>1, <2>1, ReadHeld, TableRead
  <2> QED BY <2>2, BlockAssumption
<1>8. table_read(rid)' = NoItem
  BY <1>1, <1>5, <1>6, ReadNothing, TableRead
<1>9. ASSUME NEW r \in RID \ {rid}
      PROVE  table_read(r)' = table_read(r)
  <2>1. CASE r[1] # addr
    BY <1>1, <1>2, <2>1, OtherBlocks
  <2>2. CASE r[1] = addr
    <3>1. r[2] \in Idx /\ r[2] # k
      BY <1>2, <2>2 DEF RID
    <3>2. ReadFrom(c, r[2]) = ReadFrom(b, r[2])
      BY <1>5, <3>1, ReadSame
    <3> QED BY <1>1, <1>6, <2>2, <3>2, TableRead
  <2> QED BY <2>1, <2>2
<1>10. R!Delete(rid)
  BY <1>7, <1>8, <1>9 DEF R!Delete, R!OthersKept
<1> QED BY <1>10 DEF R!Next

(* The table implements the rows of table.h: a RID leads to the item it was
   given for until it is deleted, although items move within their block and
   ItemIDs are used again. *)
THEOREM Refinement == Spec => ImplementsRowTable
<1>1. TableInv /\ [Next]_vars => [R!Next]_([rid \in RID |-> table_read(rid)])
  <2> SUFFICES ASSUME TableInv, [Next]_vars
               PROVE  [R!Next]_([rid \in RID |-> table_read(rid)])
    OBVIOUS
  <2>1. CASE Reopen \/ UNCHANGED vars
    <3>1. data' = data /\ length' = length
      BY <2>1 DEF Reopen, vars
    <3>2. \A rid \in RID : table_read(rid)' = table_read(rid)
      BY <3>1, TableRead
    <3> QED BY <3>2
  <2>2. ASSUME NEW x \in Item, table_insert(x) PROVE R!Next
    BY <2>2, InsertRefines
  <2>3. ASSUME NEW rid \in RID, table_delete(rid) PROVE R!Next
    BY <2>3, DeleteRefines
  <2> QED BY <2>1, <2>2, <2>3 DEF Next
<1> QED BY <1>1, InitRefines, SpecInv, PTL DEF Spec, ImplementsRowTable, R!Spec
=============================================================================
