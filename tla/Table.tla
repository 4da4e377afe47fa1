-------------------------------- MODULE Table --------------------------------
(***************************************************************************)
(* A table (src/table.c): blocks of items in one file, the free space of   *)
(* every block in a free space map kept in another.  An item is known by   *)
(* its RID, the address of its block and its index there.                  *)
(*                                                                         *)
(* The data pool appears as the page array it implements (PageStore,       *)
(* proved in BufferPoolProofs): data[a] is page a.  The free space map is  *)
(* a parameter, so that the same table can be run on what hash_map.h       *)
(* promises and on what hash_map.c does.                                   *)
(***************************************************************************)
EXTENDS Block

CONSTANTS
  NBlocks,                   \* bound: the table never has more blocks
  FsmInit,                   \* a new free space map
  FsmReopen(_),              \* closed and opened again
  FsmInsert(_, _, _),        \* hash_table_insert
  FsmPop(_, _, _),           \* hash_table_pop
  FsmPopLowerBound(_, _),    \* hash_table_pop_lower_bound: [fsm, ret] it may lead to
  FsmContent(_),             \* the pairs <<size, block>> in the map
  FsmReady(_)                \* bound: the map can take one more operation

ASSUME TableAssumption == NBlocks \in Nat

BlockAddr == 0 .. NBlocks - 1
RID == BlockAddr \X Idx

VARIABLES
  data,    \* the pages of the data file
  length,  \* how many there are
  fsm      \* the free space map

vars == <<data, length, fsm>>

(* The RIDs that callers have been given and not deleted. *)
Live == {rid \in RID : rid[1] < length /\ InUse(data[rid[1]], rid[2])}

(* table_read: the item whose bytes the ItemID leads to, NoItem if there is
   none or they are not those of an item. *)
table_read(rid) ==
  LET held == {x \in Item : rid \in Live /\ Holds(data[rid[1]], rid[2], x)}
  IN  IF held = {} THEN NoItem ELSE CHOOSE x \in held : TRUE

Init ==
  /\ data = [a \in BlockAddr |-> EmptyBlock]
  /\ length = 0
  /\ fsm = FsmInit

(* table_close and table_init. *)
Reopen ==
  /\ FsmReady(fsm)
  /\ fsm' = FsmReopen(fsm)
  /\ UNCHANGED <<data, length>>

(* Mutant: the map gets the free space from before. *)
StoreOldSize(x, addr, block, map) ==
  /\ data' = [data EXCEPT ![addr] = new_item(block, x)]
  /\ fsm' = FsmInsert(map, FreeSpace(block), addr)

(* The tail of table_insert: the item goes to block `addr`, which the map
   then lists under the free space it has left. *)
Store(x, addr, block, map) ==
  LET b == new_item(block, x)
  IN  /\ data' = [data EXCEPT ![addr] = b]
      /\ fsm' = FsmInsert(map, FreeSpace(b), addr)

(* Mutant: the new block is not initialized. *)
InsertIntoRawBlock(x) ==
  /\ length < NBlocks
  /\ \E r \in FsmPopLowerBound(fsm, SizeOf(x) + ITEM_ID) :
       /\ r.ret = -1
       /\ Store(x, length, data[length], r.fsm)
  /\ length' = length + 1

(* The map knows no block with room for the item and an ItemID. *)
InsertIntoNewBlock(x) ==
  /\ length < NBlocks
  /\ \E r \in FsmPopLowerBound(fsm, SizeOf(x) + ITEM_ID) :
       /\ r.ret = -1
       /\ Store(x, length, init_block(data[length]), r.fsm)
  /\ length' = length + 1

InsertIntoOldBlock(x) ==
  \E r \in FsmPopLowerBound(fsm, SizeOf(x) + ITEM_ID) :
    /\ r.ret # -1
    /\ Store(x, r.ret, data[r.ret], r.fsm)
    /\ UNCHANGED length

table_insert(x) ==
  /\ FsmReady(fsm)
  /\ InsertIntoNewBlock(x) \/ InsertIntoOldBlock(x)

(* Mutant: the map is not told of the space given back. *)
DeleteKeepsSize(rid) ==
  /\ FsmReady(fsm)
  /\ rid \in Live
  /\ data' = [data EXCEPT ![rid[1]] = delete_item(@, rid[2])]
  /\ UNCHANGED <<fsm, length>>

table_delete(rid) ==
  LET addr == rid[1]
      b    == delete_item(data[addr], rid[2])
      map  == FsmPop(fsm, FreeSpace(data[addr]), addr)
  IN  /\ FsmReady(fsm)
      /\ rid \in Live
      /\ data' = [data EXCEPT ![addr] = b]
      /\ fsm' = FsmInsert(map, FreeSpace(b), addr)
      /\ UNCHANGED length

Next ==
  \/ Reopen
  \/ \E x \in Item : table_insert(x)
  \/ \E rid \in RID : table_delete(rid)

Spec == Init /\ [][Next]_vars

-----------------------------------------------------------------------------
(* The pages are blocks, whose fields (shorts on the page) all stay within the
   page, those of ItemIDs no longer in use included. *)
TypeOK ==
  /\ data \in [BlockAddr -> BlockRecord]
  /\ length \in 0 .. NBlocks

R == INSTANCE RowTable WITH rows <- [rid \in RID |-> table_read(rid)]

(* The table is the rows of table.h: a step changes what is read under the RID
   it inserts or deletes and under no other, although items of the block move
   when one is deleted and ItemIDs are used again. *)
ImplementsRowTable == R!Spec

(* In every block ItemIDs and items are apart, and no two items share a byte. *)
BlockInv ==
  \A a \in 0 .. length - 1 : SectionsApart(data[a]) /\ ItemsDisjoint(data[a])

(* No byte of a block is lost: what is not an item is free space, however many
   items were deleted and in whatever order. *)
NoByteLost == \A a \in 0 .. length - 1 : Packed(data[a])

(* Every block is in the map exactly once, under the free space it really
   has: else table_insert would overfill it, or hash_table_pop not find it. *)
FsmExact ==
  FsmContent(fsm) = {<<FreeSpace(data[a]), a>> : a \in 0 .. length - 1}

(* The table grows only when no block has room for the new item and its
   ItemID: deleted space is found again. *)
GrowsOnlyWhenFull ==
  [][length' # length =>
       \A a \in 0 .. length - 1 :
         FreeSpace(data[a]) < data'[length].ids[0].size + ITEM_ID]_vars
=============================================================================
