-------------------------------- MODULE Block --------------------------------
(***************************************************************************)
(* The slotted page of a table (src/block.c): ItemIDs grow from the front, *)
(* items from the back, and deleting an item slides the ones before it to  *)
(* close the gap.                                                          *)
(*                                                                         *)
(* A block is a record.  The ItemIDs and the bytes of the items share the  *)
(* page in the code; here ids and data are two functions, which is the     *)
(* same thing as long as head_ptr <= tail_ptr (SectionsApart).  A byte     *)
(* of an item is the pair of the item and the byte's position in it.       *)
(***************************************************************************)
EXTENDS Integers

CONSTANTS
  PAGE_SIZE,    \* bytes of a page
  HEADER,       \* offset of the data section: three shorts
  ITEM_ID,      \* sizeof(ItemID)
  Item,         \* the items that are stored
  SizeOf(_),    \* size of an item in bytes
  NoItem        \* no item

(* table.h: "tables do not handle rows/records which are larger than one page". *)
ASSUME BlockAssumption ==
  /\ PAGE_SIZE \in Nat /\ HEADER \in Nat /\ ITEM_ID \in Nat \ {0}
  /\ HEADER <= PAGE_SIZE
  /\ \A x \in Item : /\ SizeOf(x) \in Nat \ {0}
                     /\ HEADER + ITEM_ID + SizeOf(x) <= PAGE_SIZE
  /\ NoItem \notin Item

Offsets == 0 .. PAGE_SIZE - 1
Idx == 0 .. (PAGE_SIZE - HEADER) \div ITEM_ID - 1
ItemID == [availability : {0, 1}, offset : Offsets, size : 0 .. PAGE_SIZE]

NoByte == <<NoItem, 0>>
Bytes(x) == {x} \X (0 .. SizeOf(x) - 1)
Byte == (UNION {Bytes(x) : x \in Item}) \cup {NoByte}

BlockRecord ==
  [n_items : 0 .. PAGE_SIZE, head_ptr : 0 .. PAGE_SIZE, tail_ptr : 0 .. PAGE_SIZE,
   ids : [Idx -> ItemID], data : [Offsets -> Byte]]

(* A page of zeros. *)
EmptyBlock ==
  [n_items |-> 0, head_ptr |-> 0, tail_ptr |-> 0,
   ids |-> [i \in Idx |-> [availability |-> 0, offset |-> 0, size |-> 0]],
   data |-> [a \in Offsets |-> NoByte]]

init_block(block) ==
  [n_items |-> 0, head_ptr |-> HEADER, tail_ptr |-> PAGE_SIZE,
   ids |-> block.ids, data |-> block.data]

(* Free space between the ItemIDs and the items. *)
FreeSpace(block) == block.tail_ptr - block.head_ptr

(* get_item hands out an item only for an ItemID in use. *)
InUse(block, idx) ==
  idx \in 0 .. block.n_items - 1 /\ block.ids[idx].availability = 0

(* The bytes at the pointer get_item returns are those of item x. *)
Holds(block, idx, x) ==
  /\ block.ids[idx].size = SizeOf(x)
  /\ \A j \in 0 .. SizeOf(x) - 1 : block.data[block.ids[idx].offset + j] = <<x, j>>

(* new_item takes the first ItemID marked available, else a new one. *)
Available(block) ==
  {i \in 0 .. block.n_items - 1 : block.ids[i].availability = 1}

NewIdx(block) ==
  IF Available(block) = {} THEN block.n_items
  ELSE CHOOSE i \in Available(block) : \A j \in Available(block) : i <= j

(* memcpy of the item to just below tail_ptr. *)
WithItem(data, x, at) ==
  [a \in Offsets |-> IF a \in at .. at + SizeOf(x) - 1 THEN <<x, a - at>> ELSE data[a]]

new_item(block, x) ==
  LET i  == NewIdx(block)
      at == block.tail_ptr - SizeOf(x)
      isNew == Available(block) = {}
  IN  [n_items  |-> IF isNew THEN block.n_items + 1 ELSE block.n_items,
       head_ptr |-> IF isNew THEN block.head_ptr + ITEM_ID ELSE block.head_ptr,
       tail_ptr |-> at,
       ids  |-> [block.ids EXCEPT ![i] = [availability |-> 0, offset |-> at,
                                          size |-> SizeOf(x)]],
       data |-> WithItem(block.data, x, at)]

(* Mutant: the last byte is not moved. *)
SlideDataShort(block, off, size) ==
  [a \in Offsets |->
     IF a \in block.tail_ptr + size + 1 .. off + size - 1 THEN block.data[a - size]
     ELSE block.data[a]]

(* The items in front of the deleted one slide back by its size. *)
SlideData(block, off, size) ==
  [a \in Offsets |->
     IF a \in block.tail_ptr + size .. off + size - 1 THEN block.data[a - size]
     ELSE block.data[a]]

(* Mutant: the items that moved keep their offsets. *)
SlideIdsNot(block, idx) == [block.ids EXCEPT ![idx].availability = 1]

SlideIds(block, idx) ==
  LET gone == block.ids[idx]
  IN  [i \in Idx |->
         IF i = idx THEN [gone EXCEPT !.availability = 1]
         ELSE IF InUse(block, i) /\ block.ids[i].offset < gone.offset
         THEN [block.ids[i] EXCEPT !.offset = @ + gone.size]
         ELSE block.ids[i]]

(* Mutant: the space of the item is not given back. *)
DeleteKeepsTail(block, idx) == [block EXCEPT !.ids[idx].availability = 1]

(* Of the ItemIDs marked available at the end, only one is given up. *)
delete_item(block, idx) ==
  LET gone == block.ids[idx]
      ids  == SlideIds(block, idx)
      drop == ids[block.n_items - 1].availability = 1
  IN  [n_items  |-> IF drop THEN block.n_items - 1 ELSE block.n_items,
       head_ptr |-> IF drop THEN block.head_ptr - ITEM_ID ELSE block.head_ptr,
       tail_ptr |-> block.tail_ptr + gone.size,
       ids  |-> ids,
       data |-> SlideData(block, gone.offset, gone.size)]

-----------------------------------------------------------------------------
(* For the properties of a block. *)

(* The ItemID section ends at head_ptr and never meets the items. *)
SectionsApart(block) ==
  /\ block.head_ptr = HEADER + ITEM_ID * block.n_items
  /\ block.head_ptr <= block.tail_ptr
  /\ block.tail_ptr <= PAGE_SIZE

Extent(block, i) ==
  block.ids[i].offset .. block.ids[i].offset + block.ids[i].size - 1

(* The items in use lie between tail_ptr and the end of the page, no two of
   them on a common byte. *)
ItemsDisjoint(block) ==
  \A i \in Idx : InUse(block, i) =>
    /\ Extent(block, i) \subseteq block.tail_ptr .. PAGE_SIZE - 1
    /\ \A j \in Idx : InUse(block, j) /\ i # j =>
         Extent(block, i) \cap Extent(block, j) = {}

(* What is not an item is free space. *)
Packed(block) ==
  \A a \in block.tail_ptr .. PAGE_SIZE - 1 :
    \E i \in Idx : InUse(block, i) /\ a \in Extent(block, i)
=============================================================================
