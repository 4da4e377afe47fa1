------------------------------- MODULE HashMap -------------------------------
(***************************************************************************)
(* The free space map (src/hash_map.c): a static hash map from a free size *)
(* to the blocks of a table with that much free space, kept in the pages   *)
(* of a buffer pool of its own.  Page 0 is the control block, pages        *)
(* 1..n_directory_blocks hold the directory, the pages after them are hash *)
(* blocks, each on the chain of one size or on the free list.              *)
(*                                                                         *)
(* A page is an array of off_t words, so that reading a page as a struct   *)
(* it was not written as (which the code does) has its real meaning.       *)
(* Page addresses are counted in pages, as in BufferPool.  A slot number   *)
(* stands for the pointer get_page returned: it is not looked up again.    *)
(***************************************************************************)
EXTENDS BufferPool

CONSTANTS
  PAGE_WORDS,          \* PAGE_SIZE / sizeof(off_t)
  n_directory_blocks   \* number of directory blocks of the map

ASSUME HashMapAssumption ==
  /\ PAGE_WORDS \in Nat \ {0, 1, 2}
  /\ n_directory_blocks \in Nat \ {0}
  /\ EMPTY_PAGE = [i \in 0 .. PAGE_WORDS - 1 |-> 0]

HASH_MAP_DIR_BLOCK_SIZE == PAGE_WORDS
HASH_MAP_BLOCK_SIZE == PAGE_WORDS - 2

(* Field offsets of HashMapControlBlock and HashMapBlock, in words. *)
free_block_head == 0
n_directory_blocks_ == 1
max_size == 2
next == 0
n_items == 1
table(i) == 2 + i

CtrlAddr == 0
DirAddr(size) == size \div HASH_MAP_DIR_BLOCK_SIZE + 1
DirIndex(size) == size % HASH_MAP_DIR_BLOCK_SIZE

(* The pointer a call of get_page(pool, a) that led to p has returned. *)
PtrTo(p, a) == IF Cached(p, a) THEN SlotOf(p, a) ELSE 0

(* Mutant: two of the three pages stay pinned. *)
release3First(p, a, b, c) == release(p, a)

release3(p, a, b, c) == release(release(release(p, a), b), c)

(***************************************************************************)
(* Opening.  A new file gets its directory blocks first, all -1, and its   *)
(* control block last; an existing one is left as it is.                   *)
(***************************************************************************)
RECURSIVE InitDirectory(_, _)
InitDirectory(p, i) ==
  IF i = 0 THEN p
  ELSE LET q == get_page(InitDirectory(p, i - 1), i)
       IN  release([q EXCEPT !.pages[PtrTo(q, i)] = [w \in 0 .. PAGE_WORDS - 1 |-> -1]], i)

InitControl(p) ==
  LET q == get_page(p, CtrlAddr)
      c == PtrTo(q, CtrlAddr)
  IN  release([q EXCEPT !.pages[c][free_block_head] = -1,
                        !.pages[c][n_directory_blocks_] = n_directory_blocks,
                        !.pages[c][max_size] = n_directory_blocks + 1,
                        !.length = n_directory_blocks + 1], CtrlAddr)

hash_table_init(p) ==
  LET q == init_buffer_pool(p)
  IN  IF q.length # 0 THEN q ELSE InitControl(InitDirectory(q, n_directory_blocks))

hash_table_close(p) == close_buffer_pool(p)

(***************************************************************************)
(* hash_table_insert, one operator per outcome.  p already holds the pages *)
(* the pointers d (directory), c (control block) and b (block) point to.   *)
(***************************************************************************)
NewBlock(page, nxt, addr) ==
  [page EXCEPT ![next] = nxt, ![n_items] = 1, ![table(0)] = addr]

(* The size has no block yet, and the free list has one. *)
InsertFromFreeList(p, size, addr, d, c) ==
  LET free == p.pages[c][free_block_head]
      q    == get_page(p, free)
      b    == PtrTo(q, free)
      r    == [q EXCEPT !.pages[d][DirIndex(size)] = free,
                        !.pages[c][free_block_head] = q.pages[b][next]]
  IN  release3([r EXCEPT !.pages[b] = NewBlock(@, -1, addr)],
               free, DirAddr(size), CtrlAddr)

(* The size has no block yet, and the file grows by one. *)
InsertAtEnd(p, size, addr, d, c) ==
  LET free == p.pages[c][max_size]
      q    == get_page([p EXCEPT !.pages[d][DirIndex(size)] = free], free)
      r    == [q EXCEPT !.pages[PtrTo(q, free)] = NewBlock(@, -1, addr)]
  IN  release3([r EXCEPT !.pages[c][max_size] = @ + 1], DirAddr(size), free, CtrlAddr)

(* Mutant: the block is not released. *)
InsertIntoBlockPinned(p, size, addr, cnt, b) ==
  LET n == p.pages[b][n_items]
  IN  release([p EXCEPT !.pages[b][table(n)] = addr, !.pages[b][n_items] = n + 1],
              DirAddr(size))

(* The first block of the chain has room. *)
InsertIntoBlock(p, size, addr, cnt, b) ==
  LET n == p.pages[b][n_items]
  IN  release(release([p EXCEPT !.pages[b][table(n)] = addr,
                                !.pages[b][n_items] = n + 1],
                      DirAddr(size)), cnt)

(* It has none: a new page, never one of the free list, goes before it. *)
InsertBeforeBlock(p, size, addr, cnt, d) ==
  LET q1   == get_page(p, CtrlAddr)
      c    == PtrTo(q1, CtrlAddr)
      free == q1.pages[c][max_size]
      q2   == get_page(q1, free)
      r    == [q2 EXCEPT !.pages[PtrTo(q2, free)] = NewBlock(@, cnt, addr)]
      s    == [r EXCEPT !.pages[d][DirIndex(size)] = free,
                        !.pages[c][max_size] = @ + 1]
  IN  release(release3(s, cnt, free, CtrlAddr), DirAddr(size))

hash_table_insert(p, size, addr) ==
  LET p1  == get_page(p, DirAddr(size))
      d   == PtrTo(p1, DirAddr(size))
      cnt == p1.pages[d][DirIndex(size)]
  IN  IF cnt = -1
      THEN LET p2 == get_page(p1, CtrlAddr)
               c  == PtrTo(p2, CtrlAddr)
           IN  IF p2.pages[c][free_block_head] # -1
               THEN InsertFromFreeList(p2, size, addr, d, c)
               ELSE InsertAtEnd(p2, size, addr, d, c)
      ELSE LET p2 == get_page(p1, cnt)
               b  == PtrTo(p2, cnt)
           IN  IF p2.pages[b][n_items] # HASH_MAP_BLOCK_SIZE
               THEN InsertIntoBlock(p2, size, addr, cnt, b)
               ELSE InsertBeforeBlock(p2, size, addr, cnt, d)

(***************************************************************************)
(* hash_table_pop                                                          *)
(***************************************************************************)

(* Mutant: the gap is not closed. *)
PopLastFromBlock(p, cnt, b, target) ==
  release([p EXCEPT !.pages[b][n_items] = @ - 1], cnt)

(* The block keeps other items: close the gap, clear the last place. *)
PopFromBlock(p, cnt, b, target) ==
  LET page == p.pages[b]
      n    == page[n_items]
  IN  release([p EXCEPT !.pages[b] =
        [w \in DOMAIN page |->
           IF w = n_items THEN n - 1
           ELSE IF w = table(n - 1) THEN 0
           ELSE IF w \in table(target) .. table(n - 2) THEN page[w + 1]
           ELSE page[w]]], cnt)

(* Mutant: the block is unlinked but not put on the free list. *)
PopBlockLeak(p, cnt, b, from, word) ==
  LET q == get_page(p, from)
  IN  release(release([q EXCEPT !.pages[PtrTo(q, from)][word] = q.pages[b][next],
                                !.pages[b][n_items] = 0], from), cnt)

(* It was the only item: unlink the block from the page `from` (the directory
   block, or its predecessor on the chain) and put it on the free list. *)
PopBlock(p, cnt, b, from, word) ==
  LET p1 == get_page(p, from)
      f  == PtrTo(p1, from)
      p2 == get_page([p1 EXCEPT !.pages[f][word] = p1.pages[b][next]], CtrlAddr)
      c  == PtrTo(p2, CtrlAddr)
      p3 == [p2 EXCEPT !.pages[b][n_items] = 0, !.pages[b][table(0)] = 0,
                       !.pages[b][next] = p2.pages[c][free_block_head]]
  IN  release3([p3 EXCEPT !.pages[c][free_block_head] = cnt], from, cnt, CtrlAddr)

RECURSIVE PopWalk(_, _, _, _, _)
PopWalk(p, size, addr, cnt, pre) ==
  LET q     == get_page(p, cnt)
      b     == PtrTo(q, cnt)
      found == {i \in 0 .. HASH_MAP_BLOCK_SIZE - 1 :
                  i < q.pages[b][n_items] /\ q.pages[b][table(i)] = addr}
      target == CHOOSE i \in found : \A j \in found : j <= i
  IN  IF q.ub THEN q
      ELSE IF found = {} THEN PopWalk(release(q, cnt), size, addr, q.pages[b][next], cnt)
      ELSE IF q.pages[b][n_items] > 1 THEN PopFromBlock(q, cnt, b, target)
      ELSE IF pre = cnt THEN PopBlock(q, cnt, b, DirAddr(size), DirIndex(size))
      ELSE PopBlock(q, cnt, b, pre, next)

hash_table_pop(p, size, addr) ==
  LET q   == get_page(p, DirAddr(size))
      cnt == q.pages[PtrTo(q, DirAddr(size))][DirIndex(size)]
  IN  PopWalk(release(q, DirAddr(size)), size, addr, cnt, cnt)

(* Mutant: the address of the hash block is returned. *)
TakeHashBlock(p, dir, d, counter) ==
  LET m    == p.pages[d][counter]
      q    == get_page(p, m)
      addr == q.pages[PtrTo(q, m)][table(0)]
      size == (dir - 1) * HASH_MAP_DIR_BLOCK_SIZE + counter
  IN  [pool |-> hash_table_pop(release(release(q, dir), m), size, addr), ret |-> m]

(***************************************************************************)
(* hash_table_pop_lower_bound: the first size from `size` on that has a    *)
(* block.  The walk takes one step beyond the last directory entry, into   *)
(* word 0 of the page after the directory, before it gives up; when that   *)
(* word is -1 it releases the page twice.                                  *)
(***************************************************************************)
TakeFirst(p, dir, d, counter) ==
  LET m    == p.pages[d][counter]
      q    == get_page(p, m)
      addr == q.pages[PtrTo(q, m)][table(0)]
      size == (dir - 1) * HASH_MAP_DIR_BLOCK_SIZE + counter
  IN  [pool |-> hash_table_pop(release(release(q, dir), m), size, addr), ret |-> addr]

RECURSIVE LowerBoundWalk(_, _, _, _)
LowerBoundWalk(p, n_dir, dir, counter) ==
  LET d    == PtrTo(p, dir)
      here == (dir - 1) * HASH_MAP_DIR_BLOCK_SIZE + counter
      end  == n_dir * HASH_MAP_DIR_BLOCK_SIZE
      last == counter + 1 = HASH_MAP_DIR_BLOCK_SIZE
      dir2 == IF last THEN dir + 1 ELSE dir
  IN  IF p.ub THEN [pool |-> p, ret |-> -1]
      ELSE IF p.pages[d][counter] # -1
      THEN IF here # end THEN TakeFirst(p, dir, d, counter)
           ELSE [pool |-> release(p, dir), ret |-> -1]
      ELSE IF here >= end
      THEN IF here # end THEN TakeFirst(release(p, dir), dir, d, counter)
           ELSE [pool |-> release(release(p, dir), dir), ret |-> -1]
      ELSE LowerBoundWalk(get_page(release(p, dir), dir2), n_dir, dir2,
                          IF last THEN 0 ELSE counter + 1)

(* Mutant: the walk starts at the beginning of the directory block. *)
PopLowerBoundFromStart(p, size) ==
  LET q     == get_page(p, CtrlAddr)
      n_dir == q.pages[PtrTo(q, CtrlAddr)][n_directory_blocks_]
  IN  LowerBoundWalk(get_page(release(q, CtrlAddr), DirAddr(size)), n_dir,
                     DirAddr(size), 0)

hash_table_pop_lower_bound(p, size) ==
  LET q     == get_page(p, CtrlAddr)
      n_dir == q.pages[PtrTo(q, CtrlAddr)][n_directory_blocks_]
  IN  LowerBoundWalk(get_page(release(q, CtrlAddr), DirAddr(size)), n_dir,
                     DirAddr(size), DirIndex(size))

(***************************************************************************)
(* What the pages represent, read the way the code reads them.  mem is the *)
(* contents of the pages, wherever they are.                               *)
(***************************************************************************)
AllSizes == 0 .. n_directory_blocks * HASH_MAP_DIR_BLOCK_SIZE - 1

Exists(p) == (IF p.open THEN p.length ELSE p.phys) # 0

RECURSIVE Chain(_, _, _)
Chain(mem, a, bound) ==
  IF a \notin Addr \/ bound = 0 THEN {}
  ELSE {a} \cup Chain(mem, mem[a][next], bound - 1)

ChainOf(mem, s) == Chain(mem, mem[DirAddr(s)][DirIndex(s)], NPages)
FreeList(mem) == Chain(mem, mem[CtrlAddr][free_block_head], NPages)

Items(page) ==
  {page[table(i)] : i \in {j \in 0 .. HASH_MAP_BLOCK_SIZE - 1 : j < page[n_items]}}

(* The pairs of a size and a block address in the map. *)
Represented(p) ==
  LET mem == Contents(p)
  IN  IF Exists(p)
      THEN UNION {{<<s, b>> : b \in UNION {Items(mem[a]) : a \in ChainOf(mem, s)}}
                    : s \in AllSizes}
      ELSE {}
=============================================================================
