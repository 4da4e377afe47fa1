----------------------------- MODULE BufferPool -----------------------------
(***************************************************************************)
(* The page cache of MyJQL (src/buffer_pool.c) on top of its paged file    *)
(* (src/file_io.c), as operators on one record: the BufferPool struct      *)
(* together with the file behind it.  Modules that use a pool thread such  *)
(* a record through these operators the way the code threads a pointer.    *)
(*                                                                         *)
(* Addresses are counted in pages: the number a stands for the byte offset *)
(* a * PAGE_SIZE, the only offsets the program ever asks for, and -1 is    *)
(* the code's "no page".  A slot number is what the code returns as a      *)
(* Page pointer.                                                           *)
(***************************************************************************)
EXTENDS Integers, FiniteSets

CONSTANTS
  CACHE_PAGE,  \* number of page frames in the pool
  SIZE_MAX,    \* largest size_t; (size_t)-1 marks a frame never used
  NPages,      \* bound: the file never grows beyond this many pages
  Page,        \* the possible contents of a page
  EMPTY_PAGE   \* the page of zeros

ASSUME PoolAssumption ==
  /\ CACHE_PAGE \in Nat \ {0}
  /\ SIZE_MAX \in Nat \ {0, 1}
  /\ NPages \in Nat \ {0}
  /\ EMPTY_PAGE \in Page

Slots == 0 .. CACHE_PAGE - 1
Addr == 0 .. NPages - 1
size_t == 0 .. SIZE_MAX
NoAddr == -1

(* size_t arithmetic wraps. *)
Wrap(n) == n % (SIZE_MAX + 1)

(***************************************************************************)
(* file_io.c.  phys is the number of pages really in the file, length the  *)
(* length the program believes it has (FileInfo.length).  They differ:     *)
(* get_page adds to length without writing anything.  disk is total, and   *)
(* EMPTY_PAGE from phys on: a write past the end leaves a hole of zeros.   *)
(***************************************************************************)
Pool ==
  [ open : BOOLEAN, ub : BOOLEAN,
    disk : [Addr -> Page], phys : 0 .. NPages, length : 0 .. NPages,
    pages : [Slots -> Page], addrs : [Slots -> Addr \cup {NoAddr}],
    cnt : [Slots -> size_t], ref : [Slots -> size_t] ]

(* write_page: refused outside 0..length, appends at length. *)
write_page(p, page, a) ==
  IF a \in 0 .. p.length
  THEN [p EXCEPT !.disk[a] = page,
                 !.phys = IF a < @ THEN @ ELSE a + 1,
                 !.length = IF a = @ THEN a + 1 ELSE @]
  ELSE p

(* read_page succeeds on a page below length that fread really finds. *)
ReadSucceeds(p, a) == a < p.length /\ a < p.phys

(***************************************************************************)
(* buffer_pool.c                                                           *)
(***************************************************************************)

(* The struct before init_buffer_pool, over a file of zero pages. *)
NewFile ==
  [ open |-> FALSE, ub |-> FALSE,
    disk |-> [a \in Addr |-> EMPTY_PAGE], phys |-> 0, length |-> 0,
    pages |-> [k \in Slots |-> EMPTY_PAGE],
    addrs |-> [k \in Slots |-> 0],
    cnt |-> [k \in Slots |-> 0], ref |-> [k \in Slots |-> 0] ]

init_buffer_pool(p) ==
  [p EXCEPT !.open = TRUE, !.length = p.phys,
            !.addrs = [k \in Slots |-> NoAddr],
            !.cnt = [k \in Slots |-> SIZE_MAX],
            !.ref = [k \in Slots |-> 0]]

Cached(p, a) == \E k \in Slots : p.addrs[k] = a

(* The frame both loops over addrs stop at: the first one that holds a. *)
SlotOf(p, a) ==
  CHOOSE k \in Slots : /\ p.addrs[k] = a
                       /\ \A j \in Slots : j < k => p.addrs[j] # a

Hit(p, a) ==
  LET k == SlotOf(p, a)
  IN  [p EXCEPT !.cnt[k] = Wrap(@ + 1), !.ref[k] = Wrap(@ + 1)]

(* Mutant: the search does not look at ref. *)
UnpinnedAll(p) == Slots

Unpinned(p) == {k \in Slots : p.ref[k] = 0}

(* Mutant: the most used frame goes first. *)
VictimMostUsed(p) ==
  CHOOSE k \in Unpinned(p) : \A j \in Unpinned(p) : p.cnt[k] >= p.cnt[j]

(* The frame to replace: least cnt among the unpinned, the first of those.
   A frame never used has cnt = SIZE_MAX, so it is the last choice. *)
Victim(p) ==
  CHOOSE k \in Unpinned(p) :
    \A j \in Unpinned(p) : \/ p.cnt[k] < p.cnt[j]
                           \/ p.cnt[k] = p.cnt[j] /\ k <= j

(* Mutant: the victim is dropped. *)
WriteBackNever(p, k) == p

WriteBack(p, k) ==
  IF p.cnt[k] # SIZE_MAX THEN write_page(p, p.pages[k], p.addrs[k]) ELSE p

(* Mutant: the counts of unused frames are reset too. *)
LoadResetsAll(p, k, a, page) ==
  [p EXCEPT !.pages[k] = page, !.addrs[k] = a, !.ref[k] = 1,
            !.cnt = [j \in Slots |-> IF j = k THEN 1 ELSE 0]]

(* Frame k now holds page a; every other used frame's cnt restarts at 0. *)
Load(p, k, a, page) ==
  [p EXCEPT !.pages[k] = page,
            !.addrs[k] = a,
            !.cnt = [j \in Slots |-> IF j = k THEN 1
                                     ELSE IF p.cnt[j] = SIZE_MAX THEN SIZE_MAX
                                     ELSE 0],
            !.ref[k] = 1]

(* Mutant: the file grows by one page too many. *)
FillGrowsTwo(p, k, a) ==
  IF a >= p.length THEN [Load(p, k, a, EMPTY_PAGE) EXCEPT !.length = a + 2]
  ELSE Load(p, k, a, p.disk[a])

(* A read that fails below length leaves get_page without a return value. *)
Fill(p, k, a) ==
  IF a >= p.length
  THEN [Load(p, k, a, EMPTY_PAGE) EXCEPT !.length = a + 1]
  ELSE IF ReadSucceeds(p, a) THEN Load(p, k, a, p.disk[a])
  ELSE [p EXCEPT !.ub = TRUE]

(* With every frame pinned the search for a victim runs off the end of
   changeable_page; with an address that is no page the caller is handed an
   unused frame or nothing.  Both are recorded as undefined behaviour. *)
get_page(p, a) ==
  IF a \notin Addr THEN [p EXCEPT !.ub = TRUE]
  ELSE IF Cached(p, a) THEN Hit(p, a)
  ELSE IF Unpinned(p) = {} THEN [p EXCEPT !.ub = TRUE]
  ELSE Fill(WriteBack(p, Victim(p)), Victim(p), a)

(* Mutant: the pin stays. *)
ReleaseKeepsPin(p, a) == p

release(p, a) ==
  IF Cached(p, a) THEN [p EXCEPT !.ref[SlotOf(p, a)] = Wrap(@ - 1)] ELSE p

(* The loop writes every frame back in slot order; a frame never used has
   address -1, which write_page refuses.  So page a ends up with the contents
   of the last frame that holds it. *)
LastSlotOf(p, a) ==
  CHOOSE k \in Slots : /\ p.addrs[k] = a
                       /\ \A j \in Slots : j > k => p.addrs[j] # a

Flushed(p) == {a \in Addr : Cached(p, a) /\ a <= p.length}

close_buffer_pool(p) ==
  [p EXCEPT !.open = FALSE,
            !.disk = [a \in Addr |-> IF a \in Flushed(p)
                                     THEN p.pages[LastSlotOf(p, a)]
                                     ELSE p.disk[a]],
            !.phys = CHOOSE n \in 0 .. NPages :
                       /\ n >= p.phys
                       /\ \A a \in Flushed(p) : a < n
                       /\ n = p.phys \/ \E a \in Flushed(p) : n = a + 1,
            !.addrs = [k \in Slots |-> 0],
            !.cnt = [k \in Slots |-> 0],
            !.ref = [k \in Slots |-> 0]]

(***************************************************************************)
(* The contents a caller of the pool sees: the cached copy of a page if    *)
(* there is one, and what is on disk otherwise.                            *)
(***************************************************************************)
Contents(p) ==
  [a \in Addr |-> IF p.open /\ Cached(p, a) THEN p.pages[SlotOf(p, a)]
                  ELSE p.disk[a]]
=============================================================================
