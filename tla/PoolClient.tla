----------------------------- MODULE PoolClient -----------------------------
(***************************************************************************)
(* A buffer pool and the callers that use it with the discipline of the    *)
(* storage code: get_page, use of the page through the returned pointer,   *)
(* release.  Every interleaving of such calls is allowed, which covers the *)
(* nested gets of the hash map and of the B-tree.                          *)
(*                                                                         *)
(* One thing the code does not check is taken for granted: no page is got  *)
(* so often between two misses that its use count reaches the mark -1 of a *)
(* frame never used (CountStaysLow).                                       *)
(*                                                                         *)
(* Refinement: the pool implements PageStore, so a page keeps its contents *)
(* across eviction, reloading, closing and reopening.                      *)
(***************************************************************************)
EXTENDS BufferPool

CONSTANTS
  MaxPins,  \* the callers hold at most this many different pages at once
  MaxNest   \* bound: they take a page at most this often before releasing it

ASSUME ClientAssumption ==
  /\ MaxPins \in 0 .. CACHE_PAGE
  /\ MaxNest \in 1 .. SIZE_MAX - 1

VARIABLES
  pool,  \* the BufferPool struct and its file
  pins,  \* calls of get_page that have not been released, for each page
  ptr    \* the frame the last get_page of each page returned

vars == <<pool, pins, ptr>>

Held == {a \in Addr : pins[a] > 0}

Init ==
  /\ pool = NewFile
  /\ pins = [a \in Addr |-> 0]
  /\ ptr = [a \in Addr |-> 0]

OpenPool ==
  /\ ~pool.open
  /\ pool' = init_buffer_pool(pool)
  /\ UNCHANGED <<pins, ptr>>

(* myjql_close runs between operations, when nothing is held. *)
ClosePool ==
  /\ pool.open
  /\ Held = {}
  /\ pool' = close_buffer_pool(pool)
  /\ UNCHANGED <<pins, ptr>>

(* Bound: from one miss to the next a page is got fewer than SIZE_MAX times.
   get_page adds one to cnt on every hit and restarts it only on a miss; past
   this bound cnt would be -1, the mark of a frame never used, and the page
   would be evicted without being written. *)
CountStaysLow(a) ==
  Cached(pool, a) => pool.cnt[SlotOf(pool, a)] + 1 < SIZE_MAX

(* The callers ask for pages of the file and for the one that extends it. *)
GetPage(a) ==
  /\ pool.open
  /\ ~pool.ub
  /\ a <= pool.length
  /\ Cardinality(Held \cup {a}) <= MaxPins
  /\ pins[a] < MaxNest
  /\ CountStaysLow(a)
  /\ pool' = get_page(pool, a)
  /\ pins' = [pins EXCEPT ![a] = @ + 1]
  /\ ptr' = IF Cached(pool', a) THEN [ptr EXCEPT ![a] = SlotOf(pool', a)] ELSE ptr

(* A write through the pointer: into the frame, whatever it holds by now. *)
WriteThrough(a, v) ==
  /\ pins[a] > 0
  /\ pool' = [pool EXCEPT !.pages[ptr[a]] = v]
  /\ UNCHANGED <<pins, ptr>>

ReleasePage(a) ==
  /\ pins[a] > 0
  /\ pool' = release(pool, a)
  /\ pins' = [pins EXCEPT ![a] = @ - 1]
  /\ UNCHANGED ptr

Next ==
  \/ OpenPool
  \/ ClosePool
  \/ \E a \in Addr : \/ GetPage(a)
                     \/ ReleasePage(a)
                     \/ \E v \in Page : WriteThrough(a, v)

Spec == Init /\ [][Next]_vars

-----------------------------------------------------------------------------
(* The pool, the pin counts and the pointers have their types. *)
TypeOK ==
  /\ pool \in Pool
  /\ pins \in [Addr -> 0 .. MaxNest]
  /\ ptr \in [Addr -> Slots]

(* A page that a caller holds stays in the frame whose address get_page
   returned: no sequence of other gets, misses and releases evicts it. *)
PinnedStaysPut ==
  \A a \in Held : pool.addrs[ptr[a]] = a

(* get_page always finds a frame to replace, and always finds the page it
   reads in the file although length runs ahead of what was written. *)
NoUndefinedBehaviour == ~pool.ub

(* No page is in two frames. *)
NoDuplicates ==
  \A j, k \in Slots :
    pool.addrs[j] = pool.addrs[k] /\ pool.addrs[j] # NoAddr => j = k

(* cnt tells the used frames from the others, and ref counts the callers. *)
FramesAgree ==
  \A k \in Slots :
    /\ pool.addrs[k] = NoAddr <=> pool.cnt[k] = SIZE_MAX
    /\ pool.addrs[k] = NoAddr => pool.ref[k] = 0
    /\ pool.addrs[k] # NoAddr => /\ pool.addrs[k] < pool.length
                                 /\ pool.ref[k] = pins[pool.addrs[k]]

(* The file may be shorter than length, but only by pages that are cached. *)
NothingMissing ==
  /\ pool.phys <= pool.length
  /\ \A a \in Addr : a < pool.length => Cached(pool, a) \/ a < pool.phys

(* Beyond the physical end there are only zeros to be found. *)
HolesAreZero ==
  \A a \in Addr : a >= pool.phys => pool.disk[a] = EMPTY_PAGE

(* A frame is used for the first time only when every used frame is pinned,
   so a pool never has more used frames than its callers hold pages at once:
   the other frames of CACHE_PAGE are never filled. *)
Used == {k \in Slots : pool.addrs[k] # NoAddr}
ColdFramesStayCold == pool.open => Cardinality(Used) <= MaxPins

(* The inductive invariant behind all of these. *)
PoolInv ==
  /\ NoUndefinedBehaviour
  /\ HolesAreZero
  /\ ~pool.open => Held = {}
  /\ pool.open => NoDuplicates /\ FramesAgree /\ PinnedStaysPut /\ NothingMissing

(***************************************************************************)
(* The pool implements the page store.                                     *)
(***************************************************************************)
Store == INSTANCE PageStore WITH
  mem  <- Contents(pool),
  len  <- IF pool.open THEN pool.length ELSE pool.phys,
  open <- pool.open

(* Eviction, reloading, closing and reopening never change what a page
   contains or how many pages there are. *)
ImplementsPageStore == Store!Spec
=============================================================================
