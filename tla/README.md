# MyJQL, specified

MyJQL is a small key-value store: a storage engine in C that keeps one map from
byte strings to byte strings in a handful of paged files, a server that runs one
thread per client around it, and a client driver with a shell. This directory
holds TLA+ modules that model it, TLC configurations that check them, and proofs
about the page cache, the tables, the store and the server that TLAPS checks. Paths
below are relative to the root of the repository.

## The system

| part | code | state it keeps | operations |
|---|---|---|---|
| paged file | `src/file_io.c` | a `FILE`, the length the program believes it has | open, close, read_page, write_page |
| buffer pool | `src/buffer_pool.c` | 8 frames: page, address, use count `cnt`, reference count `ref` | init, close, get_page, release |
| free space map | `src/hash_map.c` | a control block, a directory by free size, chains of hash blocks, a free list | init, close, insert, pop, pop_lower_bound |
| block | `src/block.c` | one page: ItemIDs growing up, items growing down | init_block, get_item, new_item, delete_item |
| table | `src/table.c` | a data pool of blocks and a free space map | init, close, insert, read, delete |
| strings | `src/str.c` | chunks of at most 20 characters in a table, linked by RID | write, read, compare, delete |
| index | `src/b_tree.c` | a control block and B+ tree nodes in a pool | init, close, search, insert, delete |
| store | `src/myjql.c` | index, a table of records (key RID, value RID), a table of strings | init, close, get, set, del |
| server | `main/myjqlserver.c` | listening socket, worker threads, one mutex | accept, the request loop, the SIGINT handler |
| client driver | `driver/myjqlclient.cpp` | a socket | connect, get, set, del, destructor |
| shell | `main/myjqlshell.cpp` | a client | one call per input line |

The parts are layered. The store calls the index, which calls back into the store
to compare keys and to copy and delete the keys it uses as separators; index,
records and strings live in pools of their own; a table keeps a free space map
in yet another pool. Every layer holds pages by the pointers `get_page` returned,
and must release each of them exactly once. Nothing in the engine is thread-safe:
the server calls it under one mutex, from every worker and from the handler of
Ctrl-C. Client and server talk in fixed sequences of 4-byte integers and bytes,
with no framing: who misses a word is out of step for good.

What is hard here:

* **pins and pointers**: a page given to a caller must not be evicted under it,
  and a release too many makes the count of callers wrap below zero;
* **counters that mark**: `cnt` is unsigned and -1 marks a frame never used; the
  file's length runs ahead of what was written;
* **long sequences of legal calls**: deletions in a tree of three levels, chains
  of hash blocks emptied from the middle, slots of a block used again;
* **things with one owner**: a separator of the index is a record of its own with
  its own copy of the key, a value that is replaced is freed before the index lets
  go of its record, and RIDs are used again at once;
* **boundaries**: a string that ends where a chunk ends, a key that another begins
  with, an empty value;
* **threads**: workers, the mutex, and a signal handler that runs on whatever
  thread the kernel picks and locks the same mutex;
* **peers that go**: `recv` returning 0 is not treated as an error on either side.

What makes each part correct: the pool is an array of pages that survives closing
(`ImplementsPageStore`); the free space map is the set of pairs `hash_map.h`
describes (`ImplementsFreeSpaceMap`); an item keeps its bytes while others come
and go (`ImplementsRowTable`); the map lists every block under the free
space it really has (`FsmExact`); a search finds exactly what was inserted and not
deleted (`SearchExact`), no page or separator copy leaks (`PagesAccountedFor`,
`CopiesExact`) and every page fetched is released (`PinsBalanced`); strings compare
alike however they are cut (`ComparisonsExact`), every record and every chunk has
one owner (`NothingLeaked`), and the store is one map (`ImplementsDictionary`);
clients see one map on which each call takes effect at one moment
(`ImplementsKeyValue`); every call returns and Ctrl-C stops the server
(`CallsReturn`, `Stops`). `PROJECT.json` lists the hazards one by one, each with
its line and the properties that watch it.

## Modules

| module | models | extends |
|---|---|---|
| `BufferPool` | `buffer_pool.c` and `file_io.c` as operators on one record, the struct with its file | |
| `PageStore` | what the pool promises: an array of pages | |
| `PoolClient` | any sequence of calls of a pool, with ghost pins and pointers | `BufferPool`, instantiates `PageStore` |
| `BufferPoolProofs` | the theorems about them | `PoolClient`, `Facts` |
| `Facts` | lemmas on arithmetic, sequences and recursive functions the proofs share | |
| `HashMap` | `hash_map.c`, on the real pool, pages being arrays of words | `BufferPool` |
| `FreeSpaceMap` | what `hash_map.h` promises | |
| `HashMapClient` | callers that keep the two rules of `hash_map.h` | `HashMap`, instantiates `FreeSpaceMap` |
| `Block` | `block.c`, down to the bytes of the items | |
| `BlockProofs` | what its operations do to a good block | `Block`, `Facts` |
| `Table` | `table.c`, with the free space map as a parameter | `Block`, instantiates `RowTable` |
| `RowTable` | what `table.h` promises: items by RID | |
| `TableOnMap` | the promises of `hash_map.h` as an assumption on that parameter | `Table` |
| `TableProofs` | the theorems about tables on such a map | `TableOnMap`, `BlockProofs` |
| `MCTable`, `MCTableHashMap` | the table on the map of `hash_map.h`, and on the map of `hash_map.c` | `TableOnMap`; `Table` and `HashMap` |
| `BTree` | `b_tree.c`, with the comparisons and handlers it is given as parameters | |
| `BTreeClient` | insertions of absent keys, deletions of present ones | `BTree` |
| `Str` | `str.c` | |
| `Myjql` | `myjql.c`: records, comparisons, handlers, get, set, del, with the index as a parameter | `Str` |
| `Dictionary` | what `myjql.h` promises: one map | |
| `MyjqlClient` | calls of the store, one at a time; what the store relies on the index for | `Myjql`, instantiates `Dictionary` |
| `MCMyjql` | the store on the B-tree | `MyjqlClient`, instantiates `BTree` |
| `StoreProofs` | the theorems about strings and the store | `MyjqlClient`, `Facts` |
| `Service` | clients, connections, workers, mutex, handler | instantiates `KeyValue` |
| `ServiceProofs` | mutual exclusion, proved | `Service` |
| `SessionProofs` | types and keeping step, proved | `Service`, `Facts` |
| `KeyValueProofs` | one map for well-behaved clients, proved | `SessionProofs` |
| `KeyValue` | what the README of the repository promises clients: one map | |

The other `MC...` modules only give constants their values.

**BufferPool.** A pool is a record: `pages`, `addrs`, `cnt`, `ref` as in the C
struct, and of the file both `length` (what `FileInfo` says) and `phys` (what is
there), because `get_page` adds to `length` without writing. Addresses count
pages. A slot number is what the code returns as a pointer; a caller keeps it and
does not look it up again, so a write through a stale pointer lands in whatever
the frame holds by then. `size_t` arithmetic wraps at `SIZE_MAX`. Where the code
would run off its arrays (no frame to replace) or return nothing, the record's
`ub` becomes true. All loops of `close_buffer_pool` and `get_page` are one
definition each: the search for the page, the search for the least used unpinned
frame, the write-back, the growth of the file, the load with the reset of counts.

**HashMap** threads a pool record through the same calls of `get_page` and
`release` as the C code, in its order, and reads pages as arrays of words. This
matters: `pop_lower_bound` runs past the directory and reads a hash block as if
it were a directory block, and the number of times each page is released is the
code's.

**Block** keeps an array of bytes, in which each byte is marked with the item and
the position it belongs to, so that a copy that is too short, too long or in the
wrong direction shows.

**Table** uses the page array for its data pool, which is what the proof of
`Refinement` justifies, and takes the free space map as seven constant operators.
What `table_read` finds is computed from the bytes of the blocks, and it is this
that is mapped to the rows of `RowTable`.

**BTree** also uses the page array, with one record for the control block, the
nodes, the heap (the tables that the comparisons read and the handlers change) and
the pins: each `get_page` and `release` of the code is counted, and `ub` becomes
true when a page is asked for while `CACHE_PAGE` others are held. Insertion and
deletion follow the recursion of the code and pass back the child to add or to
drop. `BTreeClient` runs it with rows that are keys and a heap that counts copies,
which puts many keys in reach; `MCMyjql` runs it with the real records.

**Str and Myjql.** The store takes the index as constant operators, one for each call of
`b_tree.h` and three that say which records it leads to from its leaves (`IndexRows`),
which from its inner nodes (`IndexCopies`) and whether a page is pinned. The comparisons
and handlers that the C code passes to the index as function pointers read and change
the heap (the table of records and the table of strings); so a call of the index takes
the heap and returns it. `MCMyjql` puts in `BTree` with the functions of `myjql.c`. A
loop over a string is a recursive function of the number of turns (`After`, `Chain`,
`WriteChunks`) and the first turn that leaves it (`First`). A table is the items it has
by RID, as `RowTable` says. Which free RID an insertion gets is left open there; `Str`
takes the first free one, the choice that uses a RID again soonest, so that a RID kept
too long shows. A read of a RID that is not in use has no value in the model and would
stop TLC: that the run `store` passes also shows that there is none. A character is an
integer, since `char` is signed and compared as such. The order in which `myjql_set` and
`myjql_del` change value, index and record is the code's: the index compares keys while
it deletes, so the key must still be there.

**Service.** One element on the wire is one `send`. Every worker is a program
counter with the variables the C code keeps in its frame (`code`, key, value),
including what is left in them from the last request. `recv` on a connection
whose other side has closed returns 0 and leaves the variables as they are. For the
client that is so only if the server had accepted the connection and read all that was
sent (`ClosedInOrder`); otherwise Linux resets the connection and `recv` fails. The
driver connects to `localhost`, where a reset is not late.
`send` to it is answered with a reset, and the send after that kills the process
with SIGPIPE. `peer` records how far that has gone. The store is its map; each
call of `myjql_*` is one step between entering and leaving the critical section.
The handler runs on the main thread, or on a worker while the main thread is
already in it, and the thread it runs on does nothing else meanwhile. It may run
before the store is open; start-up itself may fail.

## Runs

| run | bounds | what it shows |
|---|---|---|
| `pool` | 3 frames, 4 pages, 2 contents, 2 pages held at once, each at most twice, `SIZE_MAX` 4 | pointers stay good, the invariant below, the array of pages |
| `free_space_map` | 4 frames, 6 pages of 4 words, 2 directory blocks, 4 blocks of size 5, one of them of size 2 too, requests for sizes 2, 5 and 6 | the set of pairs, the pages, the pins, as long as no call releases a page twice |
| `table` | 2 blocks of 7 bytes, items of 1 and 2 bytes | rows, bytes and offsets in the blocks, exact free space, growth only when needed |
| `table_on_hash_map` | 3 blocks of 8 bytes on the map of `hash_map.c` | **violated**: the map loses blocks of the table |
| `index` | `DEGREE` 2; 9 keys in any order; 20 keys up or down, then 5 deletions; 4 frames | one to three levels, empty and back; every split, redistribution and merge of leaves and inner nodes; pins |
| `store` | `DEGREE` 2, chunks of 2 characters, 14 keys of 1 to 5, 2 values; any 4 calls from an empty store, any 3 from 5 or 7 keys, any 2 from 14, with closing and opening between | the store is a map; records, chunks and copies have one owner; comparisons; pins; the B-tree is an index the store may rely on (`IndexKeeps`) |
| `store_empty` | the same with an empty value | **violated**: a get returns what was in memory in front of the value |
| `service` | 2 clients, 2 calls each, all well-behaved | linearizability, mutual exclusion, framing, every call returns |
| `service_stop` | 1 client that may vanish, two Ctrl-C at any moment, one socket, mutex or thread that is not to be had | mutual exclusion while open; calls return and the server stops, unless the second Ctrl-C interrupts a worker in the critical section |
| `service_late_write` | 1 client, one Ctrl-C | **violated**: an acknowledged change is in no file |
| `service_stale_ack` | 1 client, one Ctrl-C | **violated**: a set or del returns normally though nothing was received |
| `service_silent_client` | 1 client that vanishes | **violated**: the server stores a pair nobody sent |

**Why the bounds are enough.** Three frames and four pages make every access
after the third a choice of a victim, with one frame never held, which is the
least `get_page` needs. `SIZE_MAX` 4 leaves room for the counts 0 to 3, enough for
frames to differ in use and for the mark -1 (which is 4) to be the largest. The count
never reaches the mark: `CountStaysLow`, a bound in `GetPage`, keeps callers from getting
a page `SIZE_MAX` times from one miss to the next (see *Proofs* for what lies beyond).
In the free space map four blocks and two items a hash
block give chains of one, two and three blocks, so that first, middle and last are
different; two directory blocks make the scan cross from one to the next and past
the last. Its use counts are kept clear of `SIZE_MAX` by the same assumption
(`CountsLow`). A block of 7 bytes, 1
of header and 1 for an ItemID, holds up to three items, so that a deletion has items
on both sides. `DEGREE` 2 is the code's own (`PAGE_SIZE` is 128): nine keys reach two
levels with three and more leaves; three levels need twenty keys inserted in order,
from where five deletions reach every branch of `delete_entry` on inner nodes. Four
frames are all the index ever needs at once; the code has eight. In `store` the
scenarios start before and after each change of the tree's height, and chunks of
two characters (20 in the code) make keys of one to three chunks, among them keys
that begin another one and end inside a chunk or at the end of one. Two clients
are the least that compete; a key or a value longer than `MAX_STR_LEN` is among
the inputs, and lengths 1 and 4 are, because 1 is also the code for "ok".
`CHECK_DEADLOCK FALSE` stands where a bound stops the run: no calls left, no room
for another hash block, no deletions left. Symmetry is not used.

**Fairness.** In `Service` every thread that can step eventually does (weak
fairness of the worker, of the main thread, of the handler), a client that waits
in `recv` takes what has arrived, and the network delivers. Linux schedules
threads, and TCP delivers, in this way. A worker waiting for the mutex is only
weakly fair: with finitely many calls nobody can overtake it for ever, and the
properties need no fairness of the mutex that pthreads does not promise. No client is
obliged to call, to leave or to interrupt. The engine's modules are sequential
and state no liveness.

## Proofs

`BufferPoolProofs` proves, for every number of frames, pages, contents and pins, every
`SIZE_MAX` of at least 2, and callers that keep the three bounds below:

* `TypeCorrect`, `InvariantHolds`: `TypeOK` and `PoolInv` in every reachable state;
* `NeverUndefined`: `get_page` always finds a frame and always finds its page in
  the file;
* `PinnedPagesStay`: a pointer stays good until it is released;
* `Refinement`: the pool implements `PageStore`.

They rest on `PoolAssumption` and on what `PoolClient` assumes of the callers:

* they hold no more pages at once than there are frames (`MaxPins`); otherwise
  `get_page` runs off its arrays;
* they hold no page `SIZE_MAX` times at once (`MaxNest`), so that `ref` does not wrap;
* they get no page `SIZE_MAX` times or more from one miss to the next
  (`CountStaysLow`), so that `cnt` does not reach the mark -1.

The code checks none of them. The last one holds of any real execution, since a `size_t`
of 64 bits does not get there, but it is needed: `src/buffer_pool.c:49` adds one on
every hit and only a miss restarts the counts. A page loaded, got again until its count is
-1 and released would be taken for an empty frame and evicted without being written;
read again it would be missing from the file or full of zeros. With a narrower
counter this would be a bug, and neither run nor proof says anything of it.

The inductive invariant is `TypeOK /\ PoolInv`. That a pinned page stays
put is not inductive by itself: the victim is a frame with `ref` 0, so `ref` must
be the number of pins (`FramesAgree`); `release` and a hit change the count of the
frame the search finds, so no page may be in two frames (`NoDuplicates`); a frame
whose `cnt` is -1 is not written back, so -1 must mean an empty frame
(`FramesAgree` again), which needs `CountStaysLow`: a miss restarts the counts of
used frames at 0 or 1, and between two misses the bound keeps them below the mark; and a page evicted and read again must be in the file,
although the file may be shorter than `length` (`NothingMissing`): it is, because
only pages that are cached are missing. `FrameAvailable` is the counting argument
that some frame is free; `VictimUnpinned` shows that the search, which starts from
frame 0 and compares the counts, with -1 as the largest, ends at a free frame if there is one. The
refinement maps a page to its frame's contents if it is cached and to the disk
otherwise; on a miss one page moves each way and `GetMissRefines` shows that no page changes.

`ServiceProofs` proves `MutualExclusion`: at most one thread is in the open store, for
every number of clients, requests, signals, vanishing clients, failed thread creations
and failed starts. It assumes only that clients are not called "main", "free" or
"destroyed". That a thread inside has the lock (`LockHeld`) is not inductive: a destroyed mutex stops nobody, so the
invariant adds that the handler gets past `myjql_close`, and so to destroying the
mutex, only with the store closed or the process dead (`ClosedBehind`), and that the
store is opened once (`OpenedOnce`). Steps that bring nobody in are handled by one
lemma (`QuietInv`); what is left are entering, leaving and the handler. `LockHeld` speaks
of the store until it is closed: after that the workers are unprotected, which is
finding 2.

`FramesStayCold` of `BufferPoolProofs` says that a pool fills no more frames than its
callers hold pages at once. It is inductive on top of `PoolInv`: a miss fills a new
frame only if the victim is one, a frame never used has the largest count there is, and
so every used frame is pinned; then they are at most the pages held before, one less
than may be held after. Like the others it is about counts that stay below the mark.

`TableProofs` proves all six properties of the run `table` for every page, header and
item size, every set of items and every number of blocks: `TypeCorrect`,
`BlocksWellFormed`, `NothingWasted`, `MapExact`, `SpaceIsReused` and `Refinement`. The
assumptions are

* `BlockAssumption`: an item has at least one byte, and fits a page together with the
  header and an ItemID, as `include/table.h:25` asks of callers;
* `FsmAssumption`: the map, whatever it is, keeps the promises of `include/hash_map.h`
  for the calls that keep its rules. `MCTable` instantiates it with a set of pairs, and
  TLC evaluates it there. `hash_map.c` itself keeps them only until the first call that
  releases a page twice (finding 1): the theorems say that the tables would be right on
  a map without that fault.

The invariant is `TableInv`: `TypeOK`, every block is good (`GoodBlock`), and
`FsmExact`. A block is good if its sections are apart, its items disjoint, its bytes
packed, and every ItemID in use leads to the bytes of an item. None of these is
inductive alone: `delete_item` slides what lies below the item, which keeps items
apart only because they fill the space between the free section and the end of the
page without a gap, and a gapless block stays so only because the slide moves each item
below by exactly the size of the one deleted. `BlockProofs` shows this for one block
(that `new_item` and `delete_item` keep a good block good, what they do to the free
space, and that every other item reads as before); `TableProofs` adds the map.
`FsmExact` has to be in the invariant because `table_delete` computes the size under which it pops again: if the map
listed another, the second rule of `hash_map.h` would be broken and nothing could be
said of the map after that. `SpaceIsReused` follows from `FsmExact` and the promise of
`pop_lower_bound`. For `Refinement` rows are what `table_read` makes of the bytes;
insertion gives a RID that was not in use, deletion frees one, and both read the same
everywhere else.

`SessionProofs` proves `TypeCorrect` and `KeepsStep` (`InStep`) for every number of clients,
calls, signals, vanishing clients and refusals of the system. `ServiceAssumption` asks
for no more than that the values that stand for "no answer yet", "ok" and "missing" are
not values of the store, that clients are not called "main" and the like, and
that users type keys and values of at least one byte. `InStep` by
itself says nothing of the answers, and a worker that was ahead or behind on the way
back would be out of step on the way forth one request later. The invariant
`SessionInv` therefore describes each connection as a whole: while the process lives and
the client has not gone, client, worker, wire and the effect of the call are in one of
the positions that `Session` lists, from the first word of a request (`Asking`) to the
last of its answer (`Answering`, `AnsweringLength`, `AnsweringValue`). Behind a client
that has gone nothing of this is left: the worker may read half a request, then repeat
its last code. What does remain is `Stream`: keys stand on the wire where the worker
reads keys, values where it reads values. This is what keeps the store a map even then. All
predicates on a connection are of constant level, so that the lemmas on a step
(`CodeRead`, `AckStep`, ...) know of one connection only, and `OthersKeep` carries the
rest.

`KeyValueProofs` proves `OneMap`: `ImplementsKeyValue` for every number of clients,
calls, keys and values, if `MaxSignals`, `MaxQuits` and `MaxRefused` are 0, as in the run
`service`. None of the three can be left out. With any one of them a call may
end in an error, or the store change by itself, which `KeyValue` has no step for; findings 2 to
4 are the cases that matter. `CalmInv` adds to `SessionInv` that
nothing has gone wrong (`Quiet`) and that workers end with their clients (`Together`). A call
takes effect when its worker is inside the store or refuses it; that its client returns
what was found there, and not before, is read off `Session`.

`StoreProofs` proves of the store, for every set of keys and values, every chunk size,
any number of calls in any order and every index that keeps its side:

* `StoreTypeOK`, `StoreNothingLeaked`, `StoreChunksPacked`, `StoreComparisonsExact`,
  `StorePinsBalanced`: the invariants of the run `store`;
* `StoreImplementsDictionary`: the store implements `Dictionary`;
* `StoreReadsBack`: a value that was set is what a get finds;
* `InsertHandlerCopies`, `DeleteHandlerUndoes`: what the handlers do to the heap, for
  any key: a copy of its own, and the heap as it was before.

The hypotheses are

* `StrAssumption`: a chunk holds at least one character, and `MAX_STR_LEN` is so small
  that a `short` counts the chunks of a string (1024 in the server, which refuses
  anything longer);
* `StringsFit`: keys and values have from 1 to `MAX_STR_LEN` characters. Without "from
  1" the theorems are false: finding 5;
* `IndexKeeps`, stated in `MyjqlClient`: as long as the comparisons order the records of
  the index as strings, and no two rows have the same key (`Comparable`), a search finds
  the row with the key, an insertion or deletion changes that row only, and of the heap
  only the index's own copies of keys: records with no value whose chunks are nobody
  else's (`CopiesTidy`, `NotCopied`); closing and opening change nothing; and a call on
  an index with no page pinned leaves none pinned. Nothing is promised for the insertion
  of a row that is there already or the deletion of one that is not: `b_tree_delete` on
  an empty tree leaves a page pinned. The promise is asked of the calls the store really
  makes, in the heap it makes them in, and only if the store has kept its part. The run
  `store` checks it of `BTree`. That `Comparable` holds at each of these calls, and that
  the row is or is not there, is proved, not assumed.

The argument has three layers. *Strings*: `Spells(table, rid, data)` says that the chain
at a RID is cut as `write_string` cuts it. Such a string is read (`LoadsString`) and
compared (`CompareStrings`, `CompareKey`) character by character; `write_string` and
`insert_handler` make one in chunks that were free (`WritesString`, `CutsKey`), and
`delete_string` removes its chunks and no other (`DeletesString`). These are statements
about loops, proved without an induction rule: a recursive function on the numbers
exists (`Recursion`) and two that start and go on alike are equal (`SameFromZero`), both
from the least number at which something would be wrong (`LeastNat`). *Heap*: `Sound(h,
R, C)` says that the records are the rows `R`, with a key and a value, and the copies
`C`, with a key and no value; that no chunk belongs to two of them, each belongs to one,
and no two rows have the same key. This is the inductive invariant, and it has to be all
of that: that a set frees only what is its own needs disjoint chunks, that an insertion
in the index may be trusted needs different keys, that a read after a deletion finds
what it found before needs the cut. *Calls*: each of the parts of `myjql_set` and
`myjql_del` keeps the heap sound and changes `Pairs`, what the rows say, as `Dictionary`
changes its map; `GetShows` ties that to what a get finds.

The hard case is a set of a key that is there (`SetsOld`). While the index deletes, the
record still points to the value that has been freed, whose RIDs may already be chunks
of the new value or of a copy: the heap is not sound, and the comparisons run on it.
`StaleComparable` shows that they do not notice, since they read keys only, and the
proof compares the real heap with one that never exists, `Renewed`, in which the record
has its new value already. What the index does to one it does to the other
(`SwappedBut`), and when the record has been written anew they are the same.

Only model-checked:

* liveness (`CallsReturn`, `Stops`): the prover does not reason about fairness;
* `HashMap` and `BTree`, whose walks along chains and down the tree are recursive
  operators: what they compute for every input needs induction over data, which is out
  of the prover's reach for such operators. So `IndexKeeps` is a fact about the trees of
  the run `store`, and `FsmAssumption` about the map of `MCTable`.

## Findings

1. `src/hash_map.c:242`, `:264`: a `pop_lower_bound` that finds nothing may release the page
   after the directory twice. Its reference count wraps, a later caller's pin
   brings it to 0, and the pool gives the frame away while it is in use. Entries
   of the map are lost: a table has blocks the map does not know, and
   `table_delete` then pops an address that does not exist (`table_on_hash_map`).
   `HashMapClient` leaves these calls out, so that `free_space_map` shows that this is
   the only thing wrong with the map.
2. `main/myjqlserver.c:414`: "safely" stopping with Ctrl-C lets a waiting worker change
   and acknowledge on the closed store (`service_late_write`).
3. `driver/myjqlclient.cpp:235`: a closed connection is not told from an answer. When the
   process ends after the worker has read the whole request and before it has answered,
   `recv` returns 0, and with a value (or, for del, a key) of one byte the call returns
   normally (`service_stale_ack`).
4. `main/myjqlserver.c:124`: a client that leaves without code 3, as the shell does at
   the end of its input, makes the worker take what is in its variable `code` for a
   request (`service_silent_client`): the code of the last answer, which after a set or del
   is 1, a set of bytes nobody sent; or, if the client leaves before its first request,
   the value of a variable never initialised (line 109), which may be a 1. TLC's trace is
   of the second kind, the shorter one.
5. `src/str.c:54`: of a value of length 0 `write_string` makes a full chunk, filled
   from memory in front of the buffer, and a get returns these characters
   (`store_empty`). The shell never sends an empty value; the driver may.

One more thing the runs bring out without a run of its own: a second Ctrl-C, while
the first handler waits for the mutex, may run the handler on the worker that holds
it (`main/myjqlserver.c:407`). Both then wait for ever. `Stops` and `CallsReturn`
name this case (`WaitsForItself`), and `service_stop` shows that it is the only one.

## Not modelled

* Crashes between writes of pages. Nothing in the code recovers from one, and the
  slides that come with it (`MyJQL.pptx`, on `close_buffer_pool`) exclude abnormal
  termination; `Service` says when the process dies, and no more.
* `recv` and `send` that transfer part of what was asked. Strings up to
  `MAX_STR_LEN` fit one segment; longer ones, which the server means to refuse, may
  arrive in parts and put the stream out of step.
* Failing `fopen`, `fseek` and `fwrite`, whose results the code does not use.
* The store on its real tables and pools all at once: each layer is run on what the
  layer below is shown to promise, except `HashMap`, which runs on the real pool,
  and `table_on_hash_map`, which puts a table on that.
* The Windows branches of server and client, parsing of the shell's lines, all
  printing, and the unit tests of the repository.

## Plan

Done: pool and its proofs, free space map, block, table, index with its pins, strings,
store, service with its start, its end and its mutual exclusion. Order: what everything
rests on first, then layer by layer, and the concurrent server beside it.

Proved since: the invariants of `Block` and `Table` with the refinement of `RowTable`,
`ColdFramesStayCold`; of `Service` types, keeping step and the refinement of
`KeyValue` for well-behaved clients; of the store all of its properties,
over an index that keeps its side, as `TableOnMap` does for a table over its map.

Left: the hash blocks of the free space map and the B-tree itself. For both the walks
would have to be written as recursive functions first, as those of `Str` are.
