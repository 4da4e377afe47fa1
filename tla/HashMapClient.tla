---------------------------- MODULE HashMapClient ----------------------------
(***************************************************************************)
(* The free space map driven by any caller that keeps the two rules of     *)
(* hash_map.h: no duplicate address is inserted, and an address that is    *)
(* popped exists; and that does not ask for a block where asking makes the *)
(* map release a page twice.  The map may be closed and opened again.      *)
(***************************************************************************)
EXTENDS HashMap

CONSTANTS
  Pairs,  \* the pairs <<free size, block>> the caller may insert
  Asks    \* the sizes the caller may ask for

ASSUME ClientAssumption ==
  /\ Pairs \subseteq AllSizes \X Nat
  /\ Asks \subseteq AllSizes

Blocks == {p[2] : p \in Pairs}

VARIABLES
  pool,   \* the map: its buffer pool and file
  given,  \* the pairs the caller has inserted and not got back
  asked,  \* the size the last call asked for, Void if it asked for none
  ret     \* what the last call returned, Void if it returns nothing

vars == <<pool, given, asked, ret>>

Void == -2

(* Bound: the use counts stay clear of SIZE_MAX for one more call, which takes
   a directory page once for each entry and twice more in hash_table_pop. *)
MaxUse == HASH_MAP_DIR_BLOCK_SIZE + 2
CountsLow ==
  \A k \in Slots : pool.cnt[k] = SIZE_MAX \/ pool.cnt[k] + MaxUse < SIZE_MAX

Ready == pool.open /\ ~pool.ub /\ CountsLow

Init ==
  /\ pool = NewFile
  /\ given = {}
  /\ asked = Void /\ ret = Void

Open ==
  /\ ~pool.open
  /\ pool' = hash_table_init(pool)
  /\ asked' = Void /\ ret' = Void
  /\ UNCHANGED given

Close ==
  /\ Ready
  /\ pool' = hash_table_close(pool)
  /\ asked' = Void /\ ret' = Void
  /\ UNCHANGED given

(* Bound: the file keeps room for the page an insertion may add. *)
Insert(s, b) ==
  /\ Ready
  /\ \A t \in AllSizes : <<t, b>> \notin given
  /\ Contents(pool)[CtrlAddr][max_size] < NPages
  /\ pool' = hash_table_insert(pool, s, b)
  /\ given' = given \cup {<<s, b>>}
  /\ asked' = Void /\ ret' = Void

Pop(s, b) ==
  /\ Ready
  /\ <<s, b>> \in given
  /\ pool' = hash_table_pop(pool, s, b)
  /\ given' = given \ {<<s, b>>}
  /\ asked' = Void /\ ret' = Void

(* With nothing suitable in the map the code looks at the page after the
   directory, and releases it twice if its first word is -1.  The caller of
   this module does not ask in that case.  table_insert does: MCTableHashMap
   shows where that leads. *)
ReleasesTwice(s) ==
  /\ \A p \in given : p[1] < s
  /\ Contents(pool)[n_directory_blocks + 1][next] = -1

PopLowerBound(s) ==
  /\ Ready
  /\ ~ReleasesTwice(s)
  /\ n_directory_blocks + 1 < NPages
  /\ asked' = s
  /\ LET result == hash_table_pop_lower_bound(pool, s)
     IN  /\ pool' = result.pool
         /\ ret' = result.ret
         /\ given' = {p \in given : p[2] # result.ret}

Next ==
  \/ Open
  \/ Close
  \/ \E s \in Asks : PopLowerBound(s)
  \/ \E p \in Pairs : Insert(p[1], p[2]) \/ Pop(p[1], p[2])

Spec == Init /\ [][Next]_vars

-----------------------------------------------------------------------------
(* The pool and the ghost variables have their types. *)
TypeOK ==
  /\ pool \in Pool
  /\ given \subseteq Pairs
  /\ asked \in Asks \cup {Void}
  /\ ret \in Blocks \cup {-1, Void}

(* No call of the map needs more frames than the pool has, or reads a page
   that is not there. *)
NoUndefinedBehaviour == ~pool.ub

(* The pages hold exactly what the caller inserted and has not got back. *)
KeepsWhatItWasGiven == Represented(pool) = given

(* Every page between the directory and max_size is on one chain or on the
   free list and on no two of them; chained blocks hold items, free ones none.
   The file may be a page longer: the look past the directory adds one. *)
PagesAccountedFor ==
  Exists(pool) =>
    LET mem == Contents(pool)
        end == mem[CtrlAddr][max_size]
        owners(a) == {s \in AllSizes : a \in ChainOf(mem, s)}
    IN  /\ end <= IF pool.open THEN pool.length ELSE pool.phys
        /\ \A a \in n_directory_blocks + 1 .. end - 1 :
             \/ /\ Cardinality(owners(a)) = 1
                /\ a \notin FreeList(mem)
                /\ mem[a][n_items] \in 1 .. HASH_MAP_BLOCK_SIZE
             \/ /\ owners(a) = {}
                /\ a \in FreeList(mem)
                /\ mem[a][n_items] = 0

(* Between calls the map holds no page of its pool. *)
PinsBalanced == \A k \in Slots : pool.ref[k] = 0

(* The map implements the free space map of hash_map.h: in particular the
   block returned is of the smallest sufficient size, and -1 means none. *)
Map == INSTANCE FreeSpaceMap WITH
         content <- Represented(pool),
         Sizes   <- AllSizes

ImplementsFreeSpaceMap == Map!Spec
=============================================================================
