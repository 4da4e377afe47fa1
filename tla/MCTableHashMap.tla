--------------------------- MODULE MCTableHashMap ---------------------------
(* The table on the free space map of hash_map.c. *)
EXTENDS Table, HashMap
CONSTANTS x1, x2
MCSizeOf(x) == IF x = x1 THEN 1 ELSE 3

MCEmptyPage == [i \in 0 .. PAGE_WORDS - 1 |-> 0]
MCPage == [0 .. PAGE_WORDS - 1 -> -1 .. NPages]
MCFsmInit == hash_table_init(NewFile)
MCFsmReopen(p) == hash_table_init(hash_table_close(p))
MCFsmInsert(p, size, addr) == hash_table_insert(p, size, addr)
MCFsmPop(p, size, addr) == hash_table_pop(p, size, addr)
MCFsmPopLowerBound(p, size) ==
  LET r == hash_table_pop_lower_bound(p, size) IN {[fsm |-> r.pool, ret |-> r.ret]}
MCFsmContent(p) == Represented(p)

(* Room for one more hash block, use counts far from SIZE_MAX. *)
MCFsmReady(p) ==
  /\ ~p.ub
  /\ Contents(p)[CtrlAddr][max_size] < NPages
  /\ \A k \in Slots : p.cnt[k] = SIZE_MAX \/ p.cnt[k] + 12 < SIZE_MAX
=============================================================================
