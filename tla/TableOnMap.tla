------------------------------ MODULE TableOnMap ------------------------------
(***************************************************************************)
(* The table on a free space map that keeps what include/hash_map.h        *)
(* promises.  TableProofs reasons from these assumptions; hash_map.c does  *)
(* not always meet them (MCTableHashMap).                                  *)
(***************************************************************************)
EXTENDS Table

CONSTANT Fsm   \* the states of the map

(* "There should not be no duplicate addr": what a caller of hash_table_insert
   must see to. *)
NewToMap(m, addr) == \A p \in FsmContent(m) : p[2] # addr

Inserts(m) ==
  \A size \in 0 .. PAGE_SIZE, addr \in BlockAddr :
    NewToMap(m, addr) =>
      /\ FsmInsert(m, size, addr) \in Fsm
      /\ FsmContent(FsmInsert(m, size, addr)) = FsmContent(m) \cup {<<size, addr>>}

(* "addr to be poped must exist". *)
Pops(m) ==
  \A size \in 0 .. PAGE_SIZE, addr \in BlockAddr :
    <<size, addr>> \in FsmContent(m) =>
      /\ FsmPop(m, size, addr) \in Fsm
      /\ FsmContent(FsmPop(m, size, addr)) = FsmContent(m) \ {<<size, addr>>}

(* "If there is no suitable block, return -1": else a block with at least
   `size` bytes leaves the map. *)
PoppedLowerBound(m, size, r) ==
  /\ r.fsm \in Fsm
  /\ \/ /\ r.ret = -1
        /\ \A p \in FsmContent(m) : p[1] < size
        /\ FsmContent(r.fsm) = FsmContent(m)
     \/ \E p \in FsmContent(m) :
          /\ p[1] >= size /\ p[2] = r.ret
          /\ FsmContent(r.fsm) = FsmContent(m) \ {p}

PopsLowerBound(m) ==
  \A x \in Item : \A r \in FsmPopLowerBound(m, SizeOf(x) + ITEM_ID) :
    PoppedLowerBound(m, SizeOf(x) + ITEM_ID, r)

(* "If hash table has already existed, it will be re-opened". *)
Reopens(m) == FsmReopen(m) \in Fsm /\ FsmContent(FsmReopen(m)) = FsmContent(m)

ASSUME FsmAssumption ==
  /\ FsmInit \in Fsm /\ FsmContent(FsmInit) = {}
  /\ \A m \in Fsm : Inserts(m) /\ Pops(m) /\ PopsLowerBound(m) /\ Reopens(m)
=============================================================================
