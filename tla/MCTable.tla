------------------------------- MODULE MCTable -------------------------------
(* The table on the free space map of hash_map.h: a set of pairs. *)
EXTENDS TableOnMap
CONSTANTS x1, x2
MCSizeOf(x) == IF x = x1 THEN 1 ELSE 2

(* Some of the blocks, each under one size. *)
MCFsm ==
  UNION {{{<<sizes[a], a>> : a \in listed} : sizes \in [listed -> 0 .. PAGE_SIZE]} :
           listed \in SUBSET BlockAddr}
MCFsmInit == {}
MCFsmReopen(m) == m
MCFsmInsert(m, size, addr) == m \cup {<<size, addr>>}
MCFsmPop(m, size, addr) == m \ {<<size, addr>>}
MCFsmPopLowerBound(m, size) ==
  LET fit == {p \in m : p[1] >= size}
  IN  IF fit = {} THEN {[fsm |-> m, ret |-> -1]}
      ELSE {[fsm |-> m \ {p}, ret |-> p[2]] :
              p \in {q \in fit : \A r \in fit : q[1] <= r[1]}}
MCFsmContent(m) == m
MCFsmReady(m) == TRUE
=============================================================================
