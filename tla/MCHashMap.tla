------------------------------ MODULE MCHashMap ------------------------------
EXTENDS HashMapClient
(* Four blocks of one size, one of which may also have another. *)
MCPairs == {<<2, 0>>, <<5, 0>>, <<5, 1>>, <<5, 2>>, <<5, 3>>}
MCEmptyPage == [i \in 0 .. PAGE_WORDS - 1 |-> 0]
MCPage == [0 .. PAGE_WORDS - 1 -> -1 .. 9]
=============================================================================
