------------------------------- MODULE MCMyjql -------------------------------
EXTENDS MyjqlClient, SequencesExt

CONSTANTS DEGREE, NPages, CACHE_PAGE   \* those of the index

(* The index is the B-tree, with the functions of myjql.c that are handed to
   it.  The heap is an argument and a result of its calls. *)
T == INSTANCE BTree WITH RowRowCmp <- row_row_cmp, PtrRowCmp <- ptr_row_cmp,
                         InsertHandler <- insert_handler, DeleteHandler <- delete_handler

Tree(i, h) == [i EXCEPT !.heap = h]
Parts(t) == [index |-> Tree(t, <<>>), heap |-> t.heap]
RowsOf(i, pages) == FoldSet(LAMBDA a, rows : rows \o i.node[a].row, <<>>, pages)

MCIndexEmpty == T!EmptyTree(<<>>)
MCIndexReopen(i) == T!b_tree_reopen(i)
MCIndexSearch(i, h, key) == T!b_tree_search(Tree(i, h), key)
MCIndexInsert(i, h, rid) == Parts(T!b_tree_insert(Tree(i, h), rid))
MCIndexDelete(i, h, rid) == Parts(T!b_tree_delete(Tree(i, h), rid))
MCIndexRows(i) == RowsOf(i, T!LeafPages(i))
MCIndexCopies(i) == RowsOf(i, T!InnerPages(i))
MCIndexUnpinned(i) == T!Unpinned(i)

(* Fourteen keys in ascending order: one to five characters, prefixes of each
   other, ending within and at the end of a chunk of two. *)
MCKeys ==
  << <<-1>>, <<-1, 1, 1>>, <<-1, 2>>, <<1>>, <<1, -1>>, <<1, 1>>, <<1, 1, 1>>,
     <<1, 1, 1, 1>>, <<1, 1, 2, 1>>, <<1, 2>>, <<2>>, <<2, 1, 1, 1>>,
     <<2, 1, 1, 1, 1>>, <<2, 2>> >>
MCKey == ToSet(MCKeys)
MCValue == {<<7>>, <<8, 8, 8>>}
MCInFront == <<9, 9>>

(* Every (14 \div n)-th key. *)
Some(n) == [i \in 1 .. n |-> MCKeys[i * (14 \div n)]]
Pairs(keys) ==
  [i \in DOMAIN keys |-> <<keys[i], IF i % 2 = 0 THEN <<7>> ELSE <<8, 8, 8>> >>]
Filled(n, keys, calls) ==
  {[fill |-> f, keys |-> keys, calls |-> calls] :
     f \in {Pairs(Some(n)), Reverse(Pairs(Some(n)))}}

(* From nothing; from two leaves, with a key that is not there; from three
   leaves; from three levels. *)
MCScenario ==
  [fill : {<<>>}, keys : {ToSet(Some(4))}, calls : {4}]
    \cup Filled(5, ToSet(Some(4)) \cup {<<1>>}, 3)
    \cup Filled(7, ToSet(Some(4)) \cup {<<1>>}, 3)
    \cup Filled(14, ToSet(Some(4)), 2)

(* One value is the empty string. *)
MCValueEmpty == {<<>>, <<7>>}
MCScenarioEmpty == [fill : {<<>>}, keys : {ToSet(Some(2))}, calls : {3}]
=============================================================================
