-------------------------------- MODULE Myjql --------------------------------
(***************************************************************************)
(* The store (src/myjql.c) as operators on the record of                   *)
(*   index   what the index keeps in its file                              *)
(*   heap    the two tables: rec with the records, the RID of a key and    *)
(*           that of a value, and str with the chunks of keys and values   *)
(* A leaf of the index points to records, an inner node to records of its  *)
(* own, which insert_handler makes: a copy of the key and no value.        *)
(* A read of a RID that is not in use has no value.                        *)
(*                                                                         *)
(* The index appears as the calls of b_tree.h.  It reads and changes the   *)
(* heap, by the comparisons and handlers of this module that are handed to *)
(* it; a call that changes something returns [index, heap].                *)
(***************************************************************************)
EXTENDS Str

CONSTANTS
  NoValue,                 \* what a get returns for a key that is not there
  IndexEmpty,              \* b_tree_init on a new file
  IndexReopen(_),          \* b_tree_close, and b_tree_init on the file it left
  IndexSearch(_, _, _),    \* b_tree_search for a key in an index and a heap
  IndexInsert(_, _, _),    \* b_tree_insert of a record
  IndexDelete(_, _, _),    \* b_tree_delete of a record
  IndexRows(_),            \* the records the leaves point to
  IndexCopies(_),          \* the records the inner nodes point to
  IndexUnpinned(_)         \* no page of the index is pinned

ASSUME IndexAssumption ==
  /\ IndexRows(IndexEmpty) = <<>> /\ IndexCopies(IndexEmpty) = <<>>
  /\ IndexUnpinned(IndexEmpty)

(* The string a record's key or value is read from. *)
KeyString(h, rid) == read_string(h.str, h.rec[rid].key)
ValueString(h, rid) == read_string(h.str, h.rec[rid].value)

(* The loop of compare_string_record, written out once more. *)
row_row_cmp(h, rid1, rid2) ==
  compare_string_record(h.str, KeyString(h, rid1), KeyString(h, rid2))

(* The loop of ptr_row_cmp: characters of key against those of a row. *)
PtrCompareRest(table, key, record) ==
  LET y == After(table, record)
      Both(i) == has_next_char(y[i]) /\ i # Len(key)
      Y(i) == next_char(table, y[i]).char
      n == First(LAMBDA i : Both(i) => key[i + 1] # Y(i))
  IN  IF Both(n) THEN Sign(key[n + 1], Y(n))
      ELSE IF has_next_char(y[n]) THEN -1
      ELSE IF n # Len(key) THEN 1
      ELSE 0

ptr_row_cmp(h, key, rid) ==
  IF KeyString(h, rid).chunk.data = <<>> THEN 1
  ELSE PtrCompareRest(h.str, key, KeyString(h, rid))

(* The pieces of the key of a record, as they are cut. *)
KeyPieces(h, rid) ==
  LET c == Chain(h.str, h.rec[rid].key) IN [i \in DOMAIN c |-> h.str[c[i]].data]

(* Mutant: the value of the copy is not set. *)
insert_handler_garbage(h, rid) ==
  LET key == WriteChunks(h.str, KeyPieces(h, rid))
      r   == table_insert(h.rec, [key |-> key.rid, value |-> 0])
  IN  [heap |-> [rec |-> r.table, str |-> key.table], rid |-> r.rid]

(* A record of a copy of the key. *)
insert_handler(h, rid) ==
  LET key == WriteChunks(h.str, KeyPieces(h, rid))
      r   == table_insert(h.rec, [key |-> key.rid, value |-> NoRid])
  IN  [heap |-> [rec |-> r.table, str |-> key.table], rid |-> r.rid]

delete_handler(h, rid) ==
  [rec |-> table_delete(h.rec, rid),
   str |-> delete_string(delete_string(h.str, h.rec[rid].key), h.rec[rid].value)]

(* myjql_init on new files. *)
myjql_init == [index |-> IndexEmpty, heap |-> [rec |-> <<>>, str |-> <<>>]]

(* myjql_close, and myjql_init on the files it left; what the tables hold is
   in their files. *)
myjql_reopen(s) == [s EXCEPT !.index = IndexReopen(@)]

-----------------------------------------------------------------------------
(* The value found, up to max_size characters; NoValue when there is none. *)
myjql_get(s, key, max_size) ==
  LET rid == IndexSearch(s.index, s.heap, key)
  IN  IF rid = NoRid THEN NoValue
      ELSE load_string(s.heap.str, ValueString(s.heap, rid), max_size)

(* Key, value and record of a key that is not there are written. *)
NewRecord(h, key, value) ==
  LET k == write_string(h.str, key)
      v == write_string(k.table, value)
      r == table_insert(h.rec, [key |-> k.rid, value |-> v.rid])
  IN  [heap |-> [rec |-> r.table, str |-> v.table], rid |-> r.rid]

SetNew(s, key, value) ==
  LET new == NewRecord(s.heap, key, value) IN IndexInsert(s.index, new.heap, new.rid)

(* Mutant: the value that was there stays. *)
ReplaceValueLeaks(h, rid, value) ==
  LET v == write_string(h.str, value)
  IN  [heap |-> [rec |-> h.rec, str |-> v.table], value |-> v.rid]

(* The record of the key is at rid.  Its value is replaced: the record still
   has the RID of the string that is deleted. *)
ReplaceValue(h, rid, value) ==
  LET v == write_string(delete_string(h.str, h.rec[rid].value), value)
  IN  [heap |-> [rec |-> h.rec, str |-> v.table], value |-> v.rid]

(* The record is written anew, under another RID perhaps. *)
ReplaceRecord(h, rid, record) ==
  LET r == table_insert(table_delete(h.rec, rid), record)
  IN  [heap |-> [rec |-> r.table, str |-> h.str], rid |-> r.rid]

(* The record leaves the index before it is written anew, with the key it had,
   and is indexed again. *)
SetOld(s, rid, value) ==
  LET v   == ReplaceValue(s.heap, rid, value)
      out == IndexDelete(s.index, v.heap, rid)
      new == ReplaceRecord(out.heap, rid, [s.heap.rec[rid] EXCEPT !.value = v.value])
  IN  IndexInsert(out.index, new.heap, new.rid)

myjql_set(s, key, value) ==
  LET rid == IndexSearch(s.index, s.heap, key)
  IN  IF rid = NoRid THEN SetNew(s, key, value) ELSE SetOld(s, rid, value)

(* Mutant: an empty index is deleted from. *)
myjql_del_empty(s, key) ==
  LET rid == IndexSearch(s.index, s.heap, key)
      out == IndexDelete(s.index, s.heap, rid)
  IN  IF rid # NoRid THEN [out EXCEPT !.heap = delete_handler(@, rid)]
      ELSE IF IndexRows(s.index) = <<>> THEN out ELSE s

(* Index first, for its comparisons read the key; then key, value and record. *)
myjql_del(s, key) ==
  LET rid == IndexSearch(s.index, s.heap, key)
      out == IndexDelete(s.index, s.heap, rid)
  IN  IF rid = NoRid THEN s ELSE [out EXCEPT !.heap = delete_handler(@, rid)]
=============================================================================
