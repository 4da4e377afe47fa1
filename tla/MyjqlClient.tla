----------------------------- MODULE MyjqlClient -----------------------------
(***************************************************************************)
(* Calls of the store, one at a time, as the server makes them under its   *)
(* mutex.  A scenario fills the store with given pairs and then makes a    *)
(* few calls, any calls, with some of the keys.                            *)
(***************************************************************************)
EXTENDS Myjql

CONSTANTS
  Key, Value,   \* the strings that are used
  Scenario      \* bound: the scenarios [fill, keys, calls]

VARIABLES
  store,    \* index, records and strings
  view,     \* what a get of each key finds
  last,     \* the last call and what it returned
  plan      \* what is left of the scenario

vars == <<store, view, last, plan>>

View(s) == [k \in Key |-> myjql_get(s, k, MAX_STR_LEN)]

Init ==
  /\ store = myjql_init
  /\ view = View(myjql_init)
  /\ last = [op |-> "open"]
  /\ plan \in Scenario

(* The plan leaves k free for the next call. *)
AnyCall(k) ==
  /\ plan.fill = <<>> /\ k \in plan.keys /\ plan.calls > 0
  /\ plan' = [plan EXCEPT !.calls = @ - 1]

(* The plan says what to set next. *)
FillCall(k, v) ==
  /\ plan.fill # <<>> /\ <<k, v>> = Head(plan.fill)
  /\ plan' = [plan EXCEPT !.fill = Tail(@)]

Get(k) ==
  /\ AnyCall(k)
  /\ last' = [op |-> "get", key |-> k, ret |-> myjql_get(store, k, MAX_STR_LEN)]
  /\ UNCHANGED <<store, view>>

Set(k, v) ==
  /\ AnyCall(k) \/ FillCall(k, v)
  /\ LET s == myjql_set(store, k, v) IN store' = s /\ view' = View(s)
  /\ last' = [op |-> "set", key |-> k, value |-> v]

Del(k) ==
  /\ AnyCall(k)
  /\ LET s == myjql_del(store, k) IN store' = s /\ view' = View(s)
  /\ last' = [op |-> "del", key |-> k]

Reopen ==
  /\ plan.fill = <<>>
  /\ LET s == myjql_reopen(store) IN store' = s /\ view' = View(s)
  /\ last' = [op |-> "open"]
  /\ UNCHANGED plan

Next ==
  \/ \E k \in Key : Get(k) \/ (\E v \in Value : Set(k, v)) \/ Del(k)
  \/ Reopen

Spec == Init /\ [][Next]_vars

-----------------------------------------------------------------------------
(* Records and chunks have their types, and every RID in them is in use. *)
TypeOK ==
  LET rids == DOMAIN store.heap.str
  IN  /\ \A r \in DOMAIN store.heap.rec :
           store.heap.rec[r] \in [key : rids, value : rids \cup {NoRid}]
      /\ \A c \in rids : store.heap.str[c].rid \in rids \cup {NoRid}

D == INSTANCE Dictionary WITH kv <- view

(* The store is the map of myjql.h: a set or del changes what a get finds for
   its own key and for no other, whatever records, chunks and separators were
   moved, copied or deleted for it. *)
ImplementsDictionary == D!Spec

(* A value that was set is what a get finds. *)
ReadsBack ==
  last.op = "set" => view[last.key] = last.value

KeyChain(h, r) == Chain(h.str, h.rec[r].key)
ValueChain(h, r) == Chain(h.str, h.rec[r].value)
Chunks(h, r) == Range(KeyChain(h, r)) \cup Range(ValueChain(h, r))

(* Nothing is shared and nothing is left behind: every record belongs to one
   entry of the index, every chunk to one key or value of one record. *)
NothingLeaked ==
  LET h    == store.heap
      rows == IndexRows(store.index) \o IndexCopies(store.index)
  IN  /\ IsInjective(rows) /\ Range(rows) = DOMAIN h.rec
      /\ \A r \in DOMAIN h.rec : IsInjective(KeyChain(h, r) \o ValueChain(h, r))
      /\ \A r, s \in DOMAIN h.rec : r # s => Chunks(h, r) \cap Chunks(h, s) = {}
      /\ UNION {Chunks(h, r) : r \in DOMAIN h.rec} = DOMAIN h.str

(* A chunk that has a next one is full and none is empty: write_string and
   insert_handler store such chunks as sizeof(StringChunk) bytes, and
   has_next_char relies on it. *)
ChunksPacked ==
  \A rid \in DOMAIN store.heap.str :
    LET c == store.heap.str[rid]
    IN  /\ Len(c.data) \in 1 .. STR_CHUNK_MAX_LEN
        /\ c.rid # NoRid => Len(c.data) = STR_CHUNK_MAX_LEN

(* The key of a record. *)
Text(h, r) == load_string(h.str, KeyString(h, r), MAX_STR_LEN)

(* c is the comparison of the strings a and b. *)
Compares(c, a, b) == c = IF a = b THEN 0 ELSE IF StringLess(a, b) THEN -1 ELSE 1

(* The keys of some records are compared as strings of characters. *)
Ordered(h, rows) ==
  \A r \in rows :
    /\ \A s \in rows : Compares(row_row_cmp(h, r, s), Text(h, r), Text(h, s))
    /\ \A k \in Key : Compares(ptr_row_cmp(h, k, r), k, Text(h, r))

(* Both comparisons order the keys as strings of characters, however they are
   cut into chunks. *)
ComparisonsExact == Ordered(store.heap, DOMAIN store.heap.rec)

(* Between calls no page of the index is pinned, so that a store can be used,
   closed and opened for ever: no call deletes from an empty index. *)
PinsBalanced == IndexUnpinned(store.index)

-----------------------------------------------------------------------------
(* What the store relies on the index for.  Rows are those of the leaves,
   copies those of the inner nodes. *)
Rows(i) == Range(IndexRows(i))
Copies(i) == Range(IndexCopies(i))

(* The comparisons that are handed to the index are fit for it, and no two
   rows have the same key. *)
Comparable(h, rows, copies) ==
  /\ Ordered(h, rows \cup copies)
  /\ \A r, s \in rows : Text(h, r) = Text(h, s) => r = s

(* Copies are records of their own with no value, their keys strings of their own. *)
CopiesTidy(h, copies) ==
  \A r \in copies :
    /\ r \in DOMAIN h.rec /\ h.rec[r] = [key |-> h.rec[r].key, value |-> NoRid]
    /\ \E k \in Key : Spells(h.str, h.rec[r].key, k)
    /\ \A s \in copies : r # s => Range(KeyChain(h, r)) \cap Range(KeyChain(h, s)) = {}

(* The records that are not copies, and the chunks that are not theirs. *)
NotCopied(h, copies) ==
  [rec |-> Without(h.rec, copies),
   str |-> Without(h.str, UNION {Range(KeyChain(h, r)) : r \in copies})]

(* A call of the index on i and h returned out: it has these rows now, no row
   twice, has changed nothing in the heap but its copies, and has released
   what it pinned. *)
Kept(i, h, out, rows) ==
  /\ out = [index |-> out.index, heap |-> out.heap]
  /\ {IndexRows(out.index), IndexCopies(out.index)} \subseteq Seq(Nat)
  /\ IsInjective(IndexRows(out.index) \o IndexCopies(out.index)) /\ Rows(out.index) = rows
  /\ IsTable(out.heap.rec) /\ IsTable(out.heap.str)
  /\ CopiesTidy(out.heap, Copies(out.index))
  /\ NotCopied(out.heap, Copies(out.index)) = NotCopied(h, Copies(i))
  /\ IndexUnpinned(i) => IndexUnpinned(out.index)

(* A row is inserted that is not there, a row deleted that is. *)
InsertKept(i, h, rid) ==
  \/ Kept(i, h, IndexInsert(i, h, rid), Rows(i) \cup {rid})
  \/ rid \in Rows(i) \cup Copies(i) \/ ~Comparable(h, Rows(i) \cup {rid}, Copies(i))

DeleteKept(i, h, rid) ==
  \/ Kept(i, h, IndexDelete(i, h, rid), Rows(i) \ {rid})
  \/ rid \notin Rows(i) \/ ~Comparable(h, Rows(i), Copies(i))

(* The calls of myjql_set and myjql_del. *)
SetNewKept(s, key, value) ==
  LET new == NewRecord(s.heap, key, value) IN InsertKept(s.index, new.heap, new.rid)

SetOldKept(s, rid, value) ==
  LET v   == ReplaceValue(s.heap, rid, value)
      out == IndexDelete(s.index, v.heap, rid)
      new == ReplaceRecord(out.heap, rid, [s.heap.rec[rid] EXCEPT !.value = v.value])
  IN  DeleteKept(s.index, v.heap, rid) /\ InsertKept(out.index, new.heap, new.rid)

Found(s, key) == IndexSearch(s.index, s.heap, key)

CallsKept ==
  /\ last'.op = "set" => IF Found(store, last'.key) = NoRid
                         THEN SetNewKept(store, last'.key, last'.value)
                         ELSE SetOldKept(store, Found(store, last'.key), last'.value)
  /\ last'.op = "del" => \/ Found(store, last'.key) = NoRid
                         \/ DeleteKept(store.index, store.heap, Found(store, last'.key))
  /\ last'.op = "open" => /\ IndexRows(store'.index) = IndexRows(store.index)
                          /\ IndexCopies(store'.index) = IndexCopies(store.index)
                          /\ IndexUnpinned(store'.index)

(* A search finds the row with the key, if there is one. *)
SearchFinds ==
  LET rows  == Rows(store.index)
      texts == {Text(store.heap, r) : r \in rows}
  IN
  \/ \A k \in Key : LET rid == Found(store, k)
                    IN  IF rid = NoRid THEN k \notin texts
                        ELSE rid \in rows /\ Text(store.heap, rid) = k
  \/ ~Comparable(store.heap, Rows(store.index), Copies(store.index))

(* The index keeps its side, given comparisons that are fit for it: a search
   finds the row with the key, an insertion or deletion changes that row only,
   and of the heap only copies of keys that are the index's own, and every
   page is released. *)
IndexKeeps == []SearchFinds /\ [][CallsKept]_vars
=============================================================================
