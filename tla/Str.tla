--------------------------------- MODULE Str ---------------------------------
(***************************************************************************)
(* Strings in a table (src/str.c): a string is a chain of chunks, each     *)
(* with the RID of the next one, its size and its characters.              *)
(*                                                                         *)
(* A table is the function from the RIDs in use to their items (RowTable). *)
(* Which free RID an insertion gets makes no difference to the callers,    *)
(* which only hand RIDs back; here it is the first that is free, so that a *)
(* RID is used again as soon as possible and a stale one shows.            *)
(* A chunk is the record of its next RID and its characters, a character   *)
(* an integer (char is signed), a string a sequence of characters.         *)
(* A loop over a string is given by what is read after i turns of it and   *)
(* by the first turn that leaves it.                                       *)
(***************************************************************************)
EXTENDS Integers, Sequences, FiniteSets, Functions

CONSTANTS
  STR_CHUNK_MAX_LEN,   \* characters in a full chunk
  MAX_STR_LEN,         \* bound: no string is longer
  InFront              \* what is in memory in front of the caller's buffer

ASSUME StrAssumption ==
  /\ STR_CHUNK_MAX_LEN \in Nat \ {0}
  /\ MAX_STR_LEN \in 0 .. 32767 * STR_CHUNK_MAX_LEN   \* full chunks are counted in a short
  /\ InFront \in Seq(Int) /\ Len(InFront) = STR_CHUNK_MAX_LEN

NoRid == -1

NewRid(table) ==
  CHOOSE rid \in 1 .. Cardinality(DOMAIN table) + 1 : rid \notin DOMAIN table

table_insert(table, x) ==
  LET new == NewRid(table)
  IN  [table |-> [rid \in DOMAIN table \cup {new} |-> IF rid = new THEN x ELSE table[rid]],
       rid   |-> new]

Without(table, rids) == Restrict(table, DOMAIN table \ rids)

table_delete(table, rid) == Without(table, {rid})

(* The first turn of a loop with P. *)
First(P(_)) ==
  CHOOSE i \in 0 .. MAX_STR_LEN : P(i) /\ \A j \in 0 .. i - 1 : ~P(j)

-----------------------------------------------------------------------------
(* A StringRecord: the chunk that is being read and the position in it. *)
read_string(table, rid) == [chunk |-> table[rid], idx |-> 0]

has_next_char(record) ==
  Len(record.chunk.data) # record.idx \/ record.chunk.rid # NoRid

(* Mutant: the characters of the next chunk are read from the second one on. *)
next_char_skips(table, record) ==
  IF Len(record.chunk.data) # record.idx
  THEN [char |-> record.chunk.data[record.idx + 1], record |-> [record EXCEPT !.idx = @ + 1]]
  ELSE LET next == read_string(table, record.chunk.rid)
           size == Len(next.chunk.data)
       IN  [char |-> next.chunk.data[size], record |-> [next EXCEPT !.idx = size]]

(* The next character is in this chunk or the first of the next one. *)
next_char(table, record) ==
  IF Len(record.chunk.data) # record.idx
  THEN [char |-> record.chunk.data[record.idx + 1], record |-> [record EXCEPT !.idx = @ + 1]]
  ELSE IF record.chunk.rid = NoRid THEN [char |-> 0, record |-> record]
  ELSE LET next == read_string(table, record.chunk.rid)
       IN  [char |-> next.chunk.data[1], record |-> [next EXCEPT !.idx = 1]]

(* The record after i calls of next_char. *)
After(table, record) ==
  LET rec[i \in Nat] == IF i = 0 THEN record ELSE next_char(table, rec[i - 1]).record
  IN  rec

Sign(a, b) == IF a > b THEN 1 ELSE -1

(* Mutant: a string is equal to what it begins with. *)
ComparePrefix(table, a, b) ==
  LET x == After(table, a)
      y == After(table, b)
      Both(i) == has_next_char(x[i]) /\ has_next_char(y[i])
      X(i) == next_char(table, x[i]).char
      Y(i) == next_char(table, y[i]).char
      n == First(LAMBDA i : Both(i) => X(i) # Y(i))
  IN  IF Both(n) THEN Sign(X(n), Y(n)) ELSE 0

(* The loop of the comparisons: up to the first difference, or to the end of
   one of the strings. *)
CompareRest(table, a, b) ==
  LET x == After(table, a)
      y == After(table, b)
      Both(i) == has_next_char(x[i]) /\ has_next_char(y[i])
      X(i) == next_char(table, x[i]).char
      Y(i) == next_char(table, y[i]).char
      n == First(LAMBDA i : Both(i) => X(i) # Y(i))
  IN  IF Both(n) THEN Sign(X(n), Y(n))
      ELSE IF has_next_char(y[n]) THEN -1
      ELSE IF has_next_char(x[n]) THEN 1
      ELSE 0

compare_string_record(table, a, b) ==
  IF a.chunk.data = <<>> THEN -1
  ELSE IF b.chunk.data = <<>> THEN 1
  ELSE CompareRest(table, a, b)

(* Pieces of a string are written from the last to the first, each with the
   RID of the one before it. *)
WriteChunks(table, pieces) ==
  LET written[k \in Nat] ==
        IF k = 0 THEN [table |-> table, rid |-> NoRid]
        ELSE LET w == written[k - 1]
             IN  table_insert(w.table, [rid  |-> w.rid, data |-> pieces[Len(pieces) + 1 - k]])
  IN  written[Len(pieces)]

(* Full pieces of a string, n of them, and one more; n may be negative. *)
Pieces(data, n, tail) ==
  LET last == IF n > 0 THEN n + 1 ELSE 1
  IN  [k \in 1 .. last |->
         IF k = last THEN tail
         ELSE SubSeq(data, (k - 1) * STR_CHUNK_MAX_LEN + 1, k * STR_CHUNK_MAX_LEN)]

(* Mutant: a string that fills its last chunk gets an empty one more. *)
write_string_empty_tail(table, data) ==
  LET sum == Len(data) \div STR_CHUNK_MAX_LEN
  IN  WriteChunks(table, Pieces(data, sum, SubSeq(data, sum * STR_CHUNK_MAX_LEN + 1, Len(data))))

(* The last chunk of a string of a multiple of STR_CHUNK_MAX_LEN characters is
   full; that of the empty string is taken to be full too and is read from in
   front of the buffer, and sum, a short, is negative then. *)
write_string(table, data) ==
  LET size  == Len(data)
      extra == IF size % STR_CHUNK_MAX_LEN = 0 THEN STR_CHUNK_MAX_LEN
               ELSE size % STR_CHUNK_MAX_LEN
      sum   == (size - extra) \div STR_CHUNK_MAX_LEN
      front == STR_CHUNK_MAX_LEN + size - extra
  IN  WriteChunks(table, Pieces(data, sum, SubSeq(InFront \o data, front + 1, front + extra)))

(* The RIDs of the chain that starts at rid. *)
Chain(table, rid) ==
  LET link[i \in Nat] == IF i = 0 THEN rid
                         ELSE IF link[i - 1] = NoRid THEN NoRid ELSE table[link[i - 1]].rid
      n == First(LAMBDA i : link[i] = NoRid)
  IN  [i \in 1 .. n |-> link[i - 1]]

delete_string(table, rid) == Without(table, Range(Chain(table, rid)))

(* The characters loaded, at most max_size of them. *)
load_string(table, record, max_size) ==
  LET x == After(table, record)
      n == First(LAMBDA i : ~has_next_char(x[i]) \/ i = max_size)
  IN  [i \in 1 .. n |-> next_char(table, x[i - 1]).char]

-----------------------------------------------------------------------------
(* For the properties.  Items by RID. *)
IsTable(table) ==
  /\ DOMAIN table \subseteq Nat \ {0} /\ IsFiniteSet(DOMAIN table)
  /\ table = [rid \in DOMAIN table |-> table[rid]]

(* The chunks of c, one after the other, are the string data. *)
Linked(table, c, data) ==
  /\ c \in Seq(DOMAIN table) /\ c # <<>> /\ IsInjective(c)
  /\ (Len(c) - 1) * STR_CHUNK_MAX_LEN < Len(data) /\ Len(data) <= Len(c) * STR_CHUNK_MAX_LEN
  /\ \A j \in 1 .. Len(c) :
       LET from == (j - 1) * STR_CHUNK_MAX_LEN
           size == IF j = Len(c) THEN Len(data) - from ELSE STR_CHUNK_MAX_LEN
       IN  table[c[j]] = [rid  |-> IF j = Len(c) THEN NoRid ELSE c[j + 1],
                          data |-> [i \in 1 .. size |-> data[from + i]]]

(* The string at rid is data. *)
Spells(table, rid, data) ==
  LET c == Chain(table, rid) IN Linked(table, c, data) /\ c[1] = rid

(* The order of strings that the comparisons are to compute. *)
StringLess(a, b) ==
  \E n \in 0 .. Len(a) :
    /\ n < Len(b)
    /\ \A i \in 1 .. n : a[i] = b[i]
    /\ n # Len(a) => a[n + 1] < b[n + 1]
=============================================================================
