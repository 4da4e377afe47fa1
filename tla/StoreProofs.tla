---------------------------- MODULE StoreProofs ----------------------------
(***************************************************************************)
(* What is proved of the store (Str, Myjql, MyjqlClient), for every key,   *)
(* value, chunk size and number of calls, and for every index that keeps   *)
(* its side (IndexKeeps): the store is a map, and leaks and shares nothing.*)
(*                                                                         *)
(*   strings   a chain of chunks that spells a text is read, compared,     *)
(*             written and deleted as that text, wherever it is cut        *)
(*   heap      Sound: rows have a key and a value, copies a key, no chunk  *)
(*             is in two of them and every chunk is in one                 *)
(*   calls     each call keeps the heap sound and changes the pairs that   *)
(*             the rows say as Dictionary does                             *)
(*                                                                         *)
(* A walk along chunks is a recursive function of the steps made; what it  *)
(* computes is found by the least step that would be wrong (LeastNat).     *)
(***************************************************************************)
EXTENDS MyjqlClient, Facts, FiniteSetTheorems, TLAPS

(* An insertion gets a RID that is not in use. *)
LEMMA NewRidFree ==
  ASSUME NEW t, IsTable(t)
  PROVE  NewRid(t) \in Nat \ {0} /\ NewRid(t) \notin DOMAIN t
<1> DEFINE n == Cardinality(DOMAIN t)
<1>1. IsFiniteSet(DOMAIN t) /\ n \in Nat
  BY FS_CardinalityType DEF IsTable
<1>2. Cardinality(1 .. n + 1) = n + 1
  <2>1. n + 1 \in Nat /\ 1 \in Nat
    BY <1>1
  <2> HIDE DEF n
  <2>2. IF 1 > n + 1 THEN Cardinality(1 .. n + 1) = 0
        ELSE Cardinality(1 .. n + 1) = (n + 1) - 1 + 1
    BY <2>1, FS_Interval
  <2> QED BY <1>1, <2>2
<1>3. \E rid \in 1 .. n + 1 : rid \notin DOMAIN t
  <2>1. SUFFICES ASSUME 1 .. n + 1 \subseteq DOMAIN t PROVE FALSE
    OBVIOUS
  <2>2. Cardinality(1 .. n + 1) <= n
    BY <1>1, <2>1, FS_Subset
  <2> HIDE DEF n
  <2> QED BY <1>1, <1>2, <2>2
<1>4. NewRid(t) \in 1 .. n + 1 /\ NewRid(t) \notin DOMAIN t
  BY <1>3 DEF NewRid
<1> HIDE DEF n
<1> QED BY <1>1, <1>4

(* What an insertion does: one RID more, with the item, and nothing else. *)
LEMMA Inserted ==
  ASSUME NEW t, IsTable(t), NEW x
  PROVE  LET w == table_insert(t, x)
         IN  /\ IsTable(w.table)
             /\ w.rid \in Nat \ {0} /\ w.rid \notin DOMAIN t
             /\ DOMAIN w.table = DOMAIN t \cup {w.rid}
             /\ w.table[w.rid] = x
             /\ \A r \in DOMAIN t : w.table[r] = t[r]
<1> DEFINE w == table_insert(t, x)
           new == NewRid(t)
           u == [rid \in DOMAIN t \cup {new} |-> IF rid = new THEN x ELSE t[rid]]
<1>1. w.table = u /\ w.rid = new
  BY DEF table_insert
<1>2. new \in Nat \ {0} /\ new \notin DOMAIN t
  BY NewRidFree
<1> HIDE DEF w, new
<1>3. DOMAIN u = DOMAIN t \cup {new} /\ u[new] = x /\ \A r \in DOMAIN t : u[r] = t[r]
  BY <1>2
<1>4. IsTable(u)
  <2>1. DOMAIN u \subseteq Nat \ {0}
    BY <1>2, <1>3 DEF IsTable
  <2>2. IsFiniteSet(DOMAIN u)
    BY <1>3, FS_AddElement DEF IsTable
  <2>3. u = [rid \in DOMAIN u |-> u[rid]]
    OBVIOUS
  <2> QED BY <2>1, <2>2, <2>3 DEF IsTable
<1> HIDE DEF u
<1>5. QED BY <1>1, <1>2, <1>3, <1>4 DEF w

(* What is left of a table when some RIDs are deleted. *)
LEMMA Removed ==
  ASSUME NEW t, IsTable(t), NEW S
  PROVE  LET u == Without(t, S)
         IN  IsTable(u) /\ DOMAIN u = DOMAIN t \ S /\ \A r \in DOMAIN u : u[r] = t[r]
<1> DEFINE u == Without(t, S)
<1>1. u = [r \in DOMAIN t \ S |-> t[r]]
  BY DEF Without, Restrict
<1> HIDE DEF u
<1>2. DOMAIN u = DOMAIN t \ S /\ (\A r \in DOMAIN u : u[r] = t[r])
      /\ u = [r \in DOMAIN u |-> u[r]]
  BY <1>1
<1>3. IsTable(u)
  <2>1. IsFiniteSet(DOMAIN u)
    BY <1>2, FS_Subset DEF IsTable
  <2> QED BY <1>2, <2>1 DEF IsTable
<1> QED BY <1>2, <1>3 DEF u

-----------------------------------------------------------------------------
(* The strings that are written: characters, at least one and not too many. *)
Texts == {s \in Seq(Int) : Len(s) \in 1 .. MAX_STR_LEN}

(* Chunk j of a chain: its size, characters and successor. *)
ChunkAt(t, c, data, j) ==
  LET chunk == t[c[j]]
      from  == (j - 1) * STR_CHUNK_MAX_LEN
  IN  /\ c[j] \in DOMAIN t /\ c[j] \in Nat \ {0}
      /\ from \in Nat
      /\ Len(chunk.data) \in 1 .. STR_CHUNK_MAX_LEN
      /\ \A i \in 1 .. Len(chunk.data) : chunk.data[i] = data[from + i]
      /\ j = Len(c) => chunk.rid = NoRid /\ from + Len(chunk.data) = Len(data)
      /\ j # Len(c) => /\ chunk.rid = c[j + 1] /\ c[j + 1] \in Nat \ {0}
                       /\ c[j + 1] \in DOMAIN t
                       /\ Len(chunk.data) = STR_CHUNK_MAX_LEN
                       /\ from + Len(chunk.data) = j * STR_CHUNK_MAX_LEN
                       /\ j * STR_CHUNK_MAX_LEN < Len(data)

(* The chunks of a chain. *)
LEMMA ChunkFacts ==
  ASSUME NEW t, IsTable(t), NEW data \in Texts, NEW c, Linked(t, c, data)
  PROVE  /\ Len(c) \in Nat /\ Len(c) >= 1 /\ Len(c) <= Len(data)
         /\ \A j \in 1 .. Len(c) : ChunkAt(t, c, data, j)
<1> DEFINE L == STR_CHUNK_MAX_LEN
           n == Len(c)
           N == Len(data)
<1>1. L \in Nat /\ L >= 1 /\ MAX_STR_LEN \in Nat
  BY StrAssumption
<1>2. /\ c \in Seq(DOMAIN t) /\ c # <<>>
      /\ (n - 1) * L < N /\ N <= n * L
      /\ \A j \in 1 .. n :
           t[c[j]] = [rid  |-> IF j = n THEN NoRid ELSE c[j + 1],
                      data |-> [i \in 1 .. (IF j = n THEN N - (j - 1) * L ELSE L) |->
                                  data[(j - 1) * L + i]]]
  BY DEF Linked
<1>3. n \in Nat /\ n >= 1
  BY <1>2, EmptyOnly
<1>4. \A j \in 1 .. n : c[j] \in DOMAIN t /\ c[j] \in Nat \ {0}
  BY <1>2 DEF IsTable
<1>5. N \in Nat /\ N >= 1
  BY <1>1 DEF Texts
<1> HIDE DEF L, n, N
<1>6. n <= N
  <2>1. n - 1 <= (n - 1) * L
    BY <1>1, <1>3
  <2> QED BY <1>1, <1>2, <1>3, <1>5, <2>1
<1>7. ASSUME NEW j \in 1 .. n
      PROVE  /\ (j - 1) * L \in Nat /\ (j - 1) * L <= (n - 1) * L
             /\ j # n => (j - 1) * L + L = j * L /\ j * L <= (n - 1) * L
             /\ j = n => N - (j - 1) * L <= L
  <2>1. (j - 1) * L \in Nat
    BY <1>1, <1>3
  <2>2. \A a, b \in Nat : a <= b => a * L <= b * L
    BY <1>1
  <2>3. (j - 1) * L <= (n - 1) * L /\ (j # n => j * L <= (n - 1) * L)
    BY <2>2, <1>3
  <2>4. (j - 1) * L + L = j * L
    BY <1>1, <1>3
  <2>5. j = n => N - (j - 1) * L <= L
    BY <1>1, <1>2, <1>3, <1>5, <2>1, <2>4
  <2> QED BY <2>1, <2>3, <2>4, <2>5
<1>8. ASSUME NEW j \in 1 .. n
      PROVE  LET chunk == t[c[j]]
                 from  == (j - 1) * L
             IN  /\ from \in Nat
                 /\ Len(chunk.data) \in 1 .. L
                 /\ \A i \in 1 .. Len(chunk.data) : chunk.data[i] = data[from + i]
                 /\ j = n => chunk.rid = NoRid /\ from + Len(chunk.data) = N
                 /\ j # n => /\ chunk.rid = c[j + 1] /\ Len(chunk.data) = L
                             /\ from + Len(chunk.data) = j * L
                             /\ j * L < N
  <2> DEFINE from == (j - 1) * L
             size == IF j = n THEN N - from ELSE L
             d == [i \in 1 .. size |-> data[from + i]]
  <2>1. /\ from \in Nat /\ from <= (n - 1) * L /\ (n - 1) * L < N
        /\ j # n => from + L = j * L /\ j * L <= (n - 1) * L
        /\ j = n => N - from <= L
    BY <1>2, <1>7
  <2>2. t[c[j]].rid = (IF j = n THEN NoRid ELSE c[j + 1]) /\ t[c[j]].data = d
    <3>1. t[c[j]] = [rid |-> IF j = n THEN NoRid ELSE c[j + 1], data |-> d]
      BY <1>2, Zenon
    <3> HIDE DEF d
    <3> QED BY <3>1
  <2>3. (n - 1) * L \in Int /\ j * L \in Int
    BY <1>1, <1>3
  <2> HIDE DEF from
  <2>4. size \in 1 .. L
    BY <1>1, <1>5, <2>1, <2>3
  <2>5. Len(d) = size /\ \A i \in 1 .. size : d[i] = data[from + i]
    BY <2>4
  <2> HIDE DEF d
  <2>6. /\ Len(t[c[j]].data) \in 1 .. L
        /\ \A i \in 1 .. Len(t[c[j]].data) : t[c[j]].data[i] = data[from + i]
    BY <2>2, <2>4, <2>5
  <2>7. j = n => t[c[j]].rid = NoRid /\ from + Len(t[c[j]].data) = N
    BY <1>5, <2>1, <2>2, <2>5
  <2>8. j # n => /\ t[c[j]].rid = c[j + 1] /\ Len(t[c[j]].data) = L
                 /\ from + Len(t[c[j]].data) = j * L /\ j * L < N
    BY <1>5, <2>1, <2>2, <2>3, <2>5
  <2> QED BY <2>1, <2>6, <2>7, <2>8 DEF from
<1>9. \A j \in 1 .. n : j # n => c[j + 1] \in Nat \ {0} /\ c[j + 1] \in DOMAIN t
  BY <1>3, <1>4
<1> QED BY <1>3, <1>4, <1>6, <1>8, <1>9 DEF L, n, N, ChunkAt

(* A chain is found by its first chunk, *)
LEMMA ChainIs ==
  ASSUME NEW t, IsTable(t), NEW data \in Texts, NEW c, Linked(t, c, data)
  PROVE  Chain(t, c[1]) = c /\ Spells(t, c[1], data)
<1> DEFINE n == Len(c)
           Link(g) == [i \in Nat |-> IF i = 0 THEN c[1]
                                     ELSE IF g[i - 1] = NoRid THEN NoRid ELSE t[g[i - 1]].rid]
           f == [i \in Nat |-> IF i < n THEN c[i + 1] ELSE NoRid]
           link == CHOOSE g : g = Link(g)
           m == CHOOSE i \in 0 .. MAX_STR_LEN :
                  link[i] = NoRid /\ \A j \in 0 .. i - 1 : ~(link[j] = NoRid)
<1>1. /\ n \in Nat /\ n >= 1 /\ n <= MAX_STR_LEN /\ MAX_STR_LEN \in Nat
      /\ \A j \in 1 .. n : c[j] \in Nat \ {0} /\ t[c[j]].rid = IF j = n THEN NoRid ELSE c[j + 1]
  <2>1. Len(data) \in Nat /\ Len(data) <= MAX_STR_LEN /\ MAX_STR_LEN \in Nat
    BY StrAssumption DEF Texts
  <2> QED BY <2>1, ChunkFacts DEF ChunkAt
<1>2. \A i \in Nat : f[i] = IF i < n THEN c[i + 1] ELSE NoRid
  BY <1>1
<1>3. \A i \in Nat : f[i] = NoRid <=> i >= n
  BY <1>1 DEF NoRid
<1>4. ASSUME NEW i \in Nat
      PROVE  f[i + 1] = IF f[i] = NoRid THEN NoRid ELSE t[f[i]].rid
  <2>1. CASE i < n
    <3>1. f[i] = c[i + 1] /\ f[i] # NoRid
      BY <1>1, <1>2, <1>3, <2>1
    <3>2. t[c[i + 1]].rid = IF i + 1 = n THEN NoRid ELSE c[i + 1 + 1]
      BY <1>1, <2>1
    <3> QED BY <1>1, <1>2, <2>1, <3>1, <3>2
  <2>2. CASE i >= n
    BY <1>1, <1>3, <2>2
  <2> QED BY <1>1, <2>1, <2>2
<1> HIDE DEF n
<1>5. f = Link(f)
  <2>1. f[0] = c[1]
    BY <1>1, <1>2
  <2>2. \A i \in Nat : f[i] = IF i = 0 THEN c[1]
                              ELSE IF f[i - 1] = NoRid THEN NoRid ELSE t[f[i - 1]].rid
    <3> TAKE i \in Nat
    <3>1. CASE i = 0
      BY <2>1, <3>1
    <3>2. CASE i # 0
      <4>1. i - 1 \in Nat /\ i - 1 + 1 = i
        BY <3>2
      <4> HIDE DEF f
      <4> QED BY <1>4, <3>2, <4>1
    <3> QED BY <3>1, <3>2
  <2>3. f = [i \in Nat |-> f[i]]
    OBVIOUS
  <2> HIDE DEF f
  <2> QED BY <2>2, <2>3
<1> HIDE DEF f
<1>6. link = Link(link)
  BY <1>5, Zenon
<1> HIDE DEF link
<1>7. /\ link[0] = c[1]
      /\ \A i \in Nat : link[i + 1] = IF link[i] = NoRid THEN NoRid ELSE t[link[i]].rid
  <2>1. \A i \in Nat : link[i] = IF i = 0 THEN c[1]
                                 ELSE IF link[i - 1] = NoRid THEN NoRid ELSE t[link[i - 1]].rid
    BY <1>6
  <2>2. ASSUME NEW i \in Nat
        PROVE  link[i + 1] = IF link[i] = NoRid THEN NoRid ELSE t[link[i]].rid
    <3>1. i + 1 \in Nat /\ i + 1 # 0 /\ (i + 1) - 1 = i
      OBVIOUS
    <3> QED BY <2>1, <3>1
  <2> QED BY <2>1, <2>2
<1>8. \A i \in Nat : link[i] = f[i]
  <2>1. link[0] = f[0]
    BY <1>1, <1>2, <1>7
  <2>2. \A i \in Nat : link[i] = f[i] => link[i + 1] = f[i + 1]
    BY <1>4, <1>7
  <2> QED BY <2>1, <2>2, SameFromZero
<1>9. m = n
  <2>1. \A i \in Nat : link[i] = NoRid <=> i >= n
    BY <1>3, <1>8
  <2>2. n \in 0 .. MAX_STR_LEN /\ link[n] = NoRid /\ \A j \in 0 .. n - 1 : ~(link[j] = NoRid)
    BY <1>1, <2>1
  <2>3. ASSUME NEW i \in 0 .. MAX_STR_LEN, link[i] = NoRid, \A j \in 0 .. i - 1 : ~(link[j] = NoRid)
        PROVE  i = n
    BY <1>1, <2>1, <2>2, <2>3
  <2> QED BY <2>2, <2>3
<1>10. Chain(t, c[1]) = [i \in 1 .. m |-> link[i - 1]]
  BY DEF Chain, First, link
<1>11. Chain(t, c[1]) = c
  <2>1. c \in Seq(DOMAIN t) /\ c = [i \in 1 .. n |-> c[i]]
    BY DEF Linked, n
  <2>2. \A i \in 1 .. n : link[i - 1] = c[i]
    BY <1>1, <1>2, <1>8
  <2> QED BY <1>9, <1>10, <2>1, <2>2
<1> QED BY <1>11 DEF Spells

(* and stays as long as its chunks do. *)
LEMMA StringKept ==
  ASSUME NEW t, IsTable(t), NEW u, IsTable(u), NEW data \in Texts, NEW rid,
         Spells(t, rid, data),
         \A x \in Range(Chain(t, rid)) : x \in DOMAIN u /\ u[x] = t[x]
  PROVE  Chain(u, rid) = Chain(t, rid) /\ Spells(u, rid, data)
<1> DEFINE c == Chain(t, rid)
<1>1. Linked(t, c, data) /\ c[1] = rid
  BY DEF Spells
<1>2. \A j \in 1 .. Len(c) : c[j] \in DOMAIN u /\ u[c[j]] = t[c[j]]
  BY <1>1 DEF Range, Linked
<1>3. c \in Seq(DOMAIN u)
  BY <1>1, <1>2 DEF Linked
<1> HIDE DEF c
<1>4. Linked(u, c, data)
  BY <1>1, <1>2, <1>3 DEF Linked
<1> QED BY <1>1, <1>4, ChainIs DEF c

(* The chunks of a string are in the table, and full but for the last. *)
LEMMA StringChunks ==
  ASSUME NEW t, IsTable(t), NEW data \in Texts, NEW rid, Spells(t, rid, data)
  PROVE  /\ rid \in Range(Chain(t, rid)) /\ Range(Chain(t, rid)) \subseteq DOMAIN t
         /\ rid \in Nat \ {0} /\ IsInjective(Chain(t, rid))
         /\ Chain(t, rid) \in Seq(DOMAIN t)
         /\ \A x \in Range(Chain(t, rid)) :
              /\ Len(t[x].data) \in 1 .. STR_CHUNK_MAX_LEN
              /\ t[x].rid # NoRid => /\ Len(t[x].data) = STR_CHUNK_MAX_LEN
                                     /\ t[x].rid \in DOMAIN t
<1> DEFINE c == Chain(t, rid)
<1>1. Linked(t, c, data) /\ c[1] = rid
  BY DEF Spells
<1> HIDE DEF c
<1>2. c \in Seq(DOMAIN t) /\ IsInjective(c) /\ DOMAIN c = 1 .. Len(c)
  BY <1>1 DEF Linked
<1>3. \A x \in Range(c) : \E j \in 1 .. Len(c) : x = c[j]
  BY <1>2 DEF Range
<1>4. 1 \in DOMAIN c
  BY <1>1, <1>2, ChunkFacts
<1>5. \A x \in Range(c) :
              /\ Len(t[x].data) \in 1 .. STR_CHUNK_MAX_LEN
              /\ t[x].rid # NoRid => /\ Len(t[x].data) = STR_CHUNK_MAX_LEN
                                     /\ t[x].rid \in DOMAIN t
  <2>1. \A j \in 1 .. Len(c) :
          /\ Len(t[c[j]].data) \in 1 .. STR_CHUNK_MAX_LEN
          /\ t[c[j]].rid # NoRid => /\ Len(t[c[j]].data) = STR_CHUNK_MAX_LEN
                                    /\ t[c[j]].rid \in DOMAIN t
    BY <1>1, ChunkFacts DEF ChunkAt
  <2> QED BY <1>3, <2>1, ZenonT(40)
<1>6. rid \in Range(c) /\ Range(c) \subseteq DOMAIN t
  BY <1>1, <1>2, <1>4 DEF Range
<1> QED BY <1>2, <1>5, <1>6 DEF c, IsTable

-----------------------------------------------------------------------------
(* What has_next_char and next_char give of a string when it is read from its
   start: its characters one after the other, and then no more. *)
Reads(t, record, data) ==
  \A i \in 0 .. Len(data) :
    /\ has_next_char(After(t, record)[i]) <=> i < Len(data)
    /\ i < Len(data) => next_char(t, After(t, record)[i]).char = data[i + 1]

(* The record of character k of chunk j, and one call of next_char from there. *)
At(t, c, j, k) == [chunk |-> t[c[j]], idx |-> k]

ReadsOn(t, c, data, j, k) ==
  LET r == At(t, c, j, k)
      x == next_char(t, r)
      i == (j - 1) * STR_CHUNK_MAX_LEN + k
  IN  /\ i \in 0 .. Len(data)
      /\ has_next_char(r) <=> i < Len(data)
      /\ i < Len(data) => x.char = data[i + 1]
      /\ i < Len(data) =>
           \E jj \in 1 .. Len(c) : \E kk \in 1 .. Len(t[c[jj]].data) :
             x.record = At(t, c, jj, kk) /\ i + 1 = (jj - 1) * STR_CHUNK_MAX_LEN + kk
      /\ i = Len(data) => x.record = r

(* A call of next_char moves on by one character, to the next chunk or not. *)
LEMMA ReadStep ==
  ASSUME NEW t, IsTable(t), NEW data \in Texts, NEW c, Linked(t, c, data),
         NEW j \in 1 .. Len(c), NEW k \in 0 .. Len(t[c[j]].data)
  PROVE  ReadsOn(t, c, data, j, k)
<1> DEFINE L == STR_CHUNK_MAX_LEN
           n == Len(c)
           N == Len(data)
           r == [chunk |-> t[c[j]], idx |-> k]
           size == Len(t[c[j]].data)
           from == (j - 1) * L
           i == from + k
           x == next_char(t, r)
<1>1. L \in Nat /\ L >= 1 /\ n \in Nat /\ N \in Nat
  BY StrAssumption, ChunkFacts DEF Texts
<1>2. /\ from \in Nat /\ size \in 1 .. L
      /\ \A ii \in 1 .. size : t[c[j]].data[ii] = data[from + ii]
      /\ j = n => t[c[j]].rid = NoRid /\ from + size = N
      /\ j # n => /\ t[c[j]].rid = c[j + 1] /\ c[j + 1] # NoRid
                  /\ from + size = j * L /\ j * L < N
  <2>1. ChunkAt(t, c, data, j)
    BY ChunkFacts, Zenon
  <2>2. c[j + 1] \in Nat => c[j + 1] # NoRid
    BY DEF NoRid
  <2> QED BY <2>1, <2>2, Zenon DEF ChunkAt
<1>3. j # n => /\ j + 1 \in 1 .. n /\ Len(t[c[j + 1]].data) >= 1
               /\ t[c[j + 1]].data[1] = data[j * L + 1]
  <2> SUFFICES ASSUME j # n PROVE /\ j + 1 \in 1 .. n /\ Len(t[c[j + 1]].data) >= 1
                                  /\ t[c[j + 1]].data[1] = data[j * L + 1]
    OBVIOUS
  <2>1. j + 1 \in 1 .. n /\ (j + 1) - 1 = j
    BY <1>1
  <2>2. /\ Len(t[c[j + 1]].data) \in 1 .. L
        /\ \A ii \in 1 .. Len(t[c[j + 1]].data) : t[c[j + 1]].data[ii] = data[((j + 1) - 1) * L + ii]
    <3>1. ChunkAt(t, c, data, j + 1)
      BY <2>1, ChunkFacts, Zenon
    <3> QED BY <3>1, Zenon DEF ChunkAt
  <2> QED BY <1>1, <2>1, <2>2
<1>4. j * L \in Int
  BY <1>1
<1>5. r.chunk = t[c[j]] /\ r.idx = k
  OBVIOUS
<1> HIDE DEF from, n, N, L, size, r
<1>6. has_next_char(r) <=> size # k \/ t[c[j]].rid # NoRid
  BY <1>5 DEF has_next_char, size
<1>7. CASE k < size
  <2>1. x = [char |-> t[c[j]].data[k + 1], record |-> [r EXCEPT !.idx = @ + 1]]
    BY <1>1, <1>2, <1>5, <1>7 DEF next_char, size
  <2>2. [r EXCEPT !.idx = @ + 1] = [chunk |-> t[c[j]], idx |-> k + 1]
    BY DEF r
  <2>3. x.char = t[c[j]].data[k + 1] /\ x.record = [chunk |-> t[c[j]], idx |-> k + 1]
    BY <2>1, <2>2
  <2> HIDE DEF x
  <2>4. i \in 0 .. N /\ i < N /\ k + 1 \in 1 .. size /\ i + 1 = from + (k + 1)
    <3>1. k \in Nat /\ size \in Nat
      BY <1>1, <1>2
    <3>2. from + size <= N
      BY <1>1, <1>2, <1>4
    <3> QED BY <1>1, <1>2, <1>7, <3>1, <3>2, SMTT(30)
  <2>5. has_next_char(r)
    BY <1>2, <1>6, <1>7
  <2>6. x.char = data[i + 1]
    BY <1>2, <2>3, <2>4
  <2>7. \E jj \in 1 .. n : \E kk \in 1 .. Len(t[c[jj]].data) :
          x.record = [chunk |-> t[c[jj]], idx |-> kk] /\ i + 1 = (jj - 1) * L + kk
    BY <2>3, <2>4 DEF size, from, n
  <2>8. i # N
    BY <1>1, <2>4
  <2> QED BY <2>4, <2>5, <2>6, <2>7, <2>8 DEF x, n, N, L, from, r, ReadsOn, At
<1>8. CASE k = size /\ j # n
  <2>1. c[j + 1] = t[c[j]].rid /\ t[c[j]].rid # NoRid
    BY <1>2, <1>8
  <2> DEFINE next == [chunk |-> t[c[j + 1]], idx |-> 0]
  <2>2. x = [char |-> next.chunk.data[1], record |-> [next EXCEPT !.idx = 1]]
    BY <1>5, <1>8, <2>1 DEF next_char, read_string, size
  <2>3. x.char = t[c[j + 1]].data[1] /\ x.record = [chunk |-> t[c[j + 1]], idx |-> 1]
    BY <2>2
  <2> HIDE DEF x
  <2>4. i \in 0 .. N /\ i < N /\ i = j * L
    BY <1>1, <1>2, <1>4, <1>8
  <2>5. has_next_char(r)
    BY <1>6, <2>1
  <2>6. x.char = data[i + 1]
    BY <1>3, <1>8, <2>3, <2>4
  <2>7. j + 1 \in 1 .. n /\ 1 \in 1 .. Len(t[c[j + 1]].data) /\ i + 1 = ((j + 1) - 1) * L + 1
    <3>1. Len(t[c[j + 1]].data) \in 1 .. L
      BY <1>3, <1>8, ChunkFacts DEF n, L, ChunkAt
    <3> QED BY <1>1, <1>3, <1>8, <2>4, <3>1
  <2>8. i # N
    BY <1>1, <2>4
  <2> QED BY <2>3, <2>4, <2>5, <2>6, <2>7, <2>8 DEF x, n, N, L, from, r, ReadsOn, At
<1>9. CASE k = size /\ j = n
  <2>1. t[c[j]].rid = NoRid
    BY <1>2, <1>9
  <2>2. x = [char |-> 0, record |-> r]
    BY <1>5, <1>9, <2>1 DEF next_char, size
  <2>3. x.record = r
    BY <2>2
  <2> HIDE DEF x
  <2>4. i \in 0 .. N /\ i = N /\ ~(i < N)
    BY <1>1, <1>2, <1>9
  <2>5. ~has_next_char(r)
    BY <1>6, <1>9, <2>1
  <2> QED BY <2>3, <2>4, <2>5 DEF x, n, N, L, from, r, ReadsOn, At
<1>10. k < size \/ k = size
  BY <1>2 DEF size
<1> QED BY <1>7, <1>8, <1>9, <1>10

(* How long a chain, its string and its chunks are. *)
LEMMA Sizes ==
  ASSUME NEW t, IsTable(t), NEW data \in Texts, NEW c, Linked(t, c, data)
  PROVE  /\ Len(c) \in Nat /\ Len(c) >= 1 /\ Len(data) \in Nat /\ Len(data) >= 1
         /\ Len(data) <= MAX_STR_LEN /\ MAX_STR_LEN \in Nat
         /\ \A j \in 1 .. Len(c) : Len(t[c[j]].data) \in Nat /\ Len(t[c[j]].data) >= 1
<1>1. \A j \in 1 .. Len(c) : Len(t[c[j]].data) \in 1 .. STR_CHUNK_MAX_LEN
  BY ChunkFacts, Zenon DEF ChunkAt
<1>2. /\ Len(data) \in Nat /\ Len(data) >= 1 /\ Len(data) <= MAX_STR_LEN
      /\ STR_CHUNK_MAX_LEN \in Nat /\ MAX_STR_LEN \in Nat
  BY StrAssumption DEF Texts
<1>3. Len(c) \in Nat /\ Len(c) >= 1
  BY ChunkFacts, Zenon
<1> QED BY <1>1, <1>2, <1>3

(* A function that After may be: there is one for every string. *)
LEMMA AfterIs ==
  ASSUME NEW t, IsTable(t), NEW data \in Texts, NEW c, Linked(t, c, data)
  PROVE  LET x == After(t, read_string(t, c[1]))
         IN  /\ x[0] = read_string(t, c[1])
             /\ \A i \in Nat : x[i + 1] = next_char(t, x[i]).record
<1> DEFINE n == Len(c)
           N == Len(data)
           S == UNION {{At(t, c, j, k) : k \in 0 .. Len(t[c[j]].data)} : j \in 1 .. n}
           first == read_string(t, c[1])
           step == [m \in Nat |-> [s \in S |-> next_char(t, s).record]]
           Eq(g) == [i \in Nat |-> IF i = 0 THEN first ELSE next_char(t, g[i - 1]).record]
           x == CHOOSE g : g = Eq(g)
<1>1. /\ n \in Nat /\ n >= 1 /\ N \in Nat
      /\ \A j \in 1 .. n : Len(t[c[j]].data) \in Nat /\ Len(t[c[j]].data) >= 1
  BY Sizes, Zenon
<1>2. first \in S
  <2>1. first = At(t, c, 1, 0) /\ 1 \in 1 .. n /\ 0 \in 0 .. Len(t[c[1]].data)
    BY <1>1 DEF read_string, At
  <2> QED BY <2>1
<1>3. ASSUME NEW s \in S PROVE next_char(t, s).record \in S
  <2>1. PICK j \in 1 .. n : \E k \in 0 .. Len(t[c[j]].data) : s = At(t, c, j, k)
    OBVIOUS
  <2>2. PICK k \in 0 .. Len(t[c[j]].data) : s = At(t, c, j, k)
    BY <2>1
  <2> DEFINE i == (j - 1) * STR_CHUNK_MAX_LEN + k
  <2>3. /\ i \in 0 .. N
        /\ i < N => \E jj \in 1 .. n : \E kk \in 1 .. Len(t[c[jj]].data) :
                      next_char(t, s).record = At(t, c, jj, kk)
        /\ i = N => next_char(t, s).record = s
    <3>1. ReadsOn(t, c, data, j, k)
      BY ReadStep, Zenon
    <3> QED BY <2>2, <3>1, Zenon DEF ReadsOn
  <2> HIDE DEF i
  <2>4. CASE i < N
    <3>1. PICK jj \in 1 .. n : \E kk \in 1 .. Len(t[c[jj]].data) : next_char(t, s).record = At(t, c, jj, kk)
      BY <2>3, <2>4
    <3>2. PICK kk \in 1 .. Len(t[c[jj]].data) : next_char(t, s).record = At(t, c, jj, kk)
      BY <3>1
    <3>3. kk \in 0 .. Len(t[c[jj]].data)
      BY <1>1
    <3> QED BY <3>2, <3>3, SMTT(30)
  <2>5. CASE i = N
    BY <2>3, <2>5
  <2> QED BY <1>1, <2>3, <2>4, <2>5
<1> HIDE DEF S
<1>4. step \in [Nat -> [S -> S]]
  BY <1>3
<1>5. PICK f \in [Nat -> S] : f[0] = first /\ \A m \in Nat : f[m + 1] = step[m][f[m]]
  <2> HIDE DEF step, first
  <2>1. PICK f : Follows(f, S, first, step)
    BY <1>2, <1>4, Recursion, Zenon
  <2> QED BY <2>1 DEF Follows
<1>6. f = Eq(f)
  <2>1. \A i \in Nat : f[i] = IF i = 0 THEN first ELSE next_char(t, f[i - 1]).record
    <3> TAKE i \in Nat
    <3>1. CASE i = 0
      BY <1>5, <3>1
    <3>2. CASE i # 0
      <4>1. i - 1 \in Nat /\ i - 1 + 1 = i
        BY <3>2
      <4>2. f[i] = step[i - 1][f[i - 1]] /\ f[i - 1] \in S
        BY <1>5, <4>1
      <4>3. f[i] = next_char(t, f[i - 1]).record
        BY <4>1, <4>2
      <4> QED BY <3>2, <4>3
    <3> QED BY <3>1, <3>2
  <2>2. f = [i \in Nat |-> f[i]]
    BY <1>5
  <2> HIDE DEF first
  <2> QED BY <2>1, <2>2
<1>7. x = Eq(x)
  BY <1>6, Zenon
<1>8. x = After(t, first)
  BY DEF After
<1> HIDE DEF x, first
<1>9. \A i \in Nat : x[i] = IF i = 0 THEN first ELSE next_char(t, x[i - 1]).record
  BY <1>7
<1>10. ASSUME NEW i \in Nat PROVE x[i + 1] = next_char(t, x[i]).record
  <2>1. i + 1 \in Nat /\ i + 1 # 0 /\ (i + 1) - 1 = i
    OBVIOUS
  <2> QED BY <1>9, <2>1
<1> QED BY <1>8, <1>9, <1>10 DEF first

(* A string is read as it is spelled. *)
LEMMA ReadsString ==
  ASSUME NEW t, IsTable(t), NEW data \in Texts, NEW rid, Spells(t, rid, data)
  PROVE  Reads(t, read_string(t, rid), data)
<1> DEFINE c == Chain(t, rid)
           n == Len(c)
           N == Len(data)
           x == After(t, read_string(t, rid))
           Is(i, j, k) == x[i] = At(t, c, j, k) /\ i = (j - 1) * STR_CHUNK_MAX_LEN + k
           P(i) == \E j \in 1 .. n : \E k \in 0 .. Len(t[c[j]].data) : Is(i, j, k)
           Bad == {i \in 0 .. N : ~P(i)}
<1>1. Linked(t, c, data) /\ c[1] = rid
  BY DEF Spells
<1> HIDE DEF c
<1>2. /\ n \in Nat /\ n >= 1 /\ N \in Nat /\ STR_CHUNK_MAX_LEN \in Nat
      /\ \A j \in 1 .. n : Len(t[c[j]].data) \in Nat
  <2>1. /\ n \in Nat /\ n >= 1 /\ N \in Nat
        /\ \A j \in 1 .. n : Len(t[c[j]].data) \in Nat
    BY <1>1, Sizes, Zenon
  <2> QED BY <2>1, StrAssumption
<1>3. x[0] = read_string(t, rid) /\ \A i \in Nat : x[i + 1] = next_char(t, x[i]).record
  BY <1>1, AfterIs, Zenon
<1> HIDE DEF x
<1>4. P(0)
  <2>1. x[0] = At(t, c, 1, 0) /\ 1 \in 1 .. n /\ 0 \in 0 .. Len(t[c[1]].data)
    <3>1. 1 \in 1 .. n
      BY <1>2
    <3>2. Len(t[c[1]].data) \in Nat
      BY <1>2, <3>1
    <3>3. x[0] = At(t, c, 1, 0)
      BY <1>1, <1>3, Zenon DEF read_string, At
    <3> QED BY <3>1, <3>2, <3>3
  <2>2. 0 = (1 - 1) * STR_CHUNK_MAX_LEN + 0
    BY <1>2
  <2> QED BY <2>1, <2>2
<1>5. ASSUME NEW i \in 0 .. N, P(i)
      PROVE  /\ has_next_char(x[i]) <=> i < N
             /\ i < N => next_char(t, x[i]).char = data[i + 1] /\ P(i + 1)
  <2>1. PICK j \in 1 .. n : \E k \in 0 .. Len(t[c[j]].data) : Is(i, j, k)
    BY <1>5
  <2>2. PICK k \in 0 .. Len(t[c[j]].data) : Is(i, j, k)
    BY <2>1
  <2>3. /\ has_next_char(At(t, c, j, k)) <=> i < N
        /\ i < N => next_char(t, At(t, c, j, k)).char = data[i + 1]
        /\ i < N => \E jj \in 1 .. n : \E kk \in 1 .. Len(t[c[jj]].data) :
                      /\ next_char(t, At(t, c, j, k)).record = At(t, c, jj, kk)
                      /\ i + 1 = (jj - 1) * STR_CHUNK_MAX_LEN + kk
    <3>1. ReadsOn(t, c, data, j, k)
      BY <1>1, ReadStep, Zenon
    <3> QED BY <2>2, <3>1, Zenon DEF ReadsOn
  <2>4. ASSUME i < N PROVE P(i + 1)
    <3>1. PICK jj \in 1 .. n : \E kk \in 1 .. Len(t[c[jj]].data) :
                      /\ next_char(t, At(t, c, j, k)).record = At(t, c, jj, kk)
                      /\ i + 1 = (jj - 1) * STR_CHUNK_MAX_LEN + kk
      BY <2>3, <2>4
    <3>2. PICK kk \in 1 .. Len(t[c[jj]].data) :
                      /\ next_char(t, At(t, c, j, k)).record = At(t, c, jj, kk)
                      /\ i + 1 = (jj - 1) * STR_CHUNK_MAX_LEN + kk
      BY <3>1
    <3>3. x[i + 1] = At(t, c, jj, kk)
      <4>1. i \in Nat
        BY <1>2
      <4>2. x[i + 1] = next_char(t, x[i]).record
        BY <1>3, <4>1, Zenon
      <4> QED BY <2>2, <3>2, <4>2, Zenon
    <3>4. kk \in 0 .. Len(t[c[jj]].data)
      BY <1>2
    <3> QED BY <3>2, <3>3, <3>4, Zenon
  <2>5. x[i] = At(t, c, j, k)
    BY <2>2
  <2> HIDE DEF P
  <2> QED BY <2>3, <2>4, <2>5, Zenon
<1>6. Bad = {}
  <2> HIDE DEF P
  <2>1. SUFFICES ASSUME Bad # {} PROVE FALSE
    OBVIOUS
  <2>2. Bad \subseteq Nat
    BY <1>2
  <2>3. PICK m \in Bad : \A i \in Bad : m <= i
    <3> HIDE DEF Bad
    <3> QED BY <2>1, <2>2, LeastNat
  <2>4. m - 1 \in 0 .. N /\ m - 1 < N /\ P(m - 1) /\ m - 1 + 1 = m
    BY <1>2, <1>4, <2>3
  <2>5. P(m - 1 + 1)
    BY <1>5, <2>4
  <2> QED BY <2>3, <2>4, <2>5
<1> HIDE DEF P
<1>7. \A i \in 0 .. N : /\ has_next_char(x[i]) <=> i < N
                        /\ i < N => next_char(t, x[i]).char = data[i + 1]
  BY <1>5, <1>6
<1> QED BY <1>7 DEF Reads, x

(* load_string gives the string back. *)
LEMMA LoadsString ==
  ASSUME NEW t, IsTable(t), NEW data \in Texts, NEW rid, Spells(t, rid, data)
  PROVE  load_string(t, read_string(t, rid), MAX_STR_LEN) = data
<1> DEFINE x == After(t, read_string(t, rid))
           N == Len(data)
           n == CHOOSE i \in 0 .. MAX_STR_LEN :
                  /\ ~has_next_char(x[i]) \/ i = MAX_STR_LEN
                  /\ \A j \in 0 .. i - 1 : ~(~has_next_char(x[j]) \/ j = MAX_STR_LEN)
<1>1. N \in Nat /\ N <= MAX_STR_LEN /\ MAX_STR_LEN \in Nat /\ data = [i \in 1 .. N |-> data[i]]
  BY StrAssumption DEF Texts
<1>2. \A i \in 0 .. N : /\ has_next_char(x[i]) <=> i < N
                        /\ i < N => next_char(t, x[i]).char = data[i + 1]
  BY ReadsString, ZenonT(40) DEF Reads
<1>3. load_string(t, read_string(t, rid), MAX_STR_LEN)
        = [i \in 1 .. n |-> next_char(t, x[i - 1]).char]
  BY DEF load_string, First
<1> HIDE DEF x, N
<1>4. n = N
  <2>1. /\ N \in 0 .. MAX_STR_LEN /\ ~has_next_char(x[N])
        /\ \A j \in 0 .. N - 1 : has_next_char(x[j]) /\ j # MAX_STR_LEN
    <3>1. N \in 0 .. MAX_STR_LEN /\ N \in 0 .. N /\ ~(N < N)
      BY <1>1
    <3>2. \A j \in 0 .. N - 1 : j \in 0 .. N /\ j < N /\ j # MAX_STR_LEN
      BY <1>1
    <3> QED BY <1>2, <3>1, <3>2, Zenon
  <2>2. ASSUME NEW i \in 0 .. MAX_STR_LEN, ~has_next_char(x[i]) \/ i = MAX_STR_LEN,
               \A j \in 0 .. i - 1 : ~(~has_next_char(x[j]) \/ j = MAX_STR_LEN)
        PROVE  i = N
    <3>1. ~(i < N)
      BY <1>1, <2>1, <2>2
    <3>2. ~(N < i)
      BY <1>1, <2>1, <2>2
    <3> QED BY <1>1, <3>1, <3>2
  <2> QED BY <2>1, <2>2
<1>5. \A i \in 1 .. N : next_char(t, x[i - 1]).char = data[i]
  <2> TAKE i \in 1 .. N
  <2>1. i - 1 \in 0 .. N /\ i - 1 < N /\ (i - 1) + 1 = i
    BY <1>1
  <2>2. next_char(t, x[i - 1]).char = data[(i - 1) + 1]
    BY <1>2, <2>1, Zenon
  <2> QED BY <2>1, <2>2, Zenon
<1> HIDE DEF n
<1> QED BY <1>1, <1>3, <1>4, <1>5

(* No string is two strings. *)
LEMMA OneText ==
  ASSUME NEW t, IsTable(t), NEW rid, NEW a \in Texts, NEW b \in Texts,
         Spells(t, rid, a), Spells(t, rid, b)
  PROVE  a = b
BY LoadsString, Zenon

-----------------------------------------------------------------------------
(* n is where the comparison of two strings ends. *)
EndsAt(a, b, n) ==
  /\ n \in Nat /\ n <= Len(a) /\ n <= Len(b)
  /\ \A i \in 1 .. n : a[i] = b[i]
  /\ n < Len(a) /\ n < Len(b) => a[n + 1] # b[n + 1]

(* It ends. *)
LEMMA ComparisonEnds ==
  ASSUME NEW a \in Texts, NEW b \in Texts
  PROVE  \E n \in 0 .. MAX_STR_LEN : EndsAt(a, b, n)
<1> DEFINE Stop == {i \in Nat : /\ i <= Len(a) /\ i <= Len(b)
                                /\ i < Len(a) /\ i < Len(b) => a[i + 1] # b[i + 1]}
<1>1. /\ Len(a) \in Nat /\ Len(b) \in Nat /\ Len(a) <= MAX_STR_LEN /\ MAX_STR_LEN \in Nat
  BY StrAssumption DEF Texts
<1>2. Stop # {}
  <2>1. CASE Len(a) <= Len(b)
    <3>1. Len(a) \in Stop
      BY <1>1, <2>1
    <3> QED BY <3>1
  <2>2. CASE Len(b) <= Len(a)
    <3>1. Len(b) \in Stop
      BY <1>1, <2>2
    <3> QED BY <3>1
  <2> QED BY <1>1, <2>1, <2>2
<1>3. PICK n \in Stop : \A i \in Stop : n <= i
  <2>1. Stop \subseteq Nat
    OBVIOUS
  <2> HIDE DEF Stop
  <2> QED BY <1>2, <2>1, LeastNat
<1>4. ASSUME NEW i \in 1 .. n PROVE a[i] = b[i]
  <2>1. i - 1 \in Nat /\ i - 1 < n
    BY <1>3
  <2>2. i - 1 \notin Stop
    BY <1>3, <2>1, SMTT(30)
  <2>3. i - 1 < Len(a) /\ i - 1 < Len(b) /\ i - 1 + 1 = i
    BY <1>1, <1>3, <2>1
  <2> QED BY <2>1, <2>2, <2>3
<1>5. EndsAt(a, b, n)
  BY <1>3, <1>4 DEF EndsAt
<1>6. n \in 0 .. MAX_STR_LEN
  BY <1>1, <1>3
<1> QED BY <1>5, <1>6

(* What is returned there is the comparison. *)
LEMMA ComparisonIs ==
  ASSUME NEW a \in Texts, NEW b \in Texts, NEW n, EndsAt(a, b, n)
  PROVE  Compares(IF n < Len(a) /\ n < Len(b) THEN Sign(a[n + 1], b[n + 1])
                  ELSE IF n < Len(b) THEN -1 ELSE IF n < Len(a) THEN 1 ELSE 0, a, b)
<1> DEFINE A == Len(a)
           B == Len(b)
<1>1. /\ A \in Nat /\ B \in Nat
      /\ \A i \in 1 .. A : a[i] \in Int
      /\ \A i \in 1 .. B : b[i] \in Int
      /\ a \in Seq(Int) /\ b \in Seq(Int)
  BY StrAssumption DEF Texts
<1>2. /\ n \in Nat /\ n <= A /\ n <= B /\ \A i \in 1 .. n : a[i] = b[i]
      /\ n < A /\ n < B => a[n + 1] # b[n + 1]
  BY DEF EndsAt
<1>3. ASSUME NEW m \in 0 .. A, m < B, \A i \in 1 .. m : a[i] = b[i], m # A => a[m + 1] < b[m + 1]
      PROVE  m = n
  <2>1. ASSUME m < n PROVE FALSE
    <3>1. m + 1 \in 1 .. n /\ m # A /\ a[m + 1] \in Int
      BY <1>1, <1>2, <2>1
    <3> QED BY <1>2, <1>3, <3>1
  <2>2. ASSUME n < m PROVE FALSE
    <3>1. n + 1 \in 1 .. m /\ n < A /\ n < B
      BY <1>1, <1>2, <1>3, <2>2
    <3> QED BY <1>2, <1>3, <3>1
  <2> QED BY <1>1, <1>2, <2>1, <2>2
<1>4. StringLess(a, b) <=> n < B /\ (n # A => a[n + 1] < b[n + 1])
  <2>1. ASSUME StringLess(a, b) PROVE n < B /\ (n # A => a[n + 1] < b[n + 1])
    BY <1>3, <2>1 DEF StringLess
  <2>2. ASSUME n < B, n # A => a[n + 1] < b[n + 1] PROVE StringLess(a, b)
    BY <1>1, <1>2, <2>2 DEF StringLess
  <2> QED BY <2>1, <2>2
<1>5. n = A /\ n = B => a = b
  <2> SUFFICES ASSUME n = A, n = B PROVE a = b
    OBVIOUS
  <2> QED BY <1>1, <1>2, SeqEqual
<1>6. n < A \/ n < B => a # b
  <2>1. ASSUME a = b, n < A \/ n < B PROVE FALSE
    BY <1>1, <1>2, <2>1
  <2> QED BY <2>1
<1>7. CASE n < A /\ n < B
  <2>1. a[n + 1] \in Int /\ b[n + 1] \in Int /\ a[n + 1] # b[n + 1]
    BY <1>1, <1>2, <1>7
  <2>2. Sign(a[n + 1], b[n + 1]) = IF StringLess(a, b) THEN -1 ELSE 1
    BY <1>1, <1>2, <1>4, <1>7, <2>1 DEF Sign
  <2> QED BY <1>6, <1>7, <2>2 DEF Compares
<1>8. CASE ~(n < A) /\ n < B
  <2>1. StringLess(a, b)
    BY <1>1, <1>2, <1>4, <1>8
  <2> QED BY <1>6, <1>8, <2>1 DEF Compares
<1>9. CASE ~(n < B) /\ n < A
  <2>1. ~StringLess(a, b)
    BY <1>1, <1>2, <1>4, <1>9
  <2> QED BY <1>6, <1>9, <2>1 DEF Compares
<1>10. CASE ~(n < A) /\ ~(n < B)
  <2>1. n = A /\ n = B
    BY <1>1, <1>2, <1>10
  <2> QED BY <1>5, <1>10, <2>1 DEF Compares
<1> QED BY <1>7, <1>8, <1>9, <1>10

(* The comparison of two strings of the table is that of what they spell. *)
LEMMA CompareStrings ==
  ASSUME NEW t, IsTable(t), NEW r, NEW s, NEW a \in Texts, NEW b \in Texts,
         Spells(t, r, a), Spells(t, s, b)
  PROVE  Compares(compare_string_record(t, read_string(t, r), read_string(t, s)), a, b)
<1> DEFINE ra == read_string(t, r)
           rb == read_string(t, s)
           x == After(t, ra)
           y == After(t, rb)
           A == Len(a)
           B == Len(b)
           Both(i) == has_next_char(x[i]) /\ has_next_char(y[i])
           X(i) == next_char(t, x[i]).char
           Y(i) == next_char(t, y[i]).char
           m == CHOOSE i \in 0 .. MAX_STR_LEN :
                  /\ Both(i) => X(i) # Y(i)
                  /\ \A j \in 0 .. i - 1 : ~(Both(j) => X(j) # Y(j))
<1>1. /\ \A i \in 0 .. A : (has_next_char(x[i]) <=> i < A) /\ (i < A => X(i) = a[i + 1])
      /\ \A i \in 0 .. B : (has_next_char(y[i]) <=> i < B) /\ (i < B => Y(i) = b[i + 1])
  <2>1. Reads(t, ra, a) /\ Reads(t, rb, b)
    BY ReadsString, Zenon
  <2>2. \A i \in 0 .. A : (has_next_char(x[i]) <=> i < A) /\ (i < A => X(i) = a[i + 1])
    BY <2>1, Zenon DEF Reads
  <2>3. \A i \in 0 .. B : (has_next_char(y[i]) <=> i < B) /\ (i < B => Y(i) = b[i + 1])
    BY <2>1, Zenon DEF Reads
  <2> QED BY <2>2, <2>3, Zenon
<1>2. CompareRest(t, ra, rb) = IF Both(m) THEN Sign(X(m), Y(m))
                               ELSE IF has_next_char(y[m]) THEN -1
                               ELSE IF has_next_char(x[m]) THEN 1 ELSE 0
  BY DEF CompareRest, First
<1>3. ra.chunk.data # <<>> /\ rb.chunk.data # <<>>
  <2>1. Len(t[r].data) \in 1 .. STR_CHUNK_MAX_LEN /\ Len(t[s].data) \in 1 .. STR_CHUNK_MAX_LEN
    BY StringChunks, Zenon
  <2>2. Len(t[r].data) >= 1 /\ Len(t[s].data) >= 1
    BY <2>1, StrAssumption
  <2>3. Len(<<>>) = 0
    OBVIOUS
  <2>4. t[r].data # <<>> /\ t[s].data # <<>>
    BY <2>2, <2>3
  <2> QED BY <2>4 DEF read_string
<1>4. compare_string_record(t, ra, rb) = CompareRest(t, ra, rb)
  BY <1>3 DEF compare_string_record
<1>5. A \in Nat /\ B \in Nat /\ MAX_STR_LEN \in Nat
  BY StrAssumption DEF Texts
<1>6. PICK n \in 0 .. MAX_STR_LEN : EndsAt(a, b, n)
  BY ComparisonEnds
<1>7. /\ n \in Nat /\ n <= A /\ n <= B /\ \A i \in 1 .. n : a[i] = b[i]
      /\ n < A /\ n < B => a[n + 1] # b[n + 1]
  BY <1>6 DEF EndsAt
<1>8. \A i \in 0 .. n : /\ Both(i) <=> i < A /\ i < B
                        /\ Both(i) => X(i) = a[i + 1] /\ Y(i) = b[i + 1]
  <2> HIDE DEF x, y, X, Y
  <2> QED BY <1>1, <1>5, <1>7
<1> HIDE DEF x, y, X, Y, Both
<1>9. m = n
  <2>1. \A j \in 0 .. n - 1 : ~(Both(j) => X(j) # Y(j))
    <3> TAKE j \in 0 .. n - 1
    <3>1. j \in 0 .. n /\ j < A /\ j < B /\ j + 1 \in 1 .. n
      BY <1>5, <1>7
    <3> QED BY <1>7, <1>8, <3>1
  <2>2. Both(n) => X(n) # Y(n)
    <3>1. n \in 0 .. n
      BY <1>7
    <3> QED BY <1>7, <1>8, <3>1
  <2>3. ASSUME NEW i \in 0 .. MAX_STR_LEN, Both(i) => X(i) # Y(i),
               \A j \in 0 .. i - 1 : ~(Both(j) => X(j) # Y(j))
        PROVE  i = n
    <3>1. ~(i < n)
      BY <1>5, <1>7, <2>1, <2>3
    <3>2. ~(n < i)
      BY <1>5, <1>7, <2>2, <2>3
    <3> QED BY <1>5, <1>7, <3>1, <3>2
  <2> QED BY <2>1, <2>2, <2>3
<1> HIDE DEF m
<1>10. /\ has_next_char(x[n]) <=> n < A
       /\ has_next_char(y[n]) <=> n < B
       /\ Both(n) <=> n < A /\ n < B
       /\ Both(n) => X(n) = a[n + 1] /\ Y(n) = b[n + 1]
  <2>1. n \in 0 .. n /\ n \in 0 .. A /\ n \in 0 .. B
    BY <1>5, <1>7
  <2> QED BY <1>1, <1>8, <2>1, Zenon
<1>11. CompareRest(t, ra, rb) = IF n < A /\ n < B THEN Sign(a[n + 1], b[n + 1])
                                ELSE IF n < B THEN -1 ELSE IF n < A THEN 1 ELSE 0
  BY <1>2, <1>9, <1>10
<1> QED BY <1>4, <1>6, <1>11, ComparisonIs

(* So is that of a key and a string of the table. *)
LEMMA CompareKey ==
  ASSUME NEW t, IsTable(t), NEW s, NEW a \in Texts, NEW b \in Texts, Spells(t, s, b)
  PROVE  /\ read_string(t, s).chunk.data # <<>>
         /\ Compares(PtrCompareRest(t, a, read_string(t, s)), a, b)
<1> DEFINE rb == read_string(t, s)
           y == After(t, rb)
           A == Len(a)
           B == Len(b)
           Both(i) == has_next_char(y[i]) /\ i # A
           Y(i) == next_char(t, y[i]).char
           m == CHOOSE i \in 0 .. MAX_STR_LEN :
                  /\ Both(i) => a[i + 1] # Y(i)
                  /\ \A j \in 0 .. i - 1 : ~(Both(j) => a[j + 1] # Y(j))
<1>1. \A i \in 0 .. B : (has_next_char(y[i]) <=> i < B) /\ (i < B => Y(i) = b[i + 1])
  <2>1. Reads(t, rb, b)
    BY ReadsString, Zenon
  <2> QED BY <2>1, Zenon DEF Reads
<1>2. PtrCompareRest(t, a, rb) = IF Both(m) THEN Sign(a[m + 1], Y(m))
                                 ELSE IF has_next_char(y[m]) THEN -1
                                 ELSE IF m # A THEN 1 ELSE 0
  BY DEF PtrCompareRest, First
<1>3. rb.chunk.data # <<>>
  <2>1. Len(t[s].data) \in 1 .. STR_CHUNK_MAX_LEN
    BY StringChunks, Zenon
  <2>2. Len(t[s].data) >= 1
    BY <2>1, StrAssumption
  <2>3. Len(<<>>) = 0
    OBVIOUS
  <2>4. t[s].data # <<>>
    BY <2>2, <2>3
  <2> QED BY <2>4 DEF read_string
<1>4. A \in Nat /\ B \in Nat /\ MAX_STR_LEN \in Nat
  BY StrAssumption DEF Texts
<1>5. PICK n \in 0 .. MAX_STR_LEN : EndsAt(a, b, n)
  BY ComparisonEnds
<1>6. /\ n \in Nat /\ n <= A /\ n <= B /\ \A i \in 1 .. n : a[i] = b[i]
      /\ n < A /\ n < B => a[n + 1] # b[n + 1]
  BY <1>5 DEF EndsAt
<1>7. \A i \in 0 .. n : /\ Both(i) <=> i < A /\ i < B
                        /\ Both(i) => Y(i) = b[i + 1]
  <2> HIDE DEF y, Y
  <2> QED BY <1>1, <1>4, <1>6
<1> HIDE DEF y, Y, Both
<1>8. m = n
  <2>1. \A j \in 0 .. n - 1 : ~(Both(j) => a[j + 1] # Y(j))
    <3> TAKE j \in 0 .. n - 1
    <3>1. j \in 0 .. n /\ j < A /\ j < B /\ j + 1 \in 1 .. n
      BY <1>4, <1>6
    <3> QED BY <1>6, <1>7, <3>1
  <2>2. Both(n) => a[n + 1] # Y(n)
    <3>1. n \in 0 .. n
      BY <1>6
    <3> QED BY <1>6, <1>7, <3>1
  <2>3. ASSUME NEW i \in 0 .. MAX_STR_LEN, Both(i) => a[i + 1] # Y(i),
               \A j \in 0 .. i - 1 : ~(Both(j) => a[j + 1] # Y(j))
        PROVE  i = n
    <3>1. ~(i < n)
      BY <1>4, <1>6, <2>1, <2>3
    <3>2. ~(n < i)
      BY <1>4, <1>6, <2>2, <2>3
    <3> QED BY <1>4, <1>6, <3>1, <3>2
  <2> QED BY <2>1, <2>2, <2>3
<1> HIDE DEF m
<1>9. /\ n # A <=> n < A
      /\ has_next_char(y[n]) <=> n < B
      /\ Both(n) <=> n < A /\ n < B
      /\ Both(n) => Y(n) = b[n + 1]
  <2>1. n \in 0 .. n /\ n \in 0 .. A /\ n \in 0 .. B /\ (n # A <=> n < A)
    BY <1>4, <1>6
  <2> QED BY <1>1, <1>7, <2>1, Zenon
<1>10. PtrCompareRest(t, a, rb) = IF n < A /\ n < B THEN Sign(a[n + 1], b[n + 1])
                                  ELSE IF n < B THEN -1 ELSE IF n < A THEN 1 ELSE 0
  BY <1>2, <1>8, <1>9
<1> QED BY <1>3, <1>5, <1>10, ComparisonIs

-----------------------------------------------------------------------------
(* The chunks of c are k pieces, the last ones, in a table u that has what t
   had and them. *)
Wrote(t, u, rid, pieces, k, c) ==
  /\ IsTable(u) /\ c \in Seq(DOMAIN u) /\ Len(c) = k /\ IsInjective(c)
  /\ DOMAIN u = DOMAIN t \cup Range(c) /\ Range(c) \cap DOMAIN t = {}
  /\ \A r \in DOMAIN t : u[r] = t[r]
  /\ rid = IF k = 0 THEN NoRid ELSE c[1]
  /\ \A j \in 1 .. k : u[c[j]] = [rid  |-> IF j = k THEN NoRid ELSE c[j + 1],
                                  data |-> pieces[Len(pieces) - k + j]]

(* One piece is written in front of the others. *)
LEMMA WriteOne ==
  ASSUME NEW t, IsTable(t), NEW u, NEW rid, NEW pieces, Len(pieces) \in Nat,
         NEW k \in Nat, k < Len(pieces), NEW c, Wrote(t, u, rid, pieces, k, c)
  PROVE  LET w == table_insert(u, [rid |-> rid, data |-> pieces[Len(pieces) - k]])
         IN  \E d : Wrote(t, w.table, w.rid, pieces, k + 1, d)
<1> DEFINE w == table_insert(u, [rid |-> rid, data |-> pieces[Len(pieces) - k]])
           v == w.table
           new == w.rid
           d == [j \in 1 .. k + 1 |-> IF j = 1 THEN new ELSE c[j - 1]]
           N == Len(pieces)
<1>1. /\ IsTable(u) /\ c \in Seq(DOMAIN u) /\ Len(c) = k /\ IsInjective(c)
      /\ DOMAIN u = DOMAIN t \cup Range(c) /\ Range(c) \cap DOMAIN t = {}
      /\ \A r \in DOMAIN t : u[r] = t[r]
      /\ rid = IF k = 0 THEN NoRid ELSE c[1]
      /\ \A j \in 1 .. k : u[c[j]] = [rid  |-> IF j = k THEN NoRid ELSE c[j + 1],
                                      data |-> pieces[N - k + j]]
  BY DEF Wrote
<1>2. /\ IsTable(v) /\ new \in Nat \ {0} /\ new \notin DOMAIN u
      /\ DOMAIN v = DOMAIN u \cup {new}
      /\ v[new] = [rid |-> rid, data |-> pieces[N - k]]
      /\ \A r \in DOMAIN u : v[r] = u[r]
  <2>1. IsTable(u)
    BY <1>1
  <2> DEFINE x == [rid |-> rid, data |-> pieces[N - k]]
  <2>2. w = table_insert(u, x)
    OBVIOUS
  <2> HIDE DEF w, x
  <2>3. /\ IsTable(w.table) /\ w.rid \in Nat \ {0} /\ w.rid \notin DOMAIN u
        /\ DOMAIN w.table = DOMAIN u \cup {w.rid} /\ w.table[w.rid] = x
        /\ \A r \in DOMAIN u : w.table[r] = u[r]
    BY <2>1, <2>2, Inserted
  <2> QED BY <2>3 DEF x
<1> HIDE DEF w, v, new
<1>3. \A j \in 1 .. k : c[j] \in DOMAIN u
  BY <1>1
<1>4. \A j \in 1 .. k + 1 : d[j] = (IF j = 1 THEN new ELSE c[j - 1]) /\ d[j] \in DOMAIN v
  <2> TAKE j \in 1 .. k + 1
  <2>1. j # 1 => j - 1 \in 1 .. k
    OBVIOUS
  <2> QED BY <1>2, <1>3, <2>1
<1>5. d \in Seq(DOMAIN v) /\ Len(d) = k + 1 /\ DOMAIN d = 1 .. k + 1
  <2>1. k + 1 \in Nat /\ d = [j \in 1 .. k + 1 |-> d[j]]
    OBVIOUS
  <2> HIDE DEF d
  <2> QED BY <1>4, <2>1
<1> HIDE DEF d
<1>6. DOMAIN c = 1 .. k
  BY <1>1
<1>7. IsInjective(d)
  <2>1. ASSUME NEW i \in 1 .. k + 1, NEW j \in 1 .. k + 1, d[i] = d[j] PROVE i = j
    <3>1. i # 1 => i - 1 \in 1 .. k /\ c[i - 1] \in DOMAIN u
      BY <1>3
    <3>2. j # 1 => j - 1 \in 1 .. k /\ c[j - 1] \in DOMAIN u
      BY <1>3
    <3>3. i # 1 /\ j # 1 => i - 1 = j - 1
      BY <1>1, <1>4, <1>6, <2>1, <3>1, <3>2, SMTT(30) DEF IsInjective
    <3>4. i = 1 /\ j # 1 => FALSE
      BY <1>2, <1>4, <2>1, <3>2
    <3>5. i # 1 /\ j = 1 => FALSE
      BY <1>2, <1>4, <2>1, <3>1
    <3> QED BY <3>3, <3>4, <3>5
  <2> QED BY <1>5, <2>1, Zenon DEF IsInjective
<1>8. Range(d) = Range(c) \cup {new}
  <2>1. ASSUME NEW x \in Range(d) PROVE x \in Range(c) \cup {new}
    <3>1. PICK j \in 1 .. k + 1 : x = d[j]
      BY <1>5 DEF Range
    <3>2. j # 1 => j - 1 \in DOMAIN c
      BY <1>6
    <3> QED BY <1>4, <3>1, <3>2 DEF Range
  <2>2. new \in Range(d)
    <3>1. 1 \in 1 .. k + 1
      OBVIOUS
    <3> QED BY <1>4, <1>5, <3>1 DEF Range
  <2>3. ASSUME NEW x \in Range(c) PROVE x \in Range(d)
    <3>1. PICK j \in 1 .. k : x = c[j]
      BY <1>6 DEF Range
    <3>2. j + 1 \in 1 .. k + 1 /\ j + 1 # 1 /\ (j + 1) - 1 = j
      OBVIOUS
    <3>3. d[j + 1] = x
      BY <1>4, <3>1, <3>2
    <3> QED BY <1>5, <3>2, <3>3 DEF Range
  <2> QED BY <2>1, <2>2, <2>3
<1>9. DOMAIN v = DOMAIN t \cup Range(d) /\ Range(d) \cap DOMAIN t = {}
  BY <1>1, <1>2, <1>8
<1>10. \A r \in DOMAIN t : v[r] = t[r]
  BY <1>1, <1>2
<1>11. new = IF k + 1 = 0 THEN NoRid ELSE d[1]
  <2>1. 1 \in 1 .. k + 1 /\ k + 1 # 0
    OBVIOUS
  <2> QED BY <1>4, <2>1
<1>12. ASSUME NEW j \in 1 .. k + 1
       PROVE  v[d[j]] = [rid  |-> IF j = k + 1 THEN NoRid ELSE d[j + 1],
                         data |-> pieces[N - (k + 1) + j]]
  <2>1. CASE j = 1
    <3>1. d[j] = new /\ N - (k + 1) + j = N - k
      BY <1>4, <2>1
    <3>2. rid = IF j = k + 1 THEN NoRid ELSE d[j + 1]
      <4>1. k # 0 => 2 \in 1 .. k + 1 /\ d[2] = c[1]
        BY <1>4
      <4> QED BY <1>1, <2>1, <4>1
    <3> QED BY <1>2, <3>1, <3>2
  <2>2. CASE j # 1
    <3>1. j - 1 \in 1 .. k /\ N - k + (j - 1) = N - (k + 1) + j /\ (j - 1) + 1 = j
      BY <2>2
    <3>2. d[j] = c[j - 1] /\ v[d[j]] = u[c[j - 1]]
      BY <1>2, <1>3, <1>4, <2>2, <3>1
    <3>3. u[c[j - 1]] = [rid  |-> IF j - 1 = k THEN NoRid ELSE c[(j - 1) + 1],
                         data |-> pieces[N - k + (j - 1)]]
      BY <1>1, <3>1, Zenon
    <3>4. (IF j - 1 = k THEN NoRid ELSE c[(j - 1) + 1]) = IF j = k + 1 THEN NoRid ELSE d[j + 1]
      <4>1. j # k + 1 => j + 1 \in 1 .. k + 1 /\ j + 1 # 1 /\ (j + 1) - 1 = j
        OBVIOUS
      <4>2. j # k + 1 => d[j + 1] = c[j]
        BY <1>4, <4>1
      <4> QED BY <3>1, <4>2
    <3> QED BY <3>1, <3>2, <3>3, <3>4
  <2> QED BY <2>1, <2>2
<1>13. Wrote(t, v, new, pieces, k + 1, d)
  BY <1>2, <1>5, <1>7, <1>9, <1>10, <1>11, <1>12 DEF Wrote
<1> QED BY <1>13 DEF v, new, w

(* All pieces are written: chunks that were not in use, one for each of them. *)
LEMMA WritesChunks ==
  ASSUME NEW t, IsTable(t), NEW pieces, Len(pieces) \in Nat
  PROVE  LET w == WriteChunks(t, pieces)
         IN  \E c : Wrote(t, w.table, w.rid, pieces, Len(pieces), c)
<1> DEFINE N == Len(pieces)
           R == Nat \cup {NoRid}
           V == {t[r] : r \in DOMAIN t} \cup [rid : R, data : {pieces[j] : j \in Int}]
           T == UNION {[E -> V] : E \in SUBSET Nat}
           S == {w \in [table : T, rid : R] : IsTable(w.table)}
           first == [table |-> t, rid |-> NoRid]
           Item(w, k) == [rid |-> w.rid, data |-> pieces[N + 1 - k]]
           step == [m \in Nat |-> [w \in S |-> table_insert(w.table, Item(w, m + 1))]]
           Eq(g) == [k \in Nat |-> IF k = 0 THEN first
                                   ELSE table_insert(g[k - 1].table, Item(g[k - 1], k))]
           written == CHOOSE g : g = Eq(g)
<1>1. first \in S
  <2>1. t \in [DOMAIN t -> V] /\ DOMAIN t \in SUBSET Nat
    BY DEF IsTable
  <2>2. t \in T
    BY <2>1
  <2> HIDE DEF T
  <2> QED BY <2>2
<1>2. ASSUME NEW w \in S, NEW k \in Nat PROVE table_insert(w.table, Item(w, k)) \in S
  <2> DEFINE u == w.table
             x == Item(w, k)
             i == table_insert(u, x)
  <2>1. u \in T /\ w.rid \in R /\ IsTable(u)
    OBVIOUS
  <2>2. PICK E \in SUBSET Nat : u \in [E -> V]
    BY <2>1
  <2>3. x \in V
    <3>1. N + 1 - k \in Int
      OBVIOUS
    <3>2. x \in [rid : R, data : {pieces[j] : j \in Int}]
      BY <2>1, <3>1
    <3> QED BY <3>2
  <2> HIDE DEF u, x, V
  <2>4. /\ IsTable(i.table) /\ i.rid \in Nat \ {0}
        /\ DOMAIN i.table = DOMAIN u \cup {i.rid} /\ i.table[i.rid] = x
        /\ \A r \in DOMAIN u : i.table[r] = u[r]
    BY <2>1, Inserted
  <2>5. i = [table |-> i.table, rid |-> i.rid]
    BY DEF table_insert
  <2> HIDE DEF i
  <2>6. i.table \in T
    <3>1. \A r \in DOMAIN i.table : i.table[r] \in V
      BY <2>2, <2>3, <2>4
    <3>2. i.table \in [DOMAIN i.table -> V] /\ DOMAIN i.table \in SUBSET Nat
      BY <2>4, <3>1 DEF IsTable
    <3> QED BY <3>2
  <2> HIDE DEF T
  <2>7. i \in [table : T, rid : R]
    BY <2>4, <2>5, <2>6
  <2>8. i \in S
    BY <2>4, <2>7
  <2> QED BY <2>8 DEF i, u, x
<1> HIDE DEF S
<1>3. step \in [Nat -> [S -> S]]
  <2>1. \A m \in Nat : m + 1 \in Nat
    OBVIOUS
  <2>2. \A m \in Nat : \A w \in S : table_insert(w.table, Item(w, m + 1)) \in S
    BY <1>2, <2>1, Zenon
  <2> HIDE DEF Item
  <2> QED BY <2>2
<1>4. PICK f \in [Nat -> S] : f[0] = first /\ \A m \in Nat : f[m + 1] = step[m][f[m]]
  <2> HIDE DEF step, first
  <2>1. PICK f : Follows(f, S, first, step)
    BY <1>1, <1>3, Recursion, Zenon
  <2> QED BY <2>1 DEF Follows
<1>5. f = Eq(f)
  <2>1. \A k \in Nat : f[k] = IF k = 0 THEN first
                              ELSE table_insert(f[k - 1].table, Item(f[k - 1], k))
    <3> TAKE k \in Nat
    <3>1. CASE k = 0
      BY <1>4, <3>1
    <3>2. CASE k # 0
      <4>1. k - 1 \in Nat /\ k - 1 + 1 = k
        BY <3>2
      <4>2. f[k] = step[k - 1][f[k - 1]] /\ f[k - 1] \in S
        BY <1>4, <4>1
      <4> HIDE DEF Item
      <4>3. f[k] = table_insert(f[k - 1].table, Item(f[k - 1], k))
        BY <4>1, <4>2
      <4> QED BY <3>2, <4>3
    <3> QED BY <3>1, <3>2
  <2>2. f = [k \in Nat |-> f[k]]
    BY <1>4
  <2> HIDE DEF first, Item
  <2> QED BY <2>1, <2>2
<1>6. written = Eq(written)
  BY <1>5, Zenon
<1>7. WriteChunks(t, pieces) = written[N]
  BY DEF WriteChunks
<1> HIDE DEF written
<1>8. \A k \in Nat : written[k] = IF k = 0 THEN first
                                  ELSE table_insert(written[k - 1].table, Item(written[k - 1], k))
  <2> HIDE DEF first, Item
  <2> QED BY <1>6
<1> DEFINE P(k) == \E c : Wrote(t, written[k].table, written[k].rid, pieces, k, c)
           Bad == {k \in 0 .. N : ~P(k)}
<1>9. P(0)
  <2>1. written[0].table = t /\ written[0].rid = NoRid
    <3>1. written[0] = first
      BY <1>8, Zenon
    <3> QED BY <3>1
  <2>2. /\ <<>> \in Seq(DOMAIN t) /\ Len(<<>>) = 0 /\ IsInjective(<<>>) /\ Range(<<>>) = {}
    BY DEF IsInjective, Range
  <2>3. Wrote(t, t, NoRid, pieces, 0, <<>>)
    BY <2>2, SMTT(30) DEF Wrote
  <2> QED BY <2>1, <2>3
<1>10. ASSUME NEW k \in 0 .. N, k < N, P(k) PROVE P(k + 1)
  <2>1. PICK c : Wrote(t, written[k].table, written[k].rid, pieces, k, c)
    BY <1>10
  <2>2. k \in Nat /\ k + 1 \in Nat /\ k + 1 # 0 /\ (k + 1) - 1 = k /\ N + 1 - (k + 1) = N - k
    OBVIOUS
  <2>3. written[k + 1] = table_insert(written[k].table,
                                      [rid |-> written[k].rid, data |-> pieces[N - k]])
    <3>1. written[k + 1] = table_insert(written[(k + 1) - 1].table, Item(written[(k + 1) - 1], k + 1))
      BY <1>8, <2>2, Zenon
    <3> QED BY <2>2, <3>1
  <2>4. \E d : Wrote(t, written[k + 1].table, written[k + 1].rid, pieces, k + 1, d)
    BY <1>10, <2>1, <2>2, <2>3, WriteOne, Zenon
  <2> QED BY <2>4
<1> HIDE DEF P
<1>11. Bad = {}
  <2>1. SUFFICES ASSUME Bad # {} PROVE FALSE
    OBVIOUS
  <2>2. PICK m \in Bad : \A i \in Bad : m <= i
    <3>1. Bad \subseteq Nat
      OBVIOUS
    <3> HIDE DEF Bad
    <3> QED BY <2>1, <3>1, LeastNat
  <2>3. m - 1 \in 0 .. N /\ m - 1 < N /\ P(m - 1) /\ (m - 1) + 1 = m
    BY <1>9, <2>2
  <2>4. P((m - 1) + 1)
    BY <1>10, <2>3
  <2> QED BY <2>2, <2>3, <2>4
<1>12. P(N)
  BY <1>11
<1> QED BY <1>7, <1>12 DEF P

-----------------------------------------------------------------------------
(* Pieces that make up data. *)
Cut(pieces, data) ==
  /\ Len(pieces) \in Nat /\ Len(pieces) >= 1
  /\ (Len(pieces) - 1) * STR_CHUNK_MAX_LEN < Len(data)
  /\ Len(data) <= Len(pieces) * STR_CHUNK_MAX_LEN
  /\ \A j \in 1 .. Len(pieces) :
       LET from == (j - 1) * STR_CHUNK_MAX_LEN
           size == IF j = Len(pieces) THEN Len(data) - from ELSE STR_CHUNK_MAX_LEN
       IN  pieces[j] = [i \in 1 .. size |-> data[from + i]]

(* A string was written to t: u has it, in chunks of its own, and what t has. *)
Written(t, u, rid, data) ==
  /\ IsTable(u) /\ Spells(u, rid, data)
  /\ DOMAIN u = DOMAIN t \cup Range(Chain(u, rid))
  /\ Range(Chain(u, rid)) \cap DOMAIN t = {}
  /\ \A r \in DOMAIN t : u[r] = t[r]

(* Writing the pieces of a string writes the string. *)
LEMMA WritesCut ==
  ASSUME NEW t, IsTable(t), NEW data \in Texts, NEW pieces, Cut(pieces, data)
  PROVE  Written(t, WriteChunks(t, pieces).table, WriteChunks(t, pieces).rid, data)
<1> DEFINE w == WriteChunks(t, pieces)
           u == w.table
           n == Len(pieces)
<1>1. n \in Nat /\ n >= 1
  BY DEF Cut
<1>2. PICK c : Wrote(t, u, w.rid, pieces, n, c)
  BY <1>1, WritesChunks
<1> HIDE DEF w
<1>3. /\ IsTable(u) /\ c \in Seq(DOMAIN u) /\ Len(c) = n /\ IsInjective(c)
      /\ DOMAIN u = DOMAIN t \cup Range(c) /\ Range(c) \cap DOMAIN t = {}
      /\ \A r \in DOMAIN t : u[r] = t[r]
      /\ w.rid = c[1]
  BY <1>1, <1>2 DEF Wrote
<1>4. \A j \in 1 .. n : u[c[j]] = [rid |-> IF j = n THEN NoRid ELSE c[j + 1], data |-> pieces[j]]
  <2>1. \A j \in 1 .. n : n - n + j = j
    BY <1>1
  <2> QED BY <1>2, <2>1 DEF Wrote
<1>5. Linked(u, c, data)
  BY <1>1, <1>3, <1>4 DEF Linked, Cut
<1>6. Chain(u, w.rid) = c /\ Spells(u, w.rid, data)
  BY <1>3, <1>5, ChainIs
<1>7. Written(t, u, w.rid, data)
  BY <1>3, <1>6 DEF Written
<1> QED BY <1>7 DEF w

(* write_string cuts a string into full pieces and one that is not empty. *)
LEMMA CutsString ==
  ASSUME NEW data \in Texts
  PROVE  \E pieces : /\ Cut(pieces, data)
                     /\ \A t : write_string(t, data) = WriteChunks(t, pieces)
<1> DEFINE M == STR_CHUNK_MAX_LEN
           L == Len(data)
           extra == IF L % M = 0 THEN M ELSE L % M
           sum == (L - extra) \div M
           front == M + L - extra
           tail == SubSeq(InFront \o data, front + 1, front + extra)
           pieces == Pieces(data, sum, tail)
<1>1. M \in Nat /\ M >= 1 /\ L \in Nat /\ L >= 1 /\ data \in Seq(Int)
  BY StrAssumption DEF Texts
<1>2. InFront \in Seq(Int) /\ Len(InFront) = M
  BY StrAssumption
<1> HIDE DEF M, L
<1>3. PICK q \in Nat : L = (q * M) + (L % M)
  <2>1. L = (M * (L \div M)) + (L % M) /\ L \div M \in Nat
    BY <1>1
  <2>2. M * (L \div M) = (L \div M) * M
    BY <1>1, <2>1
  <2> QED BY <2>1, <2>2
<1>4. L % M \in 0 .. M - 1
  BY <1>1
<1>5. extra \in 1 .. M /\ sum \in Nat /\ L - extra = sum * M
  <2>0. \A p \in Nat : (M * p) \div M = p /\ M * p = p * M
    BY <1>1
  <2>1. CASE L % M = 0
    <3>1. extra = M /\ extra \in 1 .. M
      BY <1>1, <2>1
    <3>2. q >= 1
      BY <1>1, <1>3, <2>1
    <3> HIDE DEF extra
    <3>3. L - extra = M * (q - 1) /\ q - 1 \in Nat
      BY <1>1, <1>3, <2>1, <3>1, <3>2
    <3>4. sum = q - 1
      BY <2>0, <3>3
    <3> QED BY <2>0, <3>1, <3>3, <3>4
  <2>2. CASE L % M # 0
    <3>1. extra = L % M /\ extra \in 1 .. M
      BY <1>1, <1>4, <2>2
    <3> HIDE DEF extra
    <3>2. L - extra = M * q
      BY <1>1, <1>3, <1>4, <3>1
    <3>3. sum = q
      BY <2>0, <3>2
    <3> QED BY <2>0, <3>1, <3>2, <3>3
  <2> QED BY <2>1, <2>2
<1> HIDE DEF extra, sum
<1> DEFINE Cutting(j) == IF j = sum + 1 THEN tail ELSE SubSeq(data, (j - 1) * M + 1, j * M)
<1>6. pieces = [j \in 1 .. sum + 1 |-> Cutting(j)]
  BY <1>5 DEF Pieces, M
<1>7. Len(pieces) = sum + 1 /\ \A j \in 1 .. sum + 1 : pieces[j] = Cutting(j)
  <2> HIDE DEF Cutting, pieces
  <2>1. pieces \in Seq({Cutting(j) : j \in 1 .. sum + 1})
    BY <1>5, <1>6
  <2> QED BY <1>5, <1>6, <2>1
<1> HIDE DEF pieces
<1>8. tail = [i \in 1 .. extra |-> data[sum * M + i]]
  <2> DEFINE all == InFront \o data
  <2>1. all \in Seq(Int) /\ Len(all) = M + L /\ \A i \in 1 .. L : all[M + i] = data[i]
    <3>1. /\ all \in Seq(Int) /\ Len(all) = Len(InFront) + Len(data)
          /\ \A i \in 1 .. Len(InFront) + Len(data) :
               all[i] = IF i <= Len(InFront) THEN InFront[i] ELSE data[i - Len(InFront)]
      BY <1>1, <1>2, ConcatProperties, Zenon
    <3> HIDE DEF all
    <3>2. ASSUME NEW i \in 1 .. L PROVE all[M + i] = data[i]
      <4>1. M + i \in 1 .. M + L /\ ~(M + i <= M) /\ (M + i) - M = i
        BY <1>1
      <4> QED BY <1>2, <3>1, <4>1 DEF L
    <3> QED BY <1>2, <3>1, <3>2 DEF L
  <2>2. front = M + sum * M /\ sum * M \in Nat /\ sum * M + extra = L
    BY <1>1, <1>5
  <2> HIDE DEF all
  <2>3. tail = [i \in 1 .. extra |-> all[front + i]]
    BY <1>1, <1>5, <2>1, <2>2 DEF all
  <2>4. ASSUME NEW i \in 1 .. extra PROVE all[front + i] = data[sum * M + i]
    <3>1. sum * M + i \in 1 .. L /\ front + i = M + (sum * M + i)
      BY <1>1, <1>5, <2>2
    <3> QED BY <2>1, <3>1
  <2> QED BY <2>3, <2>4
<1> HIDE DEF tail
<1>9. ASSUME NEW j \in 1 .. sum
      PROVE  SubSeq(data, (j - 1) * M + 1, j * M) = [i \in 1 .. M |-> data[(j - 1) * M + i]]
  <2>1. /\ (j - 1) * M \in Nat /\ j * M = (j - 1) * M + M
        /\ (j - 1) * M + M <= L
    BY <1>1, <1>5
  <2> QED BY <1>1, <2>1
<1>10. Cut(pieces, data)
  <2>1. sum * M < L /\ L <= (sum + 1) * M /\ L - sum * M = extra
    BY <1>1, <1>5
  <2>2. ASSUME NEW j \in 1 .. sum + 1
        PROVE  LET from == (j - 1) * M
                   size == IF j = sum + 1 THEN L - from ELSE M
               IN  pieces[j] = [i \in 1 .. size |-> data[from + i]]
    <3>1. CASE j = sum + 1
      BY <1>5, <1>7, <1>8, <2>1, <3>1
    <3>2. CASE j # sum + 1
      <4>1. j \in 1 .. sum
        BY <1>5, <3>2
      <4> QED BY <1>7, <1>9, <3>2, <4>1
    <3> QED BY <3>1, <3>2
  <2>3. Len(pieces) \in Nat /\ Len(pieces) >= 1 /\ Len(pieces) - 1 = sum
    BY <1>5, <1>7
  <2> QED BY <1>7, <2>1, <2>2, <2>3 DEF Cut, M, L
<1>11. \A t : write_string(t, data) = WriteChunks(t, pieces)
  BY DEF write_string, pieces, tail, M, L, extra, sum
<1> QED BY <1>10, <1>11

(* A string is written in chunks of its own and reads back. *)
LEMMA WritesString ==
  ASSUME NEW t, IsTable(t), NEW data \in Texts
  PROVE  Written(t, write_string(t, data).table, write_string(t, data).rid, data)
<1>1. PICK pieces : Cut(pieces, data) /\ \A u : write_string(u, data) = WriteChunks(u, pieces)
  BY CutsString
<1>2. write_string(t, data) = WriteChunks(t, pieces)
  BY <1>1
<1>3. Written(t, WriteChunks(t, pieces).table, WriteChunks(t, pieces).rid, data)
  BY <1>1, WritesCut, Zenon
<1> QED BY <1>2, <1>3, Zenon

(* u is t without the items in xs. *)
IsRest(u, t, xs) == IsTable(u) /\ DOMAIN u = DOMAIN t \ xs /\ \A r \in DOMAIN u : u[r] = t[r]

(* A string is deleted with its chunks, and nothing else is. *)
LEMMA DeletesString ==
  ASSUME NEW t, IsTable(t), NEW rid
  PROVE  IsRest(delete_string(t, rid), t, Range(Chain(t, rid)))
BY Removed DEF delete_string, IsRest

(* u has the items xs of t, and a string of t. *)
Has(u, t, xs) == \A x \in xs : x \in DOMAIN u /\ u[x] = t[x]
SameString(u, t, rid, data) == Chain(u, rid) = Chain(t, rid) /\ Spells(u, rid, data)

(* A string stays where its chunks are. *)
LEMMA StringStays ==
  ASSUME NEW t, IsTable(t), NEW u, IsTable(u), NEW data, data \in Texts, NEW rid,
         Spells(t, rid, data), Has(u, t, Range(Chain(t, rid)))
  PROVE  SameString(u, t, rid, data)
<1>1. \A x \in Range(Chain(t, rid)) : x \in DOMAIN u /\ u[x] = t[x]
  BY Zenon DEF Has
<1> QED BY <1>1, StringKept, Zenon DEF SameString

(* There is no chunk where there is no string. *)
LEMMA NoChain ==
  ASSUME NEW t
  PROVE  Chain(t, NoRid) = <<>> /\ Range(Chain(t, NoRid)) = {}
<1> DEFINE Link(g) == [i \in Nat |-> IF i = 0 THEN NoRid
                                     ELSE IF g[i - 1] = NoRid THEN NoRid ELSE t[g[i - 1]].rid]
           f == [i \in Nat |-> NoRid]
           link == CHOOSE g : g = Link(g)
           m == CHOOSE i \in 0 .. MAX_STR_LEN :
                  link[i] = NoRid /\ \A j \in 0 .. i - 1 : ~(link[j] = NoRid)
<1>1. f = Link(f)
  <2>1. \A i \in Nat \ {0} : f[i - 1] = NoRid
    OBVIOUS
  <2> QED BY <2>1
<1>2. link = Link(link)
  <2> HIDE DEF f
  <2> QED BY <1>1, Zenon
<1> HIDE DEF link
<1>3. link[0] = NoRid
  BY <1>2
<1>4. MAX_STR_LEN \in Nat
  BY StrAssumption
<1>5. m = 0
  <2>1. 0 \in 0 .. MAX_STR_LEN /\ link[0] = NoRid /\ \A j \in 0 .. 0 - 1 : ~(link[j] = NoRid)
    BY <1>3, <1>4
  <2>2. ASSUME NEW i \in 0 .. MAX_STR_LEN, link[i] = NoRid, \A j \in 0 .. i - 1 : ~(link[j] = NoRid)
        PROVE  i = 0
    BY <1>3, <2>2
  <2> QED BY <2>1, <2>2
<1>6. Chain(t, NoRid) = [i \in 1 .. m |-> link[i - 1]]
  BY DEF Chain, First, link
<1> HIDE DEF m
<1>7. Chain(t, NoRid) = <<>>
  <2>1. Chain(t, NoRid) = [i \in {} |-> link[i - 1]]
    BY <1>5, <1>6
  <2> QED BY <2>1
<1> QED BY <1>7 DEF Range

(* insert_handler writes the key again in the pieces it has. *)
LEMMA CutsKey ==
  ASSUME NEW h, NEW r, NEW data \in Texts, IsTable(h.str), Spells(h.str, h.rec[r].key, data)
  PROVE  Cut(KeyPieces(h, r), data)
<1> DEFINE c == Chain(h.str, h.rec[r].key)
           p == KeyPieces(h, r)
<1>1. Linked(h.str, c, data)
  BY DEF Spells
<1>2. p = [i \in DOMAIN c |-> h.str[c[i]].data]
  BY DEF KeyPieces
<1> HIDE DEF c, p
<1>3. Len(c) \in Nat /\ Len(c) >= 1 /\ DOMAIN c = 1 .. Len(c)
  BY <1>1, ChunkFacts DEF Linked
<1>4. Len(p) = Len(c) /\ \A i \in 1 .. Len(c) : p[i] = h.str[c[i]].data
  <2>1. p \in Seq({h.str[c[i]].data : i \in 1 .. Len(c)})
    BY <1>2, <1>3
  <2> QED BY <1>2, <1>3, <2>1
<1> DEFINE Part(j) == LET from == (j - 1) * STR_CHUNK_MAX_LEN
                          size == IF j = Len(c) THEN Len(data) - from ELSE STR_CHUNK_MAX_LEN
                      IN  [i \in 1 .. size |-> data[from + i]]
<1>5. \A j \in 1 .. Len(c) : h.str[c[j]] = [rid  |-> IF j = Len(c) THEN NoRid ELSE c[j + 1],
                                           data |-> Part(j)]
  BY <1>1, Zenon DEF Linked
<1> HIDE DEF Part
<1>6. ASSUME NEW j \in 1 .. Len(c) PROVE p[j] = Part(j)
  <2>1. PICK x, y : x = h.str[c[j]] /\ x = [rid |-> y, data |-> Part(j)]
    BY <1>5, Zenon
  <2>2. x.data = Part(j)
    BY <2>1
  <2> QED BY <1>4, <2>1, <2>2
<1>7. /\ (Len(c) - 1) * STR_CHUNK_MAX_LEN < Len(data)
      /\ Len(data) <= Len(c) * STR_CHUNK_MAX_LEN
  BY <1>1 DEF Linked
<1>8. Cut(p, data)
  BY <1>3, <1>4, <1>6, <1>7, Zenon DEF Cut, Part
<1> QED BY <1>8 DEF p

-----------------------------------------------------------------------------
(* The strings that are used are not empty and fit. *)
StringsFit == Key \subseteq Texts /\ Value \subseteq Texts

(* The value of a record; a record with a key, one with a value. *)
Val(h, r) == load_string(h.str, ValueString(h, r), MAX_STR_LEN)
KeyOK(h, r) == Text(h, r) \in Key /\ Spells(h.str, h.rec[r].key, Text(h, r))
ValueOK(h, r) == Val(h, r) \in Value /\ Spells(h.str, h.rec[r].value, Val(h, r))
KC(h, r) == Range(KeyChain(h, r))
VC(h, r) == Range(ValueChain(h, r))

(* Record s of g and record r of h point to the same key or value, have the
   same, in the same chunks. *)
KeyAt(g, s, h, r) == g.rec[s].key = h.rec[r].key
ValueAt(g, s, h, r) == g.rec[s].value = h.rec[r].value
SameKey(g, s, h, r) == Text(g, s) = Text(h, r) /\ KeyChain(g, s) = KeyChain(h, r)
SameValue(g, s, h, r) == Val(g, s) = Val(h, r) /\ ValueChain(g, s) = ValueChain(h, r)

(* The chunks in xs are in g as they are in h. *)
Keeps(g, h, xs) == \A x \in xs : x \in DOMAIN g.str /\ g.str[x] = h.str[x]

(* A record has the key that is spelt where it says, *)
LEMMA KeyIs ==
  ASSUME StringsFit, NEW h, IsTable(h.str), NEW r, NEW k \in Key, Spells(h.str, h.rec[r].key, k)
  PROVE  Text(h, r) = k /\ KeyOK(h, r)
<1>1. k \in Texts
  BY DEF StringsFit
<1>2. load_string(h.str, read_string(h.str, h.rec[r].key), MAX_STR_LEN) = k
  BY <1>1, LoadsString, Zenon
<1> QED BY <1>2, Zenon DEF Text, KeyString, KeyOK

(* and the value. *)
LEMMA ValueIs ==
  ASSUME StringsFit, NEW h, IsTable(h.str), NEW r, NEW v \in Value, Spells(h.str, h.rec[r].value, v)
  PROVE  Val(h, r) = v /\ ValueOK(h, r)
<1>1. v \in Texts
  BY DEF StringsFit
<1>2. load_string(h.str, read_string(h.str, h.rec[r].value), MAX_STR_LEN) = v
  BY <1>1, LoadsString, Zenon
<1> QED BY <1>2, Zenon DEF Val, ValueString, ValueOK

(* A key is kept with its chunks, whichever record points to it, *)
LEMMA KeyKept ==
  ASSUME StringsFit, NEW h, NEW g, IsTable(h.str), IsTable(g.str), NEW r, NEW s, KeyOK(h, r),
         KeyAt(g, s, h, r), Keeps(g, h, KC(h, r))
  PROVE  KeyOK(g, s) /\ SameKey(g, s, h, r)
<1> DEFINE rid == h.rec[r].key
           k == Text(h, r)
<1>1. k \in Key /\ k \in Texts /\ Spells(h.str, rid, k)
  BY DEF StringsFit, KeyOK
<1>2. \A x \in Range(Chain(h.str, rid)) : x \in DOMAIN g.str /\ g.str[x] = h.str[x]
  BY Zenon DEF Keeps, KC, KeyChain
<1> HIDE DEF k
<1>3. Chain(g.str, rid) = Chain(h.str, rid) /\ Spells(g.str, rid, k)
  BY <1>1, <1>2, StringKept, Zenon
<1>4. Spells(g.str, g.rec[s].key, k) /\ g.rec[s].key = rid
  BY <1>3, Zenon DEF KeyAt
<1>5. Text(g, s) = k /\ KeyOK(g, s)
  BY <1>1, <1>4, KeyIs, Zenon
<1> QED BY <1>3, <1>4, <1>5, Zenon DEF SameKey, KeyChain, k

(* and so is a value. *)
LEMMA ValueKept ==
  ASSUME StringsFit, NEW h, NEW g, IsTable(h.str), IsTable(g.str), NEW r, NEW s, ValueOK(h, r),
         ValueAt(g, s, h, r), Keeps(g, h, VC(h, r))
  PROVE  ValueOK(g, s) /\ SameValue(g, s, h, r)
<1> DEFINE rid == h.rec[r].value
           v == Val(h, r)
<1>1. v \in Value /\ v \in Texts /\ Spells(h.str, rid, v)
  BY DEF StringsFit, ValueOK
<1>2. \A x \in Range(Chain(h.str, rid)) : x \in DOMAIN g.str /\ g.str[x] = h.str[x]
  BY Zenon DEF Keeps, VC, ValueChain
<1> HIDE DEF v
<1>3. Chain(g.str, rid) = Chain(h.str, rid) /\ Spells(g.str, rid, v)
  BY <1>1, <1>2, StringKept, Zenon
<1>4. Spells(g.str, g.rec[s].value, v) /\ g.rec[s].value = rid
  BY <1>3, Zenon DEF ValueAt
<1>5. Val(g, s) = v /\ ValueOK(g, s)
  BY <1>1, <1>4, ValueIs, Zenon
<1> QED BY <1>3, <1>4, <1>5, Zenon DEF SameValue, ValueChain, v

(* A record with a key and a value, and one of the index. *)
RowOK(h, r) ==
  /\ h.rec[r] = [key |-> h.rec[r].key, value |-> h.rec[r].value]
  /\ KeyOK(h, r) /\ ValueOK(h, r) /\ KC(h, r) \cap VC(h, r) = {}
CopyOK(h, r) == h.rec[r] = [key |-> h.rec[r].key, value |-> NoRid] /\ KeyOK(h, r)

(* The heap of the store: rows with different keys, copies, and no chunk that
   is shared or belongs to no string. *)
Sound(h, R, C) ==
  /\ IsTable(h.rec) /\ IsTable(h.str)
  /\ R \cap C = {} /\ R \cup C = DOMAIN h.rec
  /\ \A r \in R : RowOK(h, r)
  /\ \A r \in C : CopyOK(h, r)
  /\ \A r \in DOMAIN h.rec, s \in DOMAIN h.rec : r # s => Chunks(h, r) \cap Chunks(h, s) = {}
  /\ \A x \in DOMAIN h.str : \E r \in DOMAIN h.rec : x \in Chunks(h, r)
  /\ \A r \in R, s \in R : Text(h, r) = Text(h, s) => r = s

(* What the rows of a heap say. *)
Pairs(h, R) == {<<Text(h, r), Val(h, r)>> : r \in R}

(* Record s of g is the record r of h, and the row or copy it was. *)
RecAt(g, s, h, r) == g.rec[s] = h.rec[r]
SameRow(g, s, h, r) ==
  Text(g, s) = Text(h, r) /\ Val(g, s) = Val(h, r) /\ Chunks(g, s) = Chunks(h, r)
SameCopy(g, h, r) == Text(g, r) = Text(h, r) /\ Chunks(g, r) = Chunks(h, r)

(* A row is kept with its chunks, *)
LEMMA RowKept ==
  ASSUME StringsFit, NEW h, NEW g, IsTable(h.str), IsTable(g.str), NEW r, NEW s, RowOK(h, r),
         RecAt(g, s, h, r), Keeps(g, h, Chunks(h, r))
  PROVE  RowOK(g, s) /\ SameRow(g, s, h, r)
<1>1. Keeps(g, h, KC(h, r)) /\ Keeps(g, h, VC(h, r))
  BY Zenon DEF Keeps, Chunks, KC, VC
<1>2. /\ KeyOK(h, r) /\ ValueOK(h, r) /\ KC(h, r) \cap VC(h, r) = {}
      /\ KeyAt(g, s, h, r) /\ ValueAt(g, s, h, r)
  BY Zenon DEF RowOK, RecAt, KeyAt, ValueAt
<1>3. KeyOK(g, s) /\ SameKey(g, s, h, r)
  BY <1>1, <1>2, KeyKept, Zenon
<1>4. ValueOK(g, s) /\ SameValue(g, s, h, r)
  BY <1>1, <1>2, ValueKept, Zenon
<1>5. KC(g, s) \cap VC(g, s) = {} /\ Chunks(g, s) = Chunks(h, r)
  BY <1>2, <1>3, <1>4, Zenon DEF KC, VC, Chunks, SameKey, SameValue
<1>6. g.rec[s] = [key |-> g.rec[s].key, value |-> g.rec[s].value]
  BY Zenon DEF RowOK, RecAt
<1> QED BY <1>3, <1>4, <1>5, <1>6, Zenon DEF RowOK, SameRow, SameKey, SameValue

(* and so is a copy. *)
LEMMA CopyKept ==
  ASSUME StringsFit, NEW h, NEW g, IsTable(h.str), IsTable(g.str), NEW r, CopyOK(h, r),
         RecAt(g, r, h, r), Keeps(g, h, Chunks(h, r))
  PROVE  CopyOK(g, r) /\ SameCopy(g, h, r)
<1>1. Keeps(g, h, KC(h, r))
  BY Zenon DEF Keeps, Chunks, KC
<1>2. KeyOK(h, r) /\ KeyAt(g, r, h, r)
  BY Zenon DEF CopyOK, RecAt, KeyAt
<1>3. KeyOK(g, r) /\ SameKey(g, r, h, r)
  BY <1>1, <1>2, KeyKept, Zenon
<1>4. h.rec[r].value = NoRid /\ g.rec[r].value = NoRid
  <2>1. PICK x : x = h.rec[r] /\ x = [key |-> x.key, value |-> NoRid]
    BY Zenon DEF CopyOK
  <2>2. x.value = NoRid
    BY <2>1
  <2> QED BY <2>1, <2>2, Zenon DEF RecAt
<1>5. ValueChain(g, r) = <<>> /\ ValueChain(h, r) = <<>>
  BY <1>4, NoChain, Zenon DEF ValueChain
<1>6. Chunks(g, r) = Chunks(h, r)
  BY <1>3, <1>5, Zenon DEF Chunks, SameKey
<1> QED BY <1>3, <1>6, Zenon DEF CopyOK, SameCopy, RecAt, SameKey

(* The chunks of a row are in use, *)
LEMMA RowChunks ==
  ASSUME StringsFit, NEW h, IsTable(h.str), NEW r, RowOK(h, r)
  PROVE  Chunks(h, r) \subseteq DOMAIN h.str /\ Chunks(h, r) = KC(h, r) \cup VC(h, r)
<1>1. /\ Text(h, r) \in Texts /\ Spells(h.str, h.rec[r].key, Text(h, r))
      /\ Val(h, r) \in Texts /\ Spells(h.str, h.rec[r].value, Val(h, r))
  BY Zenon DEF StringsFit, RowOK, KeyOK, ValueOK
<1>2. /\ Range(Chain(h.str, h.rec[r].key)) \subseteq DOMAIN h.str
      /\ Range(Chain(h.str, h.rec[r].value)) \subseteq DOMAIN h.str
  BY <1>1, StringChunks, Zenon
<1> QED BY <1>2, Zenon DEF Chunks, KC, VC, KeyChain, ValueChain

(* and those of a copy, which has no others than its key's. *)
LEMMA CopyChunks ==
  ASSUME StringsFit, NEW h, IsTable(h.str), NEW r, CopyOK(h, r)
  PROVE  /\ Chunks(h, r) \subseteq DOMAIN h.str /\ Chunks(h, r) = KC(h, r)
         /\ ValueChain(h, r) = <<>>
<1>1. /\ Text(h, r) \in Texts /\ Spells(h.str, h.rec[r].key, Text(h, r))
  BY Zenon DEF StringsFit, CopyOK, KeyOK
<1>2. /\ Range(Chain(h.str, h.rec[r].key)) \subseteq DOMAIN h.str
  BY <1>1, StringChunks, Zenon
<1>3. h.rec[r].value = NoRid
  <2>1. PICK x : x = h.rec[r] /\ x = [key |-> x.key, value |-> NoRid]
    BY Zenon DEF CopyOK
  <2>2. x.value = NoRid
    BY <2>1
  <2> QED BY <2>1, <2>2, Zenon
<1>4. ValueChain(h, r) = <<>> /\ Range(ValueChain(h, r)) = {}
  BY <1>3, NoChain, Zenon DEF ValueChain
<1> QED BY <1>2, <1>4, Zenon DEF Chunks, KC, KeyChain

(* All chunks of a record are in use. *)
LEMMA ChunksInUse ==
  ASSUME StringsFit, NEW h, NEW R, NEW C, Sound(h, R, C), NEW r \in DOMAIN h.rec
  PROVE  Chunks(h, r) \subseteq DOMAIN h.str
<1>1. IsTable(h.str)
  BY Zenon DEF Sound
<1>2. RowOK(h, r) \/ CopyOK(h, r)
  BY Zenon DEF Sound
<1> QED BY <1>1, <1>2, RowChunks, CopyChunks, Zenon

-----------------------------------------------------------------------------
(* The records in rs are in g as they are in h, with their chunks. *)
KeepsAll(g, h, rs) == \A r \in rs : RecAt(g, r, h, r) /\ Keeps(g, h, Chunks(h, r))

(* The records of a sound heap that are kept are what they were. *)
LEMMA RecordsKept ==
  ASSUME StringsFit, NEW h, NEW R, NEW C, Sound(h, R, C), NEW g, IsTable(g.str),
         NEW rs, rs \subseteq DOMAIN h.rec, KeepsAll(g, h, rs)
  PROVE  /\ \A r \in R \cap rs : RowOK(g, r) /\ SameRow(g, r, h, r)
         /\ \A r \in C \cap rs : CopyOK(g, r)
         /\ \A r \in rs : SameCopy(g, h, r)
<1>1. IsTable(h.str) /\ R \cup C = DOMAIN h.rec
  BY Zenon DEF Sound
<1>2. \A r \in rs : RecAt(g, r, h, r) /\ Keeps(g, h, Chunks(h, r))
  BY Zenon DEF KeepsAll
<1>3. ASSUME NEW r \in R \cap rs PROVE RowOK(g, r) /\ SameRow(g, r, h, r)
  <2>1. RowOK(h, r)
    BY Zenon DEF Sound
  <2> QED BY <1>1, <1>2, <2>1, RowKept, Zenon
<1>4. ASSUME NEW r \in C \cap rs PROVE CopyOK(g, r) /\ SameCopy(g, h, r)
  <2>1. CopyOK(h, r)
    BY Zenon DEF Sound
  <2> QED BY <1>1, <1>2, <2>1, CopyKept, Zenon
<1>5. \A r \in R \cap rs : SameCopy(g, h, r)
  BY <1>3, Zenon DEF SameRow, SameCopy
<1> QED BY <1>1, <1>3, <1>4, <1>5, Zenon

(* g has the row new and what h has; that row is <<k, v>>. *)
AddsRow(g, h, new) ==
  /\ IsTable(g.rec) /\ IsTable(g.str)
  /\ new \notin DOMAIN h.rec /\ DOMAIN g.rec = DOMAIN h.rec \cup {new}
  /\ KeepsAll(g, h, DOMAIN h.rec) /\ RowOK(g, new)
  /\ Chunks(g, new) \cap DOMAIN h.str = {} /\ DOMAIN g.str = DOMAIN h.str \cup Chunks(g, new)
IsNot(h, R, k) == \A r \in R : Text(h, r) # k
PairAdded(g, S, h, R, k, v) == Pairs(g, S) = Pairs(h, R) \cup {<<k, v>>}

(* A row that is new. *)
LEMMA RowAdded ==
  ASSUME StringsFit, NEW h, NEW R, NEW C, Sound(h, R, C), NEW g, NEW new, AddsRow(g, h, new),
         IsNot(h, R, Text(g, new))
  PROVE  Sound(g, R \cup {new}, C) /\ PairAdded(g, R \cup {new}, h, R, Text(g, new), Val(g, new))
<1>0. /\ IsTable(g.rec) /\ IsTable(g.str)
      /\ new \notin DOMAIN h.rec /\ DOMAIN g.rec = DOMAIN h.rec \cup {new}
      /\ KeepsAll(g, h, DOMAIN h.rec) /\ RowOK(g, new)
      /\ Chunks(g, new) \cap DOMAIN h.str = {} /\ DOMAIN g.str = DOMAIN h.str \cup Chunks(g, new)
      /\ \A r \in R : Text(h, r) # Text(g, new)
  BY Zenon DEF AddsRow, IsNot
<1>1. /\ R \cap C = {} /\ R \cup C = DOMAIN h.rec
      /\ \A r \in DOMAIN h.rec, s \in DOMAIN h.rec : r # s => Chunks(h, r) \cap Chunks(h, s) = {}
      /\ \A x \in DOMAIN h.str : \E r \in DOMAIN h.rec : x \in Chunks(h, r)
      /\ \A r \in R, s \in R : Text(h, r) = Text(h, s) => r = s
  BY Zenon DEF Sound
<1>2. /\ \A r \in R : RowOK(g, r) /\ SameRow(g, r, h, r)
      /\ \A r \in C : CopyOK(g, r)
      /\ \A r \in DOMAIN h.rec : SameCopy(g, h, r)
  BY <1>0, <1>1, RecordsKept
<1>3. \A r \in DOMAIN h.rec : Chunks(h, r) \subseteq DOMAIN h.str /\ Chunks(g, r) = Chunks(h, r)
  BY <1>2, ChunksInUse, Zenon DEF SameCopy
<1>4. \A r \in R : Text(g, r) = Text(h, r) /\ Val(g, r) = Val(h, r)
  BY <1>2, Zenon DEF SameRow
<1>5. \A r \in DOMAIN g.rec, s \in DOMAIN g.rec : r # s => Chunks(g, r) \cap Chunks(g, s) = {}
  BY <1>0, <1>1, <1>3
<1>6. \A x \in DOMAIN g.str : \E r \in DOMAIN g.rec : x \in Chunks(g, r)
  BY <1>0, <1>1, <1>3
<1>7. \A r \in R \cup {new}, s \in R \cup {new} : Text(g, r) = Text(g, s) => r = s
  BY <1>0, <1>1, <1>4
<1>8. \A r \in R \cup {new} : RowOK(g, r)
  BY <1>0, <1>2
<1>9. (R \cup {new}) \cap C = {} /\ (R \cup {new}) \cup C = DOMAIN g.rec
  BY <1>0, <1>1
<1>10. Sound(g, R \cup {new}, C)
  BY <1>0, <1>2, <1>5, <1>6, <1>7, <1>8, <1>9, Zenon DEF Sound
<1>11. Pairs(g, R \cup {new}) = Pairs(h, R) \cup {<<Text(g, new), Val(g, new)>>}
  BY <1>4 DEF Pairs
<1> QED BY <1>10, <1>11, Zenon DEF PairAdded

(* g has what h has without the row old; no row has the key k any more. *)
DropsRow(g, h, old) ==
  /\ IsTable(g.rec) /\ IsTable(g.str)
  /\ DOMAIN g.rec = DOMAIN h.rec \ {old} /\ DOMAIN g.str = DOMAIN h.str \ Chunks(h, old)
  /\ KeepsAll(g, h, DOMAIN h.rec \ {old})
PairGone(g, S, h, R, k) == Pairs(g, S) = {p \in Pairs(h, R) : p[1] # k}

(* A row that is gone. *)
LEMMA RowRemoved ==
  ASSUME StringsFit, NEW h, NEW R, NEW C, Sound(h, R, C), NEW g, NEW old, old \in R,
         DropsRow(g, h, old)
  PROVE  /\ Sound(g, R \ {old}, C) /\ PairGone(g, R \ {old}, h, R, Text(h, old))
         /\ IsNot(g, R \ {old}, Text(h, old))
<1>0. /\ IsTable(g.rec) /\ IsTable(g.str)
      /\ DOMAIN g.rec = DOMAIN h.rec \ {old} /\ DOMAIN g.str = DOMAIN h.str \ Chunks(h, old)
      /\ KeepsAll(g, h, DOMAIN h.rec \ {old})
  BY Zenon DEF DropsRow
<1>1. /\ R \cap C = {} /\ R \cup C = DOMAIN h.rec
      /\ \A r \in DOMAIN h.rec, s \in DOMAIN h.rec : r # s => Chunks(h, r) \cap Chunks(h, s) = {}
      /\ \A x \in DOMAIN h.str : \E r \in DOMAIN h.rec : x \in Chunks(h, r)
      /\ \A r \in R, s \in R : Text(h, r) = Text(h, s) => r = s
  BY Zenon DEF Sound
<1> DEFINE rs == DOMAIN h.rec \ {old}
<1>2. /\ \A r \in R \ {old} : RowOK(g, r) /\ SameRow(g, r, h, r)
      /\ \A r \in C : CopyOK(g, r)
      /\ \A r \in rs : SameCopy(g, h, r)
  <2>1. R \cap rs = R \ {old} /\ C \cap rs = C /\ rs \subseteq DOMAIN h.rec
    BY <1>1
  <2> HIDE DEF rs
  <2>2. KeepsAll(g, h, rs)
    BY <1>0 DEF rs
  <2>3. IsTable(g.str)
    BY <1>0
  <2>4. /\ \A r \in R \cap rs : RowOK(g, r) /\ SameRow(g, r, h, r)
        /\ \A r \in C \cap rs : CopyOK(g, r)
        /\ \A r \in rs : SameCopy(g, h, r)
    BY <2>1, <2>2, <2>3, RecordsKept
  <2> QED BY <2>1, <2>4
<1>3. \A r \in rs : Chunks(g, r) = Chunks(h, r)
  BY <1>2, Zenon DEF SameCopy
<1>4. \A r \in R \ {old} : Text(g, r) = Text(h, r) /\ Val(g, r) = Val(h, r)
  BY <1>2, Zenon DEF SameRow
<1>5. \A r \in DOMAIN g.rec, s \in DOMAIN g.rec : r # s => Chunks(g, r) \cap Chunks(g, s) = {}
  BY <1>0, <1>1, <1>3
<1>6. \A x \in DOMAIN g.str : \E r \in DOMAIN g.rec : x \in Chunks(g, r)
  BY <1>0, <1>1, <1>3
<1>7. \A r \in R \ {old}, s \in R \ {old} : Text(g, r) = Text(g, s) => r = s
  BY <1>0, <1>1, <1>4
<1>8. (R \ {old}) \cap C = {} /\ (R \ {old}) \cup C = DOMAIN g.rec
  BY <1>0, <1>1
<1>9. Sound(g, R \ {old}, C)
  BY <1>0, <1>2, <1>5, <1>6, <1>7, <1>8, Zenon DEF Sound
<1>10. Pairs(g, R \ {old}) = {p \in Pairs(h, R) : p[1] # Text(h, old)}
  BY <1>1, <1>4 DEF Pairs
<1>11. IsNot(g, R \ {old}, Text(h, old))
  BY <1>1, <1>4 DEF IsNot
<1> QED BY <1>9, <1>10, <1>11, Zenon DEF PairGone

(* The chunks of copies. *)
CC(h, C) == UNION {KC(h, r) : r \in C}

(* g has other copies than h, and the same otherwise. *)
Swapped(h, C, g, E) ==
  /\ IsTable(g.rec) /\ IsTable(g.str) /\ CopiesTidy(g, E)
  /\ DOMAIN g.rec \ E = DOMAIN h.rec \ C
  /\ \A r \in DOMAIN h.rec \ C : RecAt(g, r, h, r)
  /\ DOMAIN g.str \ CC(g, E) = DOMAIN h.str \ CC(h, C)
  /\ Keeps(g, h, DOMAIN h.str \ CC(h, C))

(* That is what NotCopied compares. *)
LEMMA SwappedIs ==
  ASSUME NEW h, NEW C, NEW g, NEW E, IsTable(h.rec), IsTable(h.str), IsTable(g.rec), IsTable(g.str),
         CopiesTidy(g, E), NotCopied(g, E) = NotCopied(h, C)
  PROVE  Swapped(h, C, g, E)
<1> DEFINE X == CC(h, C)
           Y == CC(g, E)
<1>1. Without(g.rec, E) = Without(h.rec, C) /\ Without(g.str, Y) = Without(h.str, X)
  <2>1. /\ NotCopied(g, E) = [rec |-> Without(g.rec, E), str |-> Without(g.str, Y)]
        /\ NotCopied(h, C) = [rec |-> Without(h.rec, C), str |-> Without(h.str, X)]
    BY Zenon DEF NotCopied, CC, KC
  <2> HIDE DEF X, Y
  <2>2. PICK a, b, c, d : /\ a = Without(g.rec, E) /\ b = Without(g.str, Y)
                          /\ c = Without(h.rec, C) /\ d = Without(h.str, X)
    BY Zenon
  <2>3. [rec |-> a, str |-> b] = [rec |-> c, str |-> d]
    BY <2>1, <2>2, Zenon
  <2>4. a = c /\ b = d
    BY <2>3
  <2> QED BY <2>2, <2>4, Zenon
<1> HIDE DEF X, Y
<1>2. /\ DOMAIN Without(g.rec, E) = DOMAIN g.rec \ E
      /\ \A r \in DOMAIN Without(g.rec, E) : Without(g.rec, E)[r] = g.rec[r]
  BY Removed
<1>3. /\ DOMAIN Without(h.rec, C) = DOMAIN h.rec \ C
      /\ \A r \in DOMAIN Without(h.rec, C) : Without(h.rec, C)[r] = h.rec[r]
  BY Removed
<1>4. /\ DOMAIN Without(g.str, Y) = DOMAIN g.str \ Y
      /\ \A r \in DOMAIN Without(g.str, Y) : Without(g.str, Y)[r] = g.str[r]
  BY Removed
<1>5. /\ DOMAIN Without(h.str, X) = DOMAIN h.str \ X
      /\ \A r \in DOMAIN Without(h.str, X) : Without(h.str, X)[r] = h.str[r]
  BY Removed
<1>6. /\ DOMAIN g.rec \ E = DOMAIN h.rec \ C
      /\ \A r \in DOMAIN h.rec \ C : RecAt(g, r, h, r)
  BY <1>1, <1>2, <1>3, Zenon DEF RecAt
<1>7. DOMAIN g.str \ Y = DOMAIN h.str \ X /\ Keeps(g, h, DOMAIN h.str \ X)
  BY <1>1, <1>4, <1>5 DEF Keeps
<1> QED BY <1>6, <1>7, Zenon DEF Swapped, X, Y

(* The index has other copies. *)
LEMMA CopiesSwapped ==
  ASSUME StringsFit, NEW h, NEW R, NEW C, Sound(h, R, C), NEW g, NEW E, Swapped(h, C, g, E)
  PROVE  Sound(g, R, E) /\ Pairs(g, R) = Pairs(h, R) /\ \A r \in R : Text(g, r) = Text(h, r)
<1>1. /\ R \cap C = {} /\ R \cup C = DOMAIN h.rec /\ IsTable(h.str)
      /\ \A r \in DOMAIN h.rec, s \in DOMAIN h.rec : r # s => Chunks(h, r) \cap Chunks(h, s) = {}
      /\ \A x \in DOMAIN h.str : \E r \in DOMAIN h.rec : x \in Chunks(h, r)
      /\ \A r \in R, s \in R : Text(h, r) = Text(h, s) => r = s
      /\ \A r \in C : CopyOK(h, r)
  BY Zenon DEF Sound
<1>2. /\ IsTable(g.rec) /\ IsTable(g.str) /\ CopiesTidy(g, E)
      /\ DOMAIN g.rec \ E = R
      /\ \A r \in R : RecAt(g, r, h, r)
      /\ DOMAIN g.str \ CC(g, E) = DOMAIN h.str \ CC(h, C)
      /\ Keeps(g, h, DOMAIN h.str \ CC(h, C))
  <2>1. DOMAIN h.rec \ C = R
    BY <1>1
  <2> QED BY <2>1 DEF Swapped
<1>3. \A r \in DOMAIN h.rec : Chunks(h, r) \subseteq DOMAIN h.str
  BY ChunksInUse, Zenon
<1>4. \A r \in C : Chunks(h, r) = KC(h, r)
  BY <1>1, CopyChunks, Zenon
<1>5. \A r \in R : Chunks(h, r) \subseteq DOMAIN h.str \ CC(h, C)
  <2>1. \A r \in R, s \in C : Chunks(h, r) \cap Chunks(h, s) = {}
    BY <1>1
  <2> QED BY <1>1, <1>3, <1>4, <2>1 DEF CC
<1>6. \A r \in R : RowOK(h, r) /\ Keeps(g, h, Chunks(h, r))
  BY <1>2, <1>5, Zenon DEF Sound, Keeps
<1>7. \A r \in R : RowOK(g, r) /\ SameRow(g, r, h, r)
  <2>1. IsTable(h.str) /\ IsTable(g.str) /\ \A r \in R : RecAt(g, r, h, r)
    BY <1>1, <1>2
  <2> QED BY <1>6, <2>1, RowKept, Zenon
<1>8. \A r \in R : Text(g, r) = Text(h, r) /\ Val(g, r) = Val(h, r) /\ Chunks(g, r) = Chunks(h, r)
  BY <1>7, Zenon DEF SameRow
<1>9. \A r \in E : CopyOK(g, r)
  <2> TAKE r \in E
  <2>1. /\ g.rec[r] = [key |-> g.rec[r].key, value |-> NoRid]
        /\ \E k \in Key : Spells(g.str, g.rec[r].key, k)
    BY <1>2, Zenon DEF CopiesTidy
  <2>2. PICK k \in Key : Spells(g.str, g.rec[r].key, k)
    BY <2>1
  <2>3. KeyOK(g, r)
    BY <1>2, <2>2, KeyIs, Zenon
  <2> QED BY <2>1, <2>3, Zenon DEF CopyOK
<1>10. \A r \in E : Chunks(g, r) = KC(g, r) /\ Chunks(g, r) \subseteq CC(g, E)
  BY <1>2, <1>9, CopyChunks, Zenon DEF CC
<1>11. E \subseteq DOMAIN g.rec /\ \A r \in E, s \in E : r # s => KC(g, r) \cap KC(g, s) = {}
  BY <1>2, Zenon DEF CopiesTidy, KC
<1>12. R \cap E = {} /\ R \cup E = DOMAIN g.rec
  BY <1>2, <1>11
<1>13. \A r \in DOMAIN g.rec, s \in DOMAIN g.rec : r # s => Chunks(g, r) \cap Chunks(g, s) = {}
  <2>1. \A r \in R, s \in R : r # s => Chunks(g, r) \cap Chunks(g, s) = {}
    BY <1>1, <1>8
  <2>2. \A r \in R, s \in E : Chunks(g, r) \cap Chunks(g, s) = {}
    BY <1>2, <1>5, <1>8, <1>10
  <2>3. \A r \in E, s \in E : r # s => Chunks(g, r) \cap Chunks(g, s) = {}
    BY <1>10, <1>11
  <2> QED BY <1>12, <2>1, <2>2, <2>3
<1>14. \A x \in DOMAIN g.str : \E r \in DOMAIN g.rec : x \in Chunks(g, r)
  <2> TAKE x \in DOMAIN g.str
  <2>1. CASE x \in CC(g, E)
    <3>1. PICK r \in E : x \in KC(g, r)
      BY <2>1 DEF CC
    <3> QED BY <1>10, <1>12, <3>1
  <2>2. CASE x \notin CC(g, E)
    <3>1. x \in DOMAIN h.str /\ x \notin CC(h, C)
      BY <1>2, <2>2
    <3>2. PICK r \in DOMAIN h.rec : x \in Chunks(h, r)
      BY <1>1, <3>1
    <3>3. r \notin C
      BY <1>4, <3>1, <3>2 DEF CC
    <3>4. r \in R
      BY <1>1, <3>2, <3>3
    <3> QED BY <1>8, <1>12, <3>2, <3>4
  <2> QED BY <2>1, <2>2
<1>15. \A r \in R, s \in R : Text(g, r) = Text(g, s) => r = s
  BY <1>1, <1>8
<1>16. Sound(g, R, E)
  BY <1>2, <1>7, <1>9, <1>12, <1>13, <1>14, <1>15, Zenon DEF Sound
<1>17. Pairs(g, R) = Pairs(h, R)
  BY <1>8 DEF Pairs
<1> QED BY <1>8, <1>16, <1>17

-----------------------------------------------------------------------------
(* Both comparisons order keys as strings. *)
LEMMA KeysOrdered ==
  ASSUME StringsFit, NEW h, IsTable(h.str), NEW S, \A r \in S : KeyOK(h, r)
  PROVE  Ordered(h, S)
<1>1. \A r \in S : Text(h, r) \in Texts /\ Spells(h.str, h.rec[r].key, Text(h, r))
  BY Zenon DEF StringsFit, KeyOK
<1>2. ASSUME NEW r \in S, NEW s \in S
      PROVE  Compares(row_row_cmp(h, r, s), Text(h, r), Text(h, s))
  <2>1. Compares(compare_string_record(h.str, read_string(h.str, h.rec[r].key),
                                       read_string(h.str, h.rec[s].key)), Text(h, r), Text(h, s))
    BY <1>1, CompareStrings, Zenon
  <2> QED BY <2>1, Zenon DEF row_row_cmp, KeyString
<1>3. ASSUME NEW r \in S, NEW k \in Key
      PROVE  Compares(ptr_row_cmp(h, k, r), k, Text(h, r))
  <2>1. k \in Texts
    BY DEF StringsFit
  <2>2. /\ read_string(h.str, h.rec[r].key).chunk.data # <<>>
        /\ Compares(PtrCompareRest(h.str, k, read_string(h.str, h.rec[r].key)), k, Text(h, r))
    BY <1>1, <2>1, CompareKey, Zenon
  <2>3. ptr_row_cmp(h, k, r) = PtrCompareRest(h.str, k, read_string(h.str, h.rec[r].key))
    BY <2>2, Zenon DEF ptr_row_cmp, KeyString
  <2> QED BY <2>2, <2>3, Zenon
<1> QED BY <1>2, <1>3, Zenon DEF Ordered

(* The comparisons are fit for the index. *)
LEMMA HeapComparable ==
  ASSUME StringsFit, NEW h, NEW R, NEW C, Sound(h, R, C)
  PROVE  Comparable(h, R, C) /\ Ordered(h, DOMAIN h.rec)
<1>1. IsTable(h.str) /\ R \cup C = DOMAIN h.rec
  BY Zenon DEF Sound
<1>2. \A r \in R \cup C : KeyOK(h, r)
  BY Zenon DEF Sound, RowOK, CopyOK
<1>3. Ordered(h, R \cup C)
  BY <1>1, <1>2, KeysOrdered, Zenon
<1>4. \A r, s \in R : Text(h, r) = Text(h, s) => r = s
  BY Zenon DEF Sound
<1> QED BY <1>1, <1>3, <1>4, Zenon DEF Comparable

(* They do not read values. *)
LEMMA StaleComparable ==
  ASSUME StringsFit, NEW h, NEW R, NEW C, Sound(h, R, C), NEW g, g.str = h.str,
         \A r \in R \cup C : KeyAt(g, r, h, r)
  PROVE  Comparable(g, R, C)
<1>1. IsTable(h.str) /\ IsTable(g.str) /\ R \cup C = DOMAIN h.rec
  BY Zenon DEF Sound
<1>2. \A r \in R \cup C : KeyOK(h, r)
  BY Zenon DEF Sound, RowOK, CopyOK
<1>3. ASSUME NEW r \in R \cup C PROVE KeyOK(g, r) /\ SameKey(g, r, h, r)
  <2>1. Range(KeyChain(h, r)) \subseteq DOMAIN h.str
    <3>1. Text(h, r) \in Texts /\ Spells(h.str, h.rec[r].key, Text(h, r))
      BY <1>2, Zenon DEF KeyOK, StringsFit
    <3> QED BY <1>1, <3>1, StringChunks, Zenon DEF KeyChain
  <2>2. Keeps(g, h, KC(h, r))
    BY <2>1, Zenon DEF Keeps, KC
  <2> QED BY <1>1, <1>2, <2>2, KeyKept, Zenon
<1>4. Ordered(g, R \cup C)
  BY <1>1, <1>3, KeysOrdered, Zenon
<1>5. \A r, s \in R : Text(g, r) = Text(g, s) => r = s
  <2>1. \A r \in R : Text(g, r) = Text(h, r)
    BY <1>3, Zenon DEF SameKey
  <2>2. \A r, s \in R : Text(h, r) = Text(h, s) => r = s
    BY Zenon DEF Sound
  <2> QED BY <2>1, <2>2
<1> QED BY <1>4, <1>5, Zenon DEF Comparable

-----------------------------------------------------------------------------
(* The record r, strings with no chunk in common, and the row <<k, v>>. *)
IsRecord(g, r, a, b) == g.rec[r] = [key |-> a, value |-> b]
Apart(t, a, b) == Range(Chain(t, a)) \cap Range(Chain(t, b)) = {}
IsRow(g, r, a, b, k, v) ==
  /\ RowOK(g, r) /\ Text(g, r) = k /\ Val(g, r) = v
  /\ Chunks(g, r) = Range(Chain(g.str, a)) \cup Range(Chain(g.str, b))

(* A record of a key and a value is a row. *)
LEMMA RowIs ==
  ASSUME StringsFit, NEW g, IsTable(g.str), NEW r, NEW a, NEW b,
         IsRecord(g, r, a, b), NEW k, NEW v, k \in Key, v \in Value,
         Spells(g.str, a, k), Spells(g.str, b, v), Apart(g.str, a, b)
  PROVE  IsRow(g, r, a, b, k, v)
<1>1. g.rec[r].key = a /\ g.rec[r].value = b
  <2>1. PICK x : x = g.rec[r] /\ x = [key |-> a, value |-> b]
    BY Zenon DEF IsRecord
  <2>2. x.key = a /\ x.value = b
    BY <2>1
  <2> QED BY <2>1, <2>2, Zenon
<1>2. Text(g, r) = k /\ KeyOK(g, r)
  BY <1>1, KeyIs, Zenon
<1>3. Val(g, r) = v /\ ValueOK(g, r)
  BY <1>1, ValueIs, Zenon
<1>4. /\ KC(g, r) = Range(Chain(g.str, a)) /\ VC(g, r) = Range(Chain(g.str, b))
      /\ Chunks(g, r) = Range(Chain(g.str, a)) \cup Range(Chain(g.str, b))
  BY <1>1, Zenon DEF KC, VC, Chunks, KeyChain, ValueChain
<1>5. RowOK(g, r)
  BY <1>1, <1>2, <1>3, <1>4, Zenon DEF RowOK, IsRecord, Apart
<1> QED BY <1>2, <1>3, <1>4, <1>5, Zenon DEF IsRow

(* n has the row <<k, v>> more than h. *)
HasNew(n, h, R, C, k, v) ==
  /\ Sound(n.heap, R \cup {n.rid}, C) /\ n.rid \notin DOMAIN h.rec
  /\ PairAdded(n.heap, R \cup {n.rid}, h, R, k, v)

(* myjql_set of a new key: its record is a row more. *)
LEMMA RecordNew ==
  ASSUME StringsFit, NEW h, NEW R, NEW C, Sound(h, R, C), NEW k \in Key, NEW v \in Value,
         IsNot(h, R, k)
  PROVE  HasNew(NewRecord(h, k, v), h, R, C, k, v)
<1> DEFINE n == NewRecord(h, k, v)
           K == write_string(h.str, k)
           V == write_string(K.table, v)
           x == [key |-> K.rid, value |-> V.rid]
           i == table_insert(h.rec, x)
           g == [rec |-> i.table, str |-> V.table]
           KR == Range(Chain(V.table, K.rid))
           VR == Range(Chain(V.table, V.rid))
<1>1. IsTable(h.rec) /\ IsTable(h.str) /\ k \in Texts /\ v \in Texts
  BY DEF Sound, StringsFit
<1>2. Written(h.str, K.table, K.rid, k)
  BY <1>1, WritesString, Zenon
<1> HIDE DEF K
<1>3. /\ IsTable(K.table) /\ Spells(K.table, K.rid, k)
      /\ DOMAIN K.table = DOMAIN h.str \cup Range(Chain(K.table, K.rid))
      /\ Range(Chain(K.table, K.rid)) \cap DOMAIN h.str = {}
      /\ \A r \in DOMAIN h.str : K.table[r] = h.str[r]
  BY <1>2, Zenon DEF Written
<1>4. Written(K.table, V.table, V.rid, v)
  BY <1>1, <1>3, WritesString, Zenon
<1> HIDE DEF V
<1>5. /\ IsTable(V.table) /\ Spells(V.table, V.rid, v)
      /\ DOMAIN V.table = DOMAIN K.table \cup VR
      /\ VR \cap DOMAIN K.table = {}
      /\ \A r \in DOMAIN K.table : V.table[r] = K.table[r]
  BY <1>4, Zenon DEF Written
<1>6. Chain(V.table, K.rid) = Chain(K.table, K.rid) /\ Spells(V.table, K.rid, k)
  <2>1. \A r \in Range(Chain(K.table, K.rid)) : r \in DOMAIN V.table /\ V.table[r] = K.table[r]
    BY <1>3, <1>5, Zenon
  <2> QED BY <1>1, <1>3, <1>5, <2>1, StringKept, Zenon
<1>7. /\ IsTable(i.table) /\ i.rid \notin DOMAIN h.rec
      /\ DOMAIN i.table = DOMAIN h.rec \cup {i.rid} /\ i.table[i.rid] = x
      /\ \A r \in DOMAIN h.rec : i.table[r] = h.rec[r]
  BY <1>1, Inserted
<1> HIDE DEF i, x
<1>8. g.rec = i.table /\ g.str = V.table
  OBVIOUS
<1>9. n = [heap |-> g, rid |-> i.rid]
  BY Zenon DEF NewRecord, K, V, i, x
<1> HIDE DEF g, n
<1>10. Apart(g.str, K.rid, V.rid)
  <2>1. KR \subseteq DOMAIN K.table
    BY <1>3, <1>6, Zenon
  <2> QED BY <1>5, <1>8, <2>1, Zenon DEF Apart
<1>11. IsRow(g, i.rid, K.rid, V.rid, k, v)
  <2>1. IsRecord(g, i.rid, K.rid, V.rid)
    BY <1>7, <1>8, Zenon DEF x, IsRecord
  <2>2. IsTable(g.str) /\ Spells(g.str, K.rid, k) /\ Spells(g.str, V.rid, v)
    BY <1>5, <1>6, <1>8, Zenon
  <2> QED BY <1>10, <2>1, <2>2, RowIs, Zenon
<1>12. /\ RowOK(g, i.rid) /\ Text(g, i.rid) = k /\ Val(g, i.rid) = v
       /\ Chunks(g, i.rid) = KR \cup VR
  BY <1>8, <1>11, Zenon DEF IsRow
<1>13. Keeps(g, h, DOMAIN h.str)
  BY <1>3, <1>5, <1>8, Zenon DEF Keeps
<1>14. KeepsAll(g, h, DOMAIN h.rec)
  <2>1. \A r \in DOMAIN h.rec : Chunks(h, r) \subseteq DOMAIN h.str
    BY ChunksInUse, Zenon
  <2> QED BY <1>7, <1>8, <1>13, <2>1, Zenon DEF KeepsAll, RecAt, Keeps
<1>15. /\ Chunks(g, i.rid) \cap DOMAIN h.str = {}
       /\ DOMAIN g.str = DOMAIN h.str \cup Chunks(g, i.rid)
  BY <1>3, <1>5, <1>6, <1>8, <1>12
<1>16. AddsRow(g, h, i.rid)
  BY <1>5, <1>7, <1>8, <1>12, <1>14, <1>15, Zenon DEF AddsRow
<1>17. Sound(g, R \cup {i.rid}, C) /\ PairAdded(g, R \cup {i.rid}, h, R, k, v)
  <2>1. IsNot(h, R, Text(g, i.rid))
    BY <1>12, Zenon
  <2>2. /\ Sound(g, R \cup {i.rid}, C)
        /\ PairAdded(g, R \cup {i.rid}, h, R, Text(g, i.rid), Val(g, i.rid))
    BY <1>16, <2>1, RowAdded, Zenon
  <2> QED BY <1>12, <2>2, Zenon
<1>18. n.heap = g /\ n.rid = i.rid
  <2>1. n = [heap |-> g, rid |-> i.rid]
    BY <1>9
  <2> QED BY <2>1
<1>19. HasNew(n, h, R, C, k, v)
  BY <1>7, <1>17, <1>18, Zenon DEF HasNew
<1> QED BY <1>19 DEF n

(* g is h without the row old, with nothing changed. *)
Deleted(g, h, old) ==
  /\ DropsRow(g, h, old) /\ Keeps(g, h, DOMAIN g.str)
  /\ \A r \in DOMAIN g.rec : g.rec[r] = h.rec[r]

(* delete_handler takes a row with its record, key and value. *)
LEMMA RecordDeleted ==
  ASSUME StringsFit, NEW h, NEW R, NEW C, Sound(h, R, C), NEW old, old \in R
  PROVE  Deleted(delete_handler(h, old), h, old)
<1> DEFINE g == delete_handler(h, old)
           a == h.rec[old].key
           b == h.rec[old].value
           t == delete_string(h.str, a)
           u == delete_string(t, b)
           rec == table_delete(h.rec, old)
<1>1. IsTable(h.rec) /\ IsTable(h.str) /\ RowOK(h, old) /\ old \in DOMAIN h.rec
  BY Zenon DEF Sound
<1>2. /\ Val(h, old) \in Texts /\ Spells(h.str, b, Val(h, old))
      /\ KC(h, old) \cap VC(h, old) = {}
      /\ KC(h, old) = Range(Chain(h.str, a)) /\ VC(h, old) = Range(Chain(h.str, b))
  BY <1>1, Zenon DEF RowOK, ValueOK, StringsFit, KC, VC, KeyChain, ValueChain
<1>3. /\ IsTable(t) /\ DOMAIN t = DOMAIN h.str \ KC(h, old)
      /\ \A r \in DOMAIN t : t[r] = h.str[r]
  <2>1. IsRest(t, h.str, Range(Chain(h.str, a)))
    BY <1>1, DeletesString, Zenon
  <2> QED BY <1>2, <2>1, Zenon DEF IsRest
<1>4. /\ IsTable(u) /\ DOMAIN u = DOMAIN t \ Range(Chain(t, b))
      /\ \A r \in DOMAIN u : u[r] = t[r]
  <2>1. IsRest(u, t, Range(Chain(t, b)))
    BY <1>3, DeletesString, Zenon
  <2> QED BY <2>1, Zenon DEF IsRest
<1>5. IsTable(rec) /\ DOMAIN rec = DOMAIN h.rec \ {old} /\ \A r \in DOMAIN rec : rec[r] = h.rec[r]
  BY <1>1, Removed DEF table_delete
<1>6. g.rec = rec /\ g.str = u
  <2>1. g = [rec |-> rec, str |-> u]
    BY Zenon DEF delete_handler
  <2> HIDE DEF rec, u, g
  <2> QED BY <2>1
<1> HIDE DEF t, u, rec, g
<1>7. VC(h, old) \subseteq DOMAIN h.str
  BY <1>1, <1>2, StringChunks, Zenon
<1>8. Chain(t, b) = Chain(h.str, b)
  <2>1. Has(t, h.str, Range(Chain(h.str, b)))
    BY <1>2, <1>3, <1>7 DEF Has
  <2>2. SameString(t, h.str, b, Val(h, old))
    BY <1>1, <1>2, <1>3, <2>1, StringStays, Zenon
  <2> QED BY <2>2, Zenon DEF SameString
<1>9. /\ DOMAIN g.str = DOMAIN h.str \ Chunks(h, old)
      /\ Keeps(g, h, DOMAIN g.str)
  <2>1. Chunks(h, old) = KC(h, old) \cup VC(h, old)
    BY <1>1, RowChunks, Zenon
  <2> QED BY <1>2, <1>3, <1>4, <1>6, <1>8, <2>1 DEF Keeps
<1>10. KeepsAll(g, h, DOMAIN h.rec \ {old})
  <2>1. \A r \in DOMAIN h.rec : Chunks(h, r) \subseteq DOMAIN h.str
    BY ChunksInUse, Zenon
  <2>2. \A r \in DOMAIN h.rec \ {old} : Chunks(h, r) \cap Chunks(h, old) = {}
    BY <1>1, Zenon DEF Sound
  <2>3. \A r \in DOMAIN h.rec \ {old} : Chunks(h, r) \subseteq DOMAIN g.str
    BY <1>9, <2>1, <2>2
  <2> QED BY <1>5, <1>6, <1>9, <2>3, Zenon DEF KeepsAll, RecAt, Keeps
<1>11. DropsRow(g, h, old)
  BY <1>3, <1>4, <1>5, <1>6, <1>9, <1>10, Zenon DEF DropsRow
<1>12. Deleted(g, h, old)
  BY <1>5, <1>6, <1>9, <1>11, Zenon DEF Deleted
<1> QED BY <1>12 DEF g

(* The row <<k, v>> takes the place of another with that key. *)
PairSet(g, S, h, R, k, v) == Pairs(g, S) = {p \in Pairs(h, R) : p[1] # k} \cup {<<k, v>>}

(* The heap as it would be if the record already had its new value. *)
Renewed(h, rid, str, value) ==
  [rec |-> [h.rec EXCEPT ![rid] = [key |-> h.rec[rid].key, value |-> value]], str |-> str]

(* That heap is sound, and has the value v at rid. *)
HasRenewed(w, h, R, C, rid, v) ==
  LET g == Renewed(h, rid, w.heap.str, w.value)
  IN  /\ Sound(g, R, C) /\ PairSet(g, R, h, R, Text(h, rid), v)
      /\ w.heap.rec = h.rec /\ Text(g, rid) = Text(h, rid)

(* Once the record has it, the row has another value. *)
LEMMA ValueReplaced ==
  ASSUME StringsFit, NEW h, NEW R, NEW C, Sound(h, R, C), NEW rid, rid \in R, NEW v \in Value
  PROVE  HasRenewed(ReplaceValue(h, rid, v), h, R, C, rid, v)
<1> DEFINE w == ReplaceValue(h, rid, v)
           a == h.rec[rid].key
           b == h.rec[rid].value
           k == Text(h, rid)
           t == delete_string(h.str, b)
           V == write_string(t, v)
           g == Renewed(h, rid, V.table, V.rid)
           VR == Range(Chain(V.table, V.rid))
           m == delete_handler(h, rid)
<1>1. /\ IsTable(h.rec) /\ IsTable(h.str) /\ RowOK(h, rid) /\ rid \in DOMAIN h.rec
      /\ v \in Texts
  BY Zenon DEF Sound, StringsFit
<1>2. /\ k \in Key /\ k \in Texts /\ Spells(h.str, a, k)
      /\ KC(h, rid) \cap VC(h, rid) = {}
      /\ KC(h, rid) = Range(Chain(h.str, a)) /\ VC(h, rid) = Range(Chain(h.str, b))
  BY <1>1, Zenon DEF RowOK, KeyOK, StringsFit, KC, VC, KeyChain, ValueChain
<1>3. /\ IsTable(t) /\ DOMAIN t = DOMAIN h.str \ VC(h, rid)
      /\ \A r \in DOMAIN t : t[r] = h.str[r]
  <2>1. IsRest(t, h.str, Range(Chain(h.str, b)))
    BY <1>1, DeletesString, Zenon
  <2> QED BY <1>2, <2>1, Zenon DEF IsRest
<1> HIDE DEF t, k
<1>4. Written(t, V.table, V.rid, v)
  BY <1>1, <1>3, WritesString, Zenon
<1>5. w.heap = [rec |-> h.rec, str |-> V.table] /\ w.value = V.rid
  <2>1. w = [heap |-> [rec |-> h.rec, str |-> V.table], value |-> V.rid]
    BY Zenon DEF ReplaceValue, t
  <2> HIDE DEF V, w
  <2> QED BY <2>1
<1> HIDE DEF V, w
<1>6. /\ IsTable(V.table) /\ Spells(V.table, V.rid, v)
      /\ DOMAIN V.table = DOMAIN t \cup VR
      /\ VR \cap DOMAIN t = {}
      /\ \A r \in DOMAIN t : V.table[r] = t[r]
  BY <1>4, Zenon DEF Written
<1>7. KC(h, rid) \subseteq DOMAIN t
  <2>1. KC(h, rid) \subseteq DOMAIN h.str
    BY <1>1, <1>2, StringChunks, Zenon
  <2> QED BY <1>2, <1>3, <2>1
<1>8. Chain(V.table, a) = Chain(h.str, a) /\ Spells(V.table, a, k)
  <2>1. Has(V.table, h.str, Range(Chain(h.str, a)))
    BY <1>2, <1>3, <1>6, <1>7 DEF Has
  <2>2. SameString(V.table, h.str, a, k)
    BY <1>1, <1>2, <1>6, <2>1, StringStays, Zenon
  <2> QED BY <2>2, Zenon DEF SameString
<1>9. /\ DropsRow(m, h, rid) /\ Keeps(m, h, DOMAIN m.str)
      /\ \A r \in DOMAIN m.rec : m.rec[r] = h.rec[r]
  <2>1. Deleted(m, h, rid)
    BY RecordDeleted, Zenon
  <2> QED BY <2>1, Zenon DEF Deleted
<1>10. /\ Sound(m, R \ {rid}, C) /\ PairGone(m, R \ {rid}, h, R, Text(h, rid))
       /\ IsNot(m, R \ {rid}, Text(h, rid))
  BY <1>9, RowRemoved, Zenon
<1> HIDE DEF m
<1>11. /\ g.str = V.table /\ DOMAIN g.rec = DOMAIN h.rec /\ IsTable(g.rec)
       /\ g.rec[rid] = [key |-> a, value |-> V.rid]
       /\ \A r \in DOMAIN h.rec \ {rid} : g.rec[r] = h.rec[r]
  BY <1>1 DEF Renewed, IsTable
<1> HIDE DEF g
<1>12. IsRow(g, rid, a, V.rid, k, v)
  <2>1. IsRecord(g, rid, a, V.rid)
    BY <1>11, Zenon DEF IsRecord
  <2>2. IsTable(g.str) /\ Spells(g.str, a, k) /\ Spells(g.str, V.rid, v)
    BY <1>6, <1>8, <1>11, Zenon
  <2>3. Apart(g.str, a, V.rid)
    BY <1>2, <1>6, <1>7, <1>8, <1>11, Zenon DEF Apart
  <2> QED BY <1>2, <2>1, <2>2, <2>3, RowIs, Zenon
<1>13. /\ RowOK(g, rid) /\ Text(g, rid) = k /\ Val(g, rid) = v
       /\ Chunks(g, rid) = KC(h, rid) \cup VR
  BY <1>2, <1>8, <1>11, <1>12, Zenon DEF IsRow
<1>14. /\ DOMAIN m.rec = DOMAIN h.rec \ {rid} /\ DOMAIN m.str = DOMAIN h.str \ Chunks(h, rid)
       /\ \A x \in DOMAIN m.str : m.str[x] = h.str[x]
  BY <1>9, Zenon DEF DropsRow, Keeps
<1>15. Chunks(h, rid) = KC(h, rid) \cup VC(h, rid)
  BY <1>1, RowChunks, Zenon
<1>16. /\ Chunks(g, rid) \cap DOMAIN m.str = {} /\ DOMAIN g.str = DOMAIN m.str \cup Chunks(g, rid)
       /\ Keeps(g, m, DOMAIN m.str)
  <2>1. DOMAIN t = DOMAIN m.str \cup KC(h, rid) /\ KC(h, rid) \cap DOMAIN m.str = {}
    BY <1>2, <1>3, <1>7, <1>14, <1>15
  <2> QED BY <1>3, <1>6, <1>11, <1>13, <1>14, <2>1 DEF Keeps
<1>17. KeepsAll(g, m, DOMAIN m.rec)
  <2>1. \A r \in DOMAIN m.rec : Chunks(m, r) \subseteq DOMAIN m.str
    BY <1>10, ChunksInUse, Zenon
  <2>2. \A r \in DOMAIN m.rec : g.rec[r] = m.rec[r]
    BY <1>9, <1>11, <1>14
  <2> QED BY <1>16, <2>1, <2>2, Zenon DEF KeepsAll, RecAt, Keeps
<1>18. AddsRow(g, m, rid)
  <2>1. rid \notin DOMAIN m.rec /\ DOMAIN g.rec = DOMAIN m.rec \cup {rid}
    BY <1>1, <1>11, <1>14
  <2> QED BY <1>6, <1>11, <1>13, <1>16, <1>17, <2>1, Zenon DEF AddsRow
<1>19. /\ Sound(g, (R \ {rid}) \cup {rid}, C)
       /\ PairAdded(g, (R \ {rid}) \cup {rid}, m, R \ {rid}, Text(g, rid), Val(g, rid))
  <2>1. IsNot(m, R \ {rid}, Text(g, rid))
    BY <1>10, <1>13, Zenon DEF k
  <2> QED BY <1>10, <1>18, <2>1, RowAdded, Zenon
<1>20. (R \ {rid}) \cup {rid} = R
  OBVIOUS
<1>21. Sound(g, R, C) /\ PairSet(g, R, h, R, k, v) /\ Text(g, rid) = k
  BY <1>10, <1>13, <1>19, <1>20, Zenon DEF PairSet, PairAdded, PairGone, k
<1>22. w.heap.str = V.table /\ w.heap.rec = h.rec
  BY <1>5
<1>23. HasRenewed(w, h, R, C, rid, v)
  BY <1>5, <1>21, <1>22, Zenon DEF g, k, HasRenewed
<1> QED BY <1>23 DEF w

(* h is g but for the record rid. *)
AllBut(h, g, rid) ==
  /\ IsTable(h.rec) /\ DOMAIN h.rec = DOMAIN g.rec /\ h.str = g.str
  /\ \A r \in DOMAIN g.rec \ {rid} : h.rec[r] = g.rec[r]

(* n has the row rid of g under another RID perhaps. *)
HasMoved(n, g, R, C, rid) ==
  LET S == (R \ {rid}) \cup {n.rid}
  IN  Sound(n.heap, S, C) /\ n.rid \notin R \ {rid} /\ Pairs(n.heap, S) = Pairs(g, R)

(* The record is written anew. *)
LEMMA RecordReplaced ==
  ASSUME StringsFit, NEW g, NEW R, NEW C, Sound(g, R, C), NEW rid, rid \in R,
         NEW h, AllBut(h, g, rid)
  PROVE  HasMoved(ReplaceRecord(h, rid, g.rec[rid]), g, R, C, rid)
<1> DEFINE x == g.rec[rid]
           n == ReplaceRecord(h, rid, x)
           rec == table_delete(h.rec, rid)
           i == table_insert(rec, x)
           f == [rec |-> i.table, str |-> h.str]
           m == delete_handler(g, rid)
           new == i.rid
<1>1. /\ IsTable(g.rec) /\ IsTable(g.str) /\ RowOK(g, rid) /\ rid \in DOMAIN g.rec
      /\ IsTable(h.rec) /\ DOMAIN h.rec = DOMAIN g.rec /\ h.str = g.str
      /\ \A r \in DOMAIN g.rec \ {rid} : h.rec[r] = g.rec[r]
  BY Zenon DEF Sound, AllBut
<1>2. IsTable(rec) /\ DOMAIN rec = DOMAIN h.rec \ {rid} /\ \A r \in DOMAIN rec : rec[r] = h.rec[r]
  BY <1>1, Removed DEF table_delete
<1> HIDE DEF rec
<1>3. /\ IsTable(i.table) /\ i.rid \notin DOMAIN rec
      /\ DOMAIN i.table = DOMAIN rec \cup {i.rid} /\ i.table[i.rid] = x
      /\ \A r \in DOMAIN rec : i.table[r] = rec[r]
  BY <1>2, Inserted
<1> HIDE DEF i
<1>4. f.rec = i.table /\ f.str = h.str
  OBVIOUS
<1>5. n.heap = f /\ n.rid = i.rid
  <2>1. n = [heap |-> f, rid |-> i.rid]
    BY Zenon DEF ReplaceRecord, rec, i
  <2> HIDE DEF n, f
  <2> QED BY <2>1
<1> HIDE DEF n, f
<1>6. Deleted(m, g, rid)
  BY RecordDeleted, Zenon
<1> HIDE DEF m
<1>7. /\ DropsRow(m, g, rid) /\ \A r \in DOMAIN m.rec : m.rec[r] = g.rec[r]
      /\ \A y \in DOMAIN m.str : m.str[y] = g.str[y]
      /\ DOMAIN m.rec = DOMAIN g.rec \ {rid} /\ DOMAIN m.str = DOMAIN g.str \ Chunks(g, rid)
  BY <1>6, Zenon DEF Deleted, DropsRow, Keeps
<1>8. /\ Sound(m, R \ {rid}, C) /\ PairGone(m, R \ {rid}, g, R, Text(g, rid))
      /\ IsNot(m, R \ {rid}, Text(g, rid))
  BY <1>7, RowRemoved, Zenon
<1>9. Chunks(g, rid) \subseteq DOMAIN g.str
  BY <1>1, RowChunks, Zenon
<1>10. RowOK(f, new) /\ SameRow(f, new, g, rid)
  <2>1. RecAt(f, new, g, rid) /\ IsTable(f.str)
    BY <1>1, <1>3, <1>4, Zenon DEF RecAt
  <2>2. Keeps(f, g, Chunks(g, rid))
    BY <1>1, <1>4, <1>9, Zenon DEF Keeps
  <2> QED BY <1>1, <2>1, <2>2, RowKept, Zenon
<1>11. /\ Text(f, new) = Text(g, rid) /\ Val(f, new) = Val(g, rid)
       /\ Chunks(f, new) = Chunks(g, rid)
  BY <1>10, Zenon DEF SameRow
<1>12. Keeps(f, m, DOMAIN m.str)
  BY <1>1, <1>4, <1>7 DEF Keeps
<1>13. KeepsAll(f, m, DOMAIN m.rec)
  <2>1. \A r \in DOMAIN m.rec : Chunks(m, r) \subseteq DOMAIN m.str
    BY <1>8, ChunksInUse, Zenon
  <2>2. \A r \in DOMAIN m.rec : f.rec[r] = m.rec[r]
    BY <1>1, <1>2, <1>3, <1>4, <1>7
  <2> QED BY <1>12, <2>1, <2>2, Zenon DEF KeepsAll, RecAt, Keeps
<1>14. /\ new \notin DOMAIN m.rec /\ DOMAIN f.rec = DOMAIN m.rec \cup {new}
       /\ Chunks(f, new) \cap DOMAIN m.str = {} /\ DOMAIN f.str = DOMAIN m.str \cup Chunks(f, new)
       /\ IsTable(f.rec) /\ IsTable(f.str)
  BY <1>1, <1>2, <1>3, <1>4, <1>7, <1>9, <1>11
<1>15. AddsRow(f, m, new)
  BY <1>10, <1>13, <1>14, Zenon DEF AddsRow
<1> DEFINE S == (R \ {rid}) \cup {new}
<1>16. Sound(f, S, C) /\ PairAdded(f, S, m, R \ {rid}, Text(f, new), Val(f, new))
  <2>1. IsNot(m, R \ {rid}, Text(f, new))
    BY <1>8, <1>11, Zenon
  <2> QED BY <1>8, <1>15, <2>1, RowAdded, Zenon
<1>17. Pairs(f, S) = {p \in Pairs(g, R) : p[1] # Text(g, rid)} \cup {<<Text(g, rid), Val(g, rid)>>}
  BY <1>8, <1>11, <1>16, Zenon DEF PairAdded, PairGone
<1>18. Pairs(f, S) = Pairs(g, R)
  <2>1. \A r \in R : Text(g, r) = Text(g, rid) => r = rid
    BY Zenon DEF Sound
  <2> HIDE DEF S
  <2> QED BY <1>17, <2>1 DEF Pairs
<1>19. new \notin R \ {rid}
  <2>1. R \subseteq DOMAIN g.rec
    BY Zenon DEF Sound
  <2> QED BY <1>1, <1>2, <1>3, <2>1
<1>20. HasMoved(n, g, R, C, rid)
  BY <1>5, <1>16, <1>18, <1>19, Zenon DEF HasMoved
<1> QED BY <1>20 DEF n

-----------------------------------------------------------------------------
(* A store that the calls may find. *)
Good(s) ==
  /\ s = [index |-> s.index, heap |-> s.heap]
  /\ IndexRows(s.index) \in Seq(Nat) /\ IndexCopies(s.index) \in Seq(Nat)
  /\ IsInjective(IndexRows(s.index) \o IndexCopies(s.index))
  /\ Sound(s.heap, Rows(s.index), Copies(s.index)) /\ IndexUnpinned(s.index)

(* The rows say the same; the rows R have the same keys. *)
SamePairs(g, S, h, R) == Pairs(g, S) = Pairs(h, R)
SameTexts(g, h, R) == \A r \in R : Text(g, r) = Text(h, r)

(* What the index returned, from a heap with the rows R. *)
LEMMA IndexKept ==
  ASSUME StringsFit, NEW i, NEW h, NEW R, Sound(h, R, Copies(i)), NEW out, NEW S, Kept(i, h, out, S)
  PROVE  /\ Sound(out.heap, R, Copies(out.index)) /\ SamePairs(out.heap, R, h, R)
         /\ SameTexts(out.heap, h, R)
         /\ Rows(out.index) = S /\ out = [index |-> out.index, heap |-> out.heap]
         /\ IndexRows(out.index) \in Seq(Nat) /\ IndexCopies(out.index) \in Seq(Nat)
         /\ IsInjective(IndexRows(out.index) \o IndexCopies(out.index))
         /\ IndexUnpinned(i) => IndexUnpinned(out.index)
<1> DEFINE C == Copies(i)
           E == Copies(out.index)
           g == out.heap
<1>1. /\ out = [index |-> out.index, heap |-> g] /\ Rows(out.index) = S
      /\ {IndexRows(out.index), IndexCopies(out.index)} \subseteq Seq(Nat)
      /\ IsInjective(IndexRows(out.index) \o IndexCopies(out.index))
      /\ IsTable(g.rec) /\ IsTable(g.str) /\ CopiesTidy(g, E)
      /\ NotCopied(g, E) = NotCopied(h, C)
      /\ IndexUnpinned(i) => IndexUnpinned(out.index)
  BY Zenon DEF Kept
<1>2. IsTable(h.rec) /\ IsTable(h.str)
  BY Zenon DEF Sound
<1> HIDE DEF C, E, g
<1>3. Swapped(h, C, g, E)
  BY <1>1, <1>2, SwappedIs, Zenon
<1>4. Sound(h, R, C)
  BY DEF C
<1>5. Sound(g, R, E) /\ Pairs(g, R) = Pairs(h, R) /\ \A r \in R : Text(g, r) = Text(h, r)
  BY <1>3, <1>4, CopiesSwapped
<1>6. IndexRows(out.index) \in Seq(Nat) /\ IndexCopies(out.index) \in Seq(Nat)
  BY <1>1, Zenon
<1> QED BY <1>1, <1>5, <1>6, Zenon DEF SamePairs, SameTexts, E, g

(* The index called on a heap with a record that is still to get its value. *)
LEMMA SwappedBut ==
  ASSUME NEW g, NEW C, NEW h, NEW rid, AllBut(h, g, rid), IsTable(g.rec),
         rid \in DOMAIN g.rec, rid \notin C, C \subseteq DOMAIN g.rec,
         NEW v, g.rec[rid] = [key |-> h.rec[rid].key, value |-> v],
         NEW f, NEW E, Swapped(h, C, f, E)
  PROVE  LET e == Renewed(f, rid, f.str, v)
         IN  Swapped(g, C, e, E) /\ AllBut(f, e, rid) /\ e.rec[rid] = g.rec[rid]
<1> DEFINE e == Renewed(f, rid, f.str, v)
<1>1. /\ IsTable(f.rec) /\ IsTable(f.str) /\ CopiesTidy(f, E)
      /\ DOMAIN f.rec \ E = DOMAIN h.rec \ C
      /\ \A r \in DOMAIN h.rec \ C : f.rec[r] = h.rec[r]
      /\ DOMAIN f.str \ CC(f, E) = DOMAIN h.str \ CC(h, C)
      /\ Keeps(f, h, DOMAIN h.str \ CC(h, C))
  BY Zenon DEF Swapped, RecAt
<1>2. /\ DOMAIN h.rec = DOMAIN g.rec /\ h.str = g.str
      /\ \A r \in DOMAIN g.rec \ {rid} : h.rec[r] = g.rec[r]
  BY Zenon DEF AllBut
<1>3. rid \in DOMAIN f.rec /\ rid \notin E /\ f.rec[rid] = h.rec[rid]
  BY <1>1, <1>2
<1>4. /\ e.str = f.str /\ DOMAIN e.rec = DOMAIN f.rec /\ IsTable(e.rec)
      /\ e.rec[rid] = [key |-> f.rec[rid].key, value |-> v]
      /\ \A r \in DOMAIN f.rec \ {rid} : e.rec[r] = f.rec[r]
  BY <1>1, <1>3 DEF Renewed, IsTable
<1> HIDE DEF e
<1>5. e.rec[rid] = g.rec[rid]
  BY <1>3, <1>4, Zenon
<1>6. AllBut(f, e, rid)
  BY <1>1, <1>4, Zenon DEF AllBut
<1>7. E \subseteq DOMAIN f.rec
  BY <1>1, Zenon DEF CopiesTidy
<1>8. \A r \in E : e.rec[r] = f.rec[r]
  BY <1>3, <1>4, <1>7
<1>9. \A r \in E : KC(e, r) = KC(f, r)
  BY <1>4, <1>8, Zenon DEF KC, KeyChain
<1>10. CC(e, E) = CC(f, E)
  BY <1>9 DEF CC
<1>11. CC(h, C) = CC(g, C)
  <2>1. \A r \in C : h.rec[r] = g.rec[r]
    BY <1>2
  <2>2. \A r \in C : KC(h, r) = KC(g, r)
    BY <1>2, <2>1, Zenon DEF KC, KeyChain
  <2> QED BY <2>2 DEF CC
<1>12. CopiesTidy(e, E)
  <2> SUFFICES ASSUME NEW r \in E
               PROVE  /\ r \in DOMAIN e.rec /\ e.rec[r] = [key |-> e.rec[r].key, value |-> NoRid]
                      /\ \E k \in Key : Spells(e.str, e.rec[r].key, k)
                      /\ \A s \in E : r # s => KC(e, r) \cap KC(e, s) = {}
    BY Zenon DEF CopiesTidy, KC
  <2>1. /\ r \in DOMAIN f.rec /\ f.rec[r] = [key |-> f.rec[r].key, value |-> NoRid]
        /\ \E k \in Key : Spells(f.str, f.rec[r].key, k)
        /\ \A s \in E : r # s => KC(f, r) \cap KC(f, s) = {}
    BY <1>1, Zenon DEF CopiesTidy, KC
  <2> QED BY <1>4, <1>8, <1>9, <2>1, Zenon
<1>13. \A r \in DOMAIN g.rec \ C : RecAt(e, r, g, r)
  BY <1>1, <1>2, <1>4, <1>5 DEF RecAt
<1>14. Keeps(e, g, DOMAIN g.str \ CC(g, C))
  BY <1>1, <1>2, <1>4, <1>11, Zenon DEF Keeps
<1>15. Swapped(g, C, e, E)
  <2>1. /\ DOMAIN e.rec \ E = DOMAIN g.rec \ C /\ IsTable(e.str)
        /\ DOMAIN e.str \ CC(e, E) = DOMAIN g.str \ CC(g, C)
    BY <1>1, <1>2, <1>4, <1>10, <1>11, Zenon
  <2> QED BY <1>4, <1>12, <1>13, <1>14, <2>1, Zenon DEF Swapped
<1> QED BY <1>5, <1>6, <1>15, Zenon DEF e

-----------------------------------------------------------------------------
(* t is s with <<k, v>> set, and s without k. *)
HasSet(t, s, k, v) ==
  Good(t) /\ PairSet(t.heap, Rows(t.index), s.heap, Rows(s.index), k, v)
HasDel(t, s, k) ==
  Good(t) /\ PairGone(t.heap, Rows(t.index), s.heap, Rows(s.index), k)

(* myjql_set of a key that is not there. *)
LEMMA SetsNew ==
  ASSUME StringsFit, NEW s, Good(s), NEW k \in Key, NEW v \in Value,
         IsNot(s.heap, Rows(s.index), k), SetNewKept(s, k, v)
  PROVE  HasSet(SetNew(s, k, v), s, k, v)
<1> DEFINE h == s.heap
           R == Rows(s.index)
           C == Copies(s.index)
           n == NewRecord(h, k, v)
           t == SetNew(s, k, v)
           S == R \cup {n.rid}
<1>1. Sound(h, R, C)
  BY Zenon DEF Good
<1>2. HasNew(n, h, R, C, k, v)
  BY <1>1, RecordNew, Zenon
<1>3. InsertKept(s.index, n.heap, n.rid) /\ t = IndexInsert(s.index, n.heap, n.rid)
  BY Zenon DEF SetNewKept, SetNew
<1> HIDE DEF n, t
<1>4. Sound(n.heap, S, C) /\ PairAdded(n.heap, S, h, R, k, v)
  BY <1>2, Zenon DEF HasNew
<1>5. Comparable(n.heap, S, C) /\ n.rid \notin R \cup C /\ IndexUnpinned(s.index)
  <2>1. n.rid \notin R \cup C
    BY <1>1, <1>2, Zenon DEF HasNew, Sound
  <2> QED BY <1>4, <2>1, HeapComparable, Zenon DEF Good
<1>6. Kept(s.index, n.heap, t, S)
  BY <1>3, <1>5, Zenon DEF InsertKept
<1>7. /\ Sound(t.heap, S, Copies(t.index)) /\ SamePairs(t.heap, S, n.heap, S)
      /\ Rows(t.index) = S /\ t = [index |-> t.index, heap |-> t.heap]
      /\ IndexRows(t.index) \in Seq(Nat) /\ IndexCopies(t.index) \in Seq(Nat)
      /\ IsInjective(IndexRows(t.index) \o IndexCopies(t.index)) /\ IndexUnpinned(t.index)
  BY <1>4, <1>5, <1>6, IndexKept
<1>8. Good(t)
  BY <1>7, Zenon DEF Good
<1>9. Pairs(h, R) = {p \in Pairs(h, R) : p[1] # k}
  BY DEF IsNot, Pairs
<1>10. PairSet(t.heap, Rows(t.index), h, R, k, v)
  BY <1>4, <1>7, <1>9, Zenon DEF PairSet, PairAdded, SamePairs
<1> QED BY <1>8, <1>10, Zenon DEF HasSet, t

(* myjql_set of a key that is there, in the row rid: the old value is deleted
   and the new one written while the record still points to the old one. *)
LEMMA SetsOld ==
  ASSUME StringsFit, NEW s, Good(s), NEW v \in Value, NEW rid, rid \in Rows(s.index),
         SetOldKept(s, rid, v)
  PROVE  HasSet(SetOld(s, rid, v), s, Text(s.heap, rid), v)
<1> DEFINE h == s.heap
           R == Rows(s.index)
           C == Copies(s.index)
           k == Text(h, rid)
           w == ReplaceValue(h, rid, v)
           out == IndexDelete(s.index, w.heap, rid)
           E == Copies(out.index)
           x == [h.rec[rid] EXCEPT !.value = w.value]
           n == ReplaceRecord(out.heap, rid, x)
           t == SetOld(s, rid, v)
           g == Renewed(h, rid, w.heap.str, w.value)
           e == Renewed(out.heap, rid, out.heap.str, w.value)
           S == (R \ {rid}) \cup {n.rid}
<1>1. Sound(h, R, C)
  BY Zenon DEF Good
<1>2. /\ IsTable(h.rec) /\ IsTable(h.str) /\ RowOK(h, rid) /\ rid \in DOMAIN h.rec
      /\ rid \notin C /\ C \subseteq DOMAIN h.rec
  BY <1>1, Zenon DEF Sound
<1>3. HasRenewed(w, h, R, C, rid, v)
  BY <1>1, ValueReplaced, Zenon
<1>4. /\ DeleteKept(s.index, w.heap, rid) /\ InsertKept(out.index, n.heap, n.rid)
      /\ t = IndexInsert(out.index, n.heap, n.rid)
  BY Zenon DEF SetOldKept, SetOld
<1> HIDE DEF w
<1>5. /\ Sound(g, R, C) /\ PairSet(g, R, h, R, k, v) /\ w.heap.rec = h.rec
  BY <1>3, Zenon DEF HasRenewed
<1>6. /\ g.str = w.heap.str /\ DOMAIN g.rec = DOMAIN h.rec /\ IsTable(g.rec)
      /\ g.rec[rid] = [key |-> h.rec[rid].key, value |-> w.value]
      /\ \A r \in DOMAIN h.rec \ {rid} : g.rec[r] = h.rec[r]
  BY <1>2 DEF Renewed, IsTable
<1> HIDE DEF g, out
<1>7. AllBut(w.heap, g, rid)
  BY <1>2, <1>5, <1>6, Zenon DEF AllBut
<1>8. Comparable(w.heap, R, C)
  <2>1. \A r \in R \cup C : KeyAt(w.heap, r, g, r)
    <3>1. R \cup C = DOMAIN h.rec
      BY <1>1, Zenon DEF Sound
    <3>2. PICK y : y = g.rec[rid] /\ y = [key |-> h.rec[rid].key, value |-> w.value]
      BY <1>6, Zenon
    <3>3. y.key = h.rec[rid].key
      BY <3>2
    <3>4. g.rec[rid].key = h.rec[rid].key
      BY <3>2, <3>3, Zenon
    <3> QED BY <1>5, <1>6, <3>1, <3>4, Zenon DEF KeyAt
  <2>2. w.heap.str = g.str
    BY <1>6
  <2> QED BY <1>5, <2>1, <2>2, StaleComparable
<1>9. Kept(s.index, w.heap, out, R \ {rid})
  BY <1>4, <1>8, Zenon DEF DeleteKept, out
<1>10. /\ Rows(out.index) = R \ {rid}
       /\ IsTable(out.heap.rec) /\ IsTable(out.heap.str)
       /\ CopiesTidy(out.heap, E) /\ NotCopied(out.heap, E) = NotCopied(w.heap, C)
       /\ IndexUnpinned(out.index)
  BY <1>9, Zenon DEF Kept, Good
<1>11. Swapped(w.heap, C, out.heap, E)
  <2>1. IsTable(w.heap.rec) /\ IsTable(w.heap.str)
    BY <1>2, <1>5, <1>6, Zenon DEF Sound
  <2> HIDE DEF C, E
  <2> QED BY <1>10, <2>1, SwappedIs, Zenon
<1>12. Swapped(g, C, e, E) /\ AllBut(out.heap, e, rid) /\ e.rec[rid] = g.rec[rid]
  <2>1. /\ IsTable(g.rec) /\ rid \in DOMAIN g.rec /\ C \subseteq DOMAIN g.rec
        /\ g.rec[rid] = [key |-> w.heap.rec[rid].key, value |-> w.value]
    BY <1>2, <1>5, <1>6, Zenon
  <2> HIDE DEF C, E
  <2> QED BY <1>2, <1>7, <1>11, <2>1, SwappedBut
<1>13. Sound(e, R, E) /\ SamePairs(e, R, g, R)
  <2> HIDE DEF e, C, E, R
  <2> QED BY <1>5, <1>12, CopiesSwapped DEF SamePairs
<1>14. x = e.rec[rid]
  <2>1. PICK y : y = h.rec[rid] /\ y = [key |-> y.key, value |-> y.value]
    BY <1>2, Zenon DEF RowOK
  <2>2. [y EXCEPT !.value = w.value] = [key |-> y.key, value |-> w.value]
    BY <2>1
  <2> HIDE DEF e
  <2> QED BY <1>6, <1>12, <2>1, <2>2, Zenon
<1> HIDE DEF e, x
<1>15. HasMoved(n, e, R, E, rid)
  <2>1. rid \in R
    OBVIOUS
  <2> HIDE DEF E, R
  <2>2. HasMoved(ReplaceRecord(out.heap, rid, e.rec[rid]), e, R, E, rid)
    BY <1>12, <1>13, <2>1, RecordReplaced, Zenon
  <2> QED BY <1>14, <2>2, Zenon
<1> HIDE DEF n, t
<1>16. Sound(n.heap, S, E) /\ SamePairs(n.heap, S, e, R)
  BY <1>15, Zenon DEF HasMoved, SamePairs
<1>17. Comparable(n.heap, S, E) /\ n.rid \notin (R \ {rid}) \cup E
  <2>1. n.rid \notin (R \ {rid}) \cup E
    BY <1>15, <1>16, Zenon DEF HasMoved, Sound
  <2> QED BY <1>16, <2>1, HeapComparable, Zenon
<1>18. Kept(out.index, n.heap, t, S)
  BY <1>4, <1>10, <1>17, Zenon DEF InsertKept
<1>19. /\ Sound(t.heap, S, Copies(t.index)) /\ SamePairs(t.heap, S, n.heap, S)
       /\ Rows(t.index) = S /\ t = [index |-> t.index, heap |-> t.heap]
       /\ IndexRows(t.index) \in Seq(Nat) /\ IndexCopies(t.index) \in Seq(Nat)
       /\ IsInjective(IndexRows(t.index) \o IndexCopies(t.index)) /\ IndexUnpinned(t.index)
  BY <1>10, <1>16, <1>18, IndexKept
<1>20. Good(t)
  BY <1>19, Zenon DEF Good
<1>21. PairSet(t.heap, Rows(t.index), h, R, k, v)
  BY <1>5, <1>13, <1>16, <1>19, Zenon DEF PairSet, SamePairs
<1> QED BY <1>20, <1>21, Zenon DEF HasSet, t

(* myjql_del of a key that is there, in the row rid. *)
LEMMA Deletes ==
  ASSUME StringsFit, NEW s, Good(s), NEW rid, rid \in Rows(s.index),
         DeleteKept(s.index, s.heap, rid)
  PROVE  HasDel([IndexDelete(s.index, s.heap, rid) EXCEPT !.heap = delete_handler(@, rid)],
                s, Text(s.heap, rid))
<1> DEFINE h == s.heap
           R == Rows(s.index)
           C == Copies(s.index)
           k == Text(h, rid)
           out == IndexDelete(s.index, h, rid)
           E == Copies(out.index)
           m == delete_handler(out.heap, rid)
           t == [out EXCEPT !.heap = delete_handler(@, rid)]
<1>1. Sound(h, R, C)
  BY Zenon DEF Good
<1>2. Comparable(h, R, C)
  BY <1>1, HeapComparable, Zenon
<1>3. Kept(s.index, h, out, R \ {rid})
  BY <1>2, Zenon DEF DeleteKept
<1> HIDE DEF out
<1>4. /\ Sound(out.heap, R, E) /\ SamePairs(out.heap, R, h, R) /\ SameTexts(out.heap, h, R)
      /\ Rows(out.index) = R \ {rid} /\ out = [index |-> out.index, heap |-> out.heap]
      /\ IndexRows(out.index) \in Seq(Nat) /\ IndexCopies(out.index) \in Seq(Nat)
      /\ IsInjective(IndexRows(out.index) \o IndexCopies(out.index)) /\ IndexUnpinned(out.index)
  <2>1. IndexUnpinned(s.index)
    BY Zenon DEF Good
  <2> QED BY <1>1, <1>3, <2>1, IndexKept
<1>5. Text(out.heap, rid) = k
  BY <1>4, Zenon DEF SameTexts
<1>6. Deleted(m, out.heap, rid)
  BY <1>4, RecordDeleted, Zenon
<1>7. t.index = out.index /\ t.heap = m /\ t = [index |-> t.index, heap |-> t.heap]
  <2> HIDE DEF m
  <2>1. t = [out EXCEPT !.heap = m]
    BY DEF m
  <2> HIDE DEF t
  <2> QED BY <1>4, <2>1
<1> HIDE DEF m, t
<1>8. Sound(m, R \ {rid}, E) /\ PairGone(m, R \ {rid}, out.heap, R, Text(out.heap, rid))
  <2>1. DropsRow(m, out.heap, rid)
    BY <1>6, Zenon DEF Deleted
  <2> QED BY <1>4, <2>1, RowRemoved, Zenon
<1>9. Good(t)
  BY <1>4, <1>7, <1>8, Zenon DEF Good
<1>10. PairGone(t.heap, Rows(t.index), h, R, k)
  BY <1>4, <1>5, <1>7, <1>8, Zenon DEF PairGone, SamePairs
<1> QED BY <1>9, <1>10, Zenon DEF HasDel, t, out

-----------------------------------------------------------------------------
(* A search finds the row with the key, if there is one (SearchFinds). *)
Searches(s) ==
  LET rows  == Rows(s.index)
      texts == {Text(s.heap, r) : r \in rows}
  IN  \A k \in Key : LET rid == Found(s, k)
                     IN  IF rid = NoRid THEN k \notin texts
                         ELSE rid \in rows /\ Text(s.heap, rid) = k

(* It does so in a good store. *)
LEMMA GoodSearches ==
  ASSUME StringsFit, NEW s, Good(s),
         Searches(s) \/ ~Comparable(s.heap, Rows(s.index), Copies(s.index))
  PROVE  Searches(s)
<1>1. Sound(s.heap, Rows(s.index), Copies(s.index))
  BY Zenon DEF Good
<1> QED BY <1>1, HeapComparable, Zenon

(* What a get of k finds, by what the rows say. *)
Shows(s, k) ==
  /\ \A v : <<k, v>> \in Pairs(s.heap, Rows(s.index)) => myjql_get(s, k, MAX_STR_LEN) = v
  /\ (\A v : <<k, v>> \notin Pairs(s.heap, Rows(s.index))) => myjql_get(s, k, MAX_STR_LEN) = NoValue

(* A get finds the value of the row with the key. *)
LEMMA GetShows ==
  ASSUME StringsFit, NEW s, Good(s), Searches(s), NEW k \in Key
  PROVE  Shows(s, k)
<1> DEFINE h == s.heap
           R == Rows(s.index)
           rid == Found(s, k)
           get == myjql_get(s, k, MAX_STR_LEN)
<1>1. \A r \in R, q \in R : Text(h, r) = Text(h, q) => r = q
  BY Zenon DEF Good, Sound
<1>2. IF rid = NoRid THEN k \notin {Text(h, r) : r \in R} ELSE rid \in R /\ Text(h, rid) = k
  BY Zenon DEF Searches
<1>3. get = IF rid = NoRid THEN NoValue ELSE Val(h, rid)
  BY Zenon DEF myjql_get, Found, Val
<1> HIDE DEF h, R, rid, get
<1>4. CASE rid = NoRid
  <2>1. \A r \in R : Text(h, r) # k
    BY <1>2, <1>4
  <2>2. \A v : <<k, v>> \notin Pairs(h, R)
    BY <2>1 DEF Pairs
  <2> QED BY <1>3, <1>4, <2>2, Zenon DEF Shows, h, R, get
<1>5. CASE rid # NoRid
  <2>1. <<k, get>> \in Pairs(h, R)
    BY <1>2, <1>3, <1>5 DEF Pairs
  <2>2. ASSUME NEW v, <<k, v>> \in Pairs(h, R) PROVE get = v
    <3>1. PICK r \in R : <<k, v>> = <<Text(h, r), Val(h, r)>>
      BY <2>2 DEF Pairs
    <3>2. r = rid
      BY <1>1, <1>2, <1>5, <3>1
    <3> QED BY <1>3, <1>5, <3>1, <3>2
  <2> QED BY <2>1, <2>2, Zenon DEF Shows, h, R, get
<1> QED BY <1>4, <1>5

(* A pair set, a key gone, or the same pairs: so are the gets. *)
LEMMA ViewSet ==
  ASSUME StringsFit, NEW s, Good(s), Searches(s), NEW t, Searches(t), NEW k \in Key, NEW v,
         HasSet(t, s, k, v)
  PROVE  View(t) = [View(s) EXCEPT ![k] = v]
<1> DEFINE P == Pairs(s.heap, Rows(s.index))
           Q == Pairs(t.heap, Rows(t.index))
           Was(j) == myjql_get(s, j, MAX_STR_LEN)
           Got(j) == myjql_get(t, j, MAX_STR_LEN)
<1>1. Good(t) /\ Q = {p \in P : p[1] # k} \cup {<<k, v>>}
  BY Zenon DEF HasSet, PairSet
<1>2. \A j \in Key : Shows(s, j) /\ Shows(t, j)
  BY <1>1, GetShows, Zenon
<1>3. ASSUME NEW j \in Key PROVE Got(j) = IF j = k THEN v ELSE Was(j)
  <2>1. /\ \A u : <<j, u>> \in P => Was(j) = u
        /\ (\A u : <<j, u>> \notin P) => Was(j) = NoValue
        /\ \A u : <<j, u>> \in Q => Got(j) = u
        /\ (\A u : <<j, u>> \notin Q) => Got(j) = NoValue
    BY <1>2, Zenon DEF Shows
  <2> HIDE DEF P, Q, Was, Got
  <2>2. CASE j = k
    BY <1>1, <2>1, <2>2
  <2>3. CASE j # k
    <3>1. \A u : <<j, u>> \in P <=> <<j, u>> \in Q
      BY <1>1, <2>3
    <3> QED BY <2>1, <2>3, <3>1, Zenon
  <2> QED BY <2>2, <2>3
<1> HIDE DEF Was, Got
<1>4. View(s) = [j \in Key |-> Was(j)] /\ View(t) = [j \in Key |-> Got(j)]
  BY DEF View, Was, Got
<1> QED BY <1>3, <1>4

(* The same for a key that is gone, *)
LEMMA ViewDel ==
  ASSUME StringsFit, NEW s, Good(s), Searches(s), NEW t, Searches(t), NEW k \in Key, HasDel(t, s, k)
  PROVE  View(t) = [View(s) EXCEPT ![k] = NoValue]
<1> DEFINE P == Pairs(s.heap, Rows(s.index))
           Q == Pairs(t.heap, Rows(t.index))
           Was(j) == myjql_get(s, j, MAX_STR_LEN)
           Got(j) == myjql_get(t, j, MAX_STR_LEN)
<1>1. Good(t) /\ Q = {p \in P : p[1] # k}
  BY Zenon DEF HasDel, PairGone
<1>2. \A j \in Key : Shows(s, j) /\ Shows(t, j)
  BY <1>1, GetShows, Zenon
<1>3. ASSUME NEW j \in Key PROVE Got(j) = IF j = k THEN NoValue ELSE Was(j)
  <2>1. /\ \A u : <<j, u>> \in P => Was(j) = u
        /\ (\A u : <<j, u>> \notin P) => Was(j) = NoValue
        /\ \A u : <<j, u>> \in Q => Got(j) = u
        /\ (\A u : <<j, u>> \notin Q) => Got(j) = NoValue
    BY <1>2, Zenon DEF Shows
  <2> HIDE DEF P, Q, Was, Got
  <2>2. CASE j = k
    BY <1>1, <2>1, <2>2
  <2>3. CASE j # k
    <3>1. \A u : <<j, u>> \in P <=> <<j, u>> \in Q
      BY <1>1, <2>3
    <3> QED BY <2>1, <2>3, <3>1, Zenon
  <2> QED BY <2>2, <2>3
<1> HIDE DEF Was, Got
<1>4. View(s) = [j \in Key |-> Was(j)] /\ View(t) = [j \in Key |-> Got(j)]
  BY DEF View, Was, Got
<1> QED BY <1>3, <1>4

(* and for the same rows. *)
LEMMA ViewSame ==
  ASSUME StringsFit, NEW s, Good(s), Searches(s), NEW t, Good(t), Searches(t),
         SamePairs(t.heap, Rows(t.index), s.heap, Rows(s.index))
  PROVE  View(t) = View(s)
<1> DEFINE Was(j) == myjql_get(s, j, MAX_STR_LEN)
           Got(j) == myjql_get(t, j, MAX_STR_LEN)
<1>1. \A j \in Key : Shows(s, j) /\ Shows(t, j)
  BY GetShows, Zenon
<1>2. \A j \in Key : Got(j) = Was(j)
  BY <1>1, Zenon DEF Shows, SamePairs
<1> HIDE DEF Was, Got
<1>3. View(s) = [j \in Key |-> Was(j)] /\ View(t) = [j \in Key |-> Got(j)]
  BY DEF View, Was, Got
<1> QED BY <1>2, <1>3

-----------------------------------------------------------------------------
(* The inductive invariant: a good store, and the gets are what it shows. *)
Inv == Good(store) /\ view = View(store)

(* The store of new files. *)
LEMMA InitGood ==
  ASSUME Init
  PROVE  Inv
<1> DEFINE h == [rec |-> <<>>, str |-> <<>>]
<1>1. store = [index |-> IndexEmpty, heap |-> h] /\ view = View(store)
  BY DEF Init, myjql_init
<1>2. h.rec = <<>> /\ h.str = <<>>
  OBVIOUS
<1> HIDE DEF h
<1>3. store.index = IndexEmpty /\ store.heap = h
  BY <1>1
<1>4. IndexRows(store.index) = <<>> /\ IndexCopies(store.index) = <<>>
  BY <1>3, IndexAssumption
<1>5. Rows(store.index) = {} /\ Copies(store.index) = {}
  BY <1>4 DEF Rows, Copies, Range
<1>6. IsTable(<<>>) /\ DOMAIN <<>> = {}
  BY FS_EmptySet DEF IsTable
<1>7. Sound(h, {}, {})
  BY <1>2, <1>6 DEF Sound
<1>8. IsInjective(<<>> \o <<>>)
  BY DEF IsInjective
<1>9. <<>> \in Seq(Nat)
  OBVIOUS
<1>10. IndexUnpinned(store.index)
  BY <1>3, IndexAssumption
<1> QED BY <1>1, <1>3, <1>4, <1>5, <1>7, <1>8, <1>9, <1>10, Zenon DEF Inv, Good

(* The store after a set. *)
LEMMA SetStep ==
  ASSUME StringsFit, Inv, SearchFinds, SearchFinds', CallsKept, NEW k \in Key, NEW v \in Value, Set(k, v)
  PROVE  Inv' /\ D!Set(k, v)
<1>1. /\ store' = myjql_set(store, k, v) /\ view' = View(store')
      /\ last' = [op |-> "set", key |-> k, value |-> v]
  BY DEF Set
<1>2. last'.op = "set" /\ last'.key = k /\ last'.value = v
  BY <1>1
<1>3. IF Found(store, k) = NoRid THEN SetNewKept(store, k, v)
      ELSE SetOldKept(store, Found(store, k), v)
  BY <1>2, Zenon DEF CallsKept
<1>4. Good(store) /\ view = View(store) /\ Searches(store)
  <2>1. Searches(store) \/ ~Comparable(store.heap, Rows(store.index), Copies(store.index))
    BY Zenon DEF SearchFinds, Searches
  <2> QED BY <2>1, GoodSearches, Zenon DEF Inv
<1>5. HasSet(store', store, k, v)
  <2>1. CASE Found(store, k) = NoRid
    <3>1. store' = SetNew(store, k, v) /\ SetNewKept(store, k, v)
      BY <1>1, <1>3, <2>1, Zenon DEF myjql_set, Found
    <3>2. IsNot(store.heap, Rows(store.index), k)
      BY <1>4, <2>1 DEF Searches, IsNot
    <3>3. HasSet(SetNew(store, k, v), store, k, v)
      BY <1>4, <3>1, <3>2, SetsNew, Zenon
    <3> QED BY <3>1, <3>3, Zenon
  <2>2. CASE Found(store, k) # NoRid
    <3> DEFINE rid == Found(store, k)
    <3>1. store' = SetOld(store, rid, v) /\ SetOldKept(store, rid, v)
      BY <1>1, <1>3, <2>2, Zenon DEF myjql_set, Found
    <3>2. rid \in Rows(store.index) /\ Text(store.heap, rid) = k
      BY <1>4, <2>2, Zenon DEF Searches
    <3> HIDE DEF rid
    <3>3. HasSet(SetOld(store, rid, v), store, Text(store.heap, rid), v)
      BY <1>4, <3>1, <3>2, SetsOld, Zenon
    <3> QED BY <3>1, <3>2, <3>3, Zenon
  <2> QED BY <2>1, <2>2
<1>6. Good(store') /\ Searches(store')
  <2>1. Good(store')
    BY <1>5, Zenon DEF HasSet
  <2>2. Searches(store') \/ ~Comparable(store'.heap, Rows(store'.index), Copies(store'.index))
    BY Zenon DEF SearchFinds, Searches
  <2> QED BY <2>1, <2>2, GoodSearches, Zenon
<1>7. view' = [view EXCEPT ![k] = v]
  <2>1. View(store') = [View(store) EXCEPT ![k] = v]
    BY <1>4, <1>5, <1>6, ViewSet
  <2> QED BY <1>1, <1>4, <2>1, Zenon
<1>8. Inv'
  BY <1>1, <1>6, Zenon DEF Inv
<1> QED BY <1>1, <1>7, <1>8 DEF D!Set

(* The store after a del. *)
LEMMA DelStep ==
  ASSUME StringsFit, Inv, SearchFinds, SearchFinds', CallsKept, NEW k \in Key, Del(k)
  PROVE  Inv' /\ D!Del(k)
<1>1. /\ store' = myjql_del(store, k) /\ view' = View(store')
      /\ last' = [op |-> "del", key |-> k]
  BY DEF Del
<1>2. last'.op = "del" /\ last'.key = k
  BY <1>1
<1> DEFINE rid == Found(store, k)
<1>3. rid = NoRid \/ DeleteKept(store.index, store.heap, rid)
  BY <1>2, Zenon DEF CallsKept
<1>4. Good(store) /\ view = View(store) /\ Searches(store)
  <2>1. Searches(store) \/ ~Comparable(store.heap, Rows(store.index), Copies(store.index))
    BY Zenon DEF SearchFinds, Searches
  <2> QED BY <2>1, GoodSearches, Zenon DEF Inv
<1>5. CASE rid = NoRid
  <2>1. store' = store
    BY <1>1, <1>5, Zenon DEF myjql_del, Found
  <2>2. myjql_get(store, k, MAX_STR_LEN) = NoValue
    BY <1>5, Zenon DEF myjql_get, Found
  <2>3. view = [j \in Key |-> myjql_get(store, j, MAX_STR_LEN)]
    BY <1>4 DEF View
  <2>4. view' = [view EXCEPT ![k] = NoValue]
    BY <1>1, <1>4, <2>1, <2>2, <2>3
  <2>5. Inv'
    BY <1>1, <1>4, <2>1, Zenon DEF Inv
  <2> QED BY <1>1, <2>4, <2>5 DEF D!Del
<1>6. CASE rid # NoRid
  <2> DEFINE t == [IndexDelete(store.index, store.heap, rid) EXCEPT !.heap = delete_handler(@, rid)]
  <2>1. store' = t
    BY <1>1, <1>6, Zenon DEF myjql_del, Found
  <2>2. rid \in Rows(store.index) /\ Text(store.heap, rid) = k
    BY <1>4, <1>6, Zenon DEF Searches
  <2>3. DeleteKept(store.index, store.heap, rid)
    BY <1>3, <1>6
  <2> HIDE DEF rid
  <2>4. HasDel(t, store, Text(store.heap, rid))
    BY <1>4, <2>2, <2>3, Deletes
  <2> HIDE DEF t
  <2>5. HasDel(store', store, k)
    BY <2>1, <2>2, <2>4, Zenon
  <2>6. Good(store') /\ Searches(store')
    <3>1. Good(store')
      BY <2>5, Zenon DEF HasDel
    <3>2. Searches(store') \/ ~Comparable(store'.heap, Rows(store'.index), Copies(store'.index))
      BY Zenon DEF SearchFinds, Searches
    <3> QED BY <3>1, <3>2, GoodSearches, Zenon
  <2>7. view' = [view EXCEPT ![k] = NoValue]
    <3>1. View(store') = [View(store) EXCEPT ![k] = NoValue]
      BY <1>4, <2>5, <2>6, ViewDel
    <3> QED BY <1>1, <1>4, <3>1, Zenon
  <2>8. Inv'
    BY <1>1, <2>6, Zenon DEF Inv
  <2> QED BY <1>1, <2>7, <2>8 DEF D!Del
<1> QED BY <1>5, <1>6

(* The store closed and opened again. *)
LEMMA ReopenStep ==
  ASSUME StringsFit, Inv, SearchFinds, SearchFinds', CallsKept, Reopen
  PROVE  Inv' /\ D!Reopen
<1>1. /\ store' = [store EXCEPT !.index = IndexReopen(@)] /\ view' = View(store')
      /\ last' = [op |-> "open"]
  BY DEF Reopen, myjql_reopen
<1>2. last'.op = "open"
  BY <1>1
<1>3. /\ IndexRows(store'.index) = IndexRows(store.index)
      /\ IndexCopies(store'.index) = IndexCopies(store.index)
      /\ IndexUnpinned(store'.index)
  BY <1>2, Zenon DEF CallsKept
<1>4. Good(store) /\ view = View(store) /\ Searches(store)
  <2>1. Searches(store) \/ ~Comparable(store.heap, Rows(store.index), Copies(store.index))
    BY Zenon DEF SearchFinds, Searches
  <2> QED BY <2>1, GoodSearches, Zenon DEF Inv
<1>5. store'.heap = store.heap /\ store' = [index |-> store'.index, heap |-> store'.heap]
  <2>1. store = [index |-> store.index, heap |-> store.heap]
    BY <1>4, Zenon DEF Good
  <2> QED BY <1>1, <2>1
<1>6. Good(store') /\ SamePairs(store'.heap, Rows(store'.index), store.heap, Rows(store.index))
  BY <1>3, <1>4, <1>5, Zenon DEF Good, Rows, Copies, SamePairs
<1>7. Searches(store')
  <2>1. Searches(store') \/ ~Comparable(store'.heap, Rows(store'.index), Copies(store'.index))
    BY Zenon DEF SearchFinds, Searches
  <2> QED BY <1>6, <2>1, GoodSearches, Zenon
<1>8. view' = view
  <2>1. View(store') = View(store)
    BY <1>4, <1>6, <1>7, ViewSame
  <2> QED BY <1>1, <1>4, <2>1, Zenon
<1>9. Inv'
  BY <1>1, <1>6, Zenon DEF Inv
<1> QED BY <1>1, <1>8, <1>9 DEF D!Reopen

(* Every step of the store is one of the map. *)
LEMMA StoreStep ==
  ASSUME StringsFit, Inv, SearchFinds, SearchFinds', [Next]_vars, [CallsKept]_vars
  PROVE  Inv' /\ [D!Next]_<<view, last>>
<1>1. CASE UNCHANGED vars
  BY <1>1 DEF vars, Inv
<1>2. CASE ~UNCHANGED vars
  <2>1. Next /\ CallsKept
    BY <1>2
  <2>2. ASSUME NEW k \in Key, Get(k) PROVE Inv' /\ D!Get(k)
    <3>1. /\ last' = [op |-> "get", key |-> k, ret |-> myjql_get(store, k, MAX_STR_LEN)]
          /\ store' = store /\ view' = view
      BY <2>2 DEF Get
    <3>2. view = [j \in Key |-> myjql_get(store, j, MAX_STR_LEN)]
      BY DEF Inv, View
    <3>3. view[k] = myjql_get(store, k, MAX_STR_LEN)
      BY <3>2
    <3> QED BY <3>1, <3>3, Zenon DEF Inv, D!Get
  <2>3. CASE \E k \in Key : Get(k) \/ (\E v \in Value : Set(k, v)) \/ Del(k)
    <3>1. PICK k \in Key : Get(k) \/ (\E v \in Value : Set(k, v)) \/ Del(k)
      BY <2>3
    <3>2. CASE Get(k)
      BY <2>2, <3>2 DEF D!Next
    <3>3. CASE \E v \in Value : Set(k, v)
      <4>1. PICK v \in Value : Set(k, v)
        BY <3>3
      <4>2. Inv' /\ D!Set(k, v)
        BY <2>1, <4>1, SetStep
      <4> QED BY <4>2 DEF D!Next
    <3>4. CASE Del(k)
      <4>1. Inv' /\ D!Del(k)
        BY <2>1, <3>4, DelStep
      <4> QED BY <4>1 DEF D!Next
    <3> QED BY <3>1, <3>2, <3>3, <3>4
  <2>4. CASE Reopen
    <3>1. Inv' /\ D!Reopen
      BY <2>1, <2>4, ReopenStep
    <3> QED BY <3>1 DEF D!Next
  <2> QED BY <2>1, <2>3, <2>4 DEF Next
<1> QED BY <1>1, <1>2

-----------------------------------------------------------------------------
(* Two sequences with nothing in common, one after the other. *)
LEMMA InjectiveConcat ==
  ASSUME NEW S, NEW s \in Seq(S), NEW t \in Seq(S), IsInjective(s), IsInjective(t),
         Range(s) \cap Range(t) = {}
  PROVE  IsInjective(s \o t)
<1> DEFINE c == s \o t
           m == Len(s)
           n == Len(t)
<1>1. m \in Nat /\ n \in Nat /\ DOMAIN s = 1 .. m /\ DOMAIN t = 1 .. n
  OBVIOUS
<1>2. /\ c \in Seq(S) /\ Len(c) = m + n
      /\ \A i \in 1 .. m + n : c[i] = IF i <= m THEN s[i] ELSE t[i - m]
  BY ConcatProperties, Zenon
<1>3. DOMAIN c = 1 .. m + n
  BY <1>2
<1>4. /\ \A i \in 1 .. m, j \in 1 .. m : s[i] = s[j] => i = j
      /\ \A i \in 1 .. n, j \in 1 .. n : t[i] = t[j] => i = j
      /\ \A i \in 1 .. m, j \in 1 .. n : s[i] # t[j]
  <2>1. \A i, j \in DOMAIN s : s[i] = s[j] => i = j
    BY Zenon DEF IsInjective
  <2>2. \A i, j \in DOMAIN t : t[i] = t[j] => i = j
    BY Zenon DEF IsInjective
  <2>3. \A i \in DOMAIN s, j \in DOMAIN t : s[i] # t[j]
    BY Zenon DEF Range
  <2> HIDE DEF c, m, n
  <2> QED BY <1>1, <2>1, <2>2, <2>3
<1> HIDE DEF c, m, n
<1>5. ASSUME NEW i \in 1 .. m + n, NEW j \in 1 .. m + n, c[i] = c[j] PROVE i = j
  <2>1. CASE i <= m /\ j <= m
    BY <1>1, <1>2, <1>4, <1>5, <2>1
  <2>2. CASE i <= m /\ ~(j <= m)
    <3>1. i \in 1 .. m /\ j - m \in 1 .. n
      BY <1>1, <2>2
    <3> QED BY <1>2, <1>4, <1>5, <2>2, <3>1
  <2>3. CASE ~(i <= m) /\ j <= m
    <3>1. j \in 1 .. m /\ i - m \in 1 .. n
      BY <1>1, <2>3
    <3> QED BY <1>2, <1>4, <1>5, <2>3, <3>1
  <2>4. CASE ~(i <= m) /\ ~(j <= m)
    <3>1. i - m \in 1 .. n /\ j - m \in 1 .. n /\ c[i] = t[i - m] /\ c[j] = t[j - m]
      BY <1>1, <1>2, <2>4
    <3>2. i - m = j - m
      BY <1>4, <1>5, <3>1
    <3> QED BY <1>1, <3>2
  <2> QED BY <2>1, <2>2, <2>3, <2>4
<1> QED BY <1>3, <1>5 DEF IsInjective, c

(* A chunk is a chunk of the key or value of some record. *)
LEMMA ChunkOwner ==
  ASSUME StringsFit, NEW h, NEW R, NEW C, Sound(h, R, C), NEW x \in DOMAIN h.str
  PROVE  /\ Len(h.str[x].data) \in 1 .. STR_CHUNK_MAX_LEN
         /\ h.str[x].rid # NoRid => /\ Len(h.str[x].data) = STR_CHUNK_MAX_LEN
                                    /\ h.str[x].rid \in DOMAIN h.str
<1>1. PICK r \in DOMAIN h.rec : x \in Chunks(h, r)
  BY Zenon DEF Sound
<1>2. IsTable(h.str) /\ (RowOK(h, r) \/ CopyOK(h, r))
  BY Zenon DEF Sound
<1>3. \E rid : \E data \in Texts : Spells(h.str, rid, data) /\ x \in Range(Chain(h.str, rid))
  <2>1. KeyOK(h, r) /\ (x \in VC(h, r) => ValueOK(h, r))
    <3>1. CASE RowOK(h, r)
      BY <3>1, Zenon DEF RowOK
    <3>2. CASE CopyOK(h, r)
      <4>1. ValueChain(h, r) = <<>>
        BY <1>2, <3>2, CopyChunks, Zenon
      <4>2. VC(h, r) = {}
        BY <4>1 DEF VC, Range
      <4> QED BY <3>2, <4>2, Zenon DEF CopyOK
    <3> QED BY <1>2, <3>1, <3>2
  <2>2. x \in KC(h, r) \/ x \in VC(h, r)
    BY <1>1, Zenon DEF Chunks, KC, VC
  <2>3. Text(h, r) \in Texts /\ Spells(h.str, h.rec[r].key, Text(h, r))
    BY <2>1, Zenon DEF KeyOK, StringsFit
  <2>4. CASE x \in KC(h, r)
    <3>1. x \in Range(Chain(h.str, h.rec[r].key))
      BY <2>4, Zenon DEF KC, KeyChain
    <3> QED BY <2>3, <3>1, Zenon
  <2>5. CASE x \in VC(h, r)
    <3>1. x \in Range(Chain(h.str, h.rec[r].value))
      BY <2>5, Zenon DEF VC, ValueChain
    <3>2. Val(h, r) \in Texts /\ Spells(h.str, h.rec[r].value, Val(h, r))
      BY <2>1, <2>5, Zenon DEF ValueOK, StringsFit
    <3> QED BY <3>1, <3>2, Zenon
  <2> QED BY <2>2, <2>4, <2>5
<1>4. PICK rid, data : data \in Texts /\ Spells(h.str, rid, data) /\ x \in Range(Chain(h.str, rid))
  BY <1>3
<1> QED BY <1>2, <1>4, StringChunks, Zenon

(* The invariant gives the properties. *)
LEMMA GoodTypeOK ==
  ASSUME StringsFit, Inv
  PROVE  TypeOK /\ ChunksPacked /\ ComparisonsExact
<1> DEFINE h == store.heap
           R == Rows(store.index)
           C == Copies(store.index)
<1>1. Sound(h, R, C)
  BY Zenon DEF Inv, Good
<1>2. /\ IsTable(h.str) /\ R \cup C = DOMAIN h.rec
      /\ \A r \in R : RowOK(h, r)
      /\ \A r \in C : CopyOK(h, r)
  BY <1>1, Zenon DEF Sound
<1>3. ASSUME NEW r \in DOMAIN h.rec PROVE h.rec[r].key \in DOMAIN h.str
  <2>1. Text(h, r) \in Texts /\ Spells(h.str, h.rec[r].key, Text(h, r))
    BY <1>2, Zenon DEF RowOK, CopyOK, KeyOK, StringsFit
  <2> QED BY <1>2, <2>1, StringChunks, Zenon
<1>4. ASSUME NEW r \in R PROVE h.rec[r].value \in DOMAIN h.str
  <2>1. Val(h, r) \in Texts /\ Spells(h.str, h.rec[r].value, Val(h, r))
    BY <1>2, Zenon DEF RowOK, ValueOK, StringsFit
  <2> QED BY <1>2, <2>1, StringChunks, Zenon
<1>5. ASSUME NEW r \in DOMAIN h.rec
      PROVE  h.rec[r] \in [key : DOMAIN h.str, value : DOMAIN h.str \cup {NoRid}]
  <2>1. CASE r \in R
    <3>1. PICK y : y = h.rec[r] /\ y = [key |-> y.key, value |-> y.value]
      BY <1>2, <2>1, Zenon DEF RowOK
    <3>2. y.key \in DOMAIN h.str /\ y.value \in DOMAIN h.str
      BY <1>3, <1>4, <2>1, <3>1, Zenon
    <3>3. y \in [key : DOMAIN h.str, value : DOMAIN h.str \cup {NoRid}]
      BY <3>1, <3>2
    <3> QED BY <3>1, <3>3, Zenon
  <2>2. CASE r \in C
    <3>1. PICK y : y = h.rec[r] /\ y = [key |-> y.key, value |-> NoRid]
      BY <1>2, <2>2, Zenon DEF CopyOK
    <3>2. y.key \in DOMAIN h.str
      BY <1>3, <3>1, Zenon
    <3>3. y \in [key : DOMAIN h.str, value : DOMAIN h.str \cup {NoRid}]
      BY <3>1, <3>2
    <3> QED BY <3>1, <3>3, Zenon
  <2> QED BY <1>2, <2>1, <2>2
<1>6. ASSUME NEW x \in DOMAIN h.str
      PROVE  /\ Len(h.str[x].data) \in 1 .. STR_CHUNK_MAX_LEN
             /\ h.str[x].rid # NoRid => /\ Len(h.str[x].data) = STR_CHUNK_MAX_LEN
                                        /\ h.str[x].rid \in DOMAIN h.str
  BY <1>1, ChunkOwner, Zenon
<1>7. TypeOK
  BY <1>5, <1>6, Zenon DEF TypeOK
<1>8. ChunksPacked
  BY <1>6, Zenon DEF ChunksPacked
<1>9. ComparisonsExact
  BY <1>1, HeapComparable, Zenon DEF ComparisonsExact
<1> QED BY <1>7, <1>8, <1>9

(* Nothing is shared and nothing is left behind. *)
LEMMA GoodNothingLeaked ==
  ASSUME StringsFit, Inv
  PROVE  NothingLeaked
<1> DEFINE h == store.heap
           a == IndexRows(store.index)
           b == IndexCopies(store.index)
           R == Rows(store.index)
           C == Copies(store.index)
<1>1. /\ a \in Seq(Nat) /\ b \in Seq(Nat) /\ IsInjective(a \o b)
      /\ Sound(h, R, C)
  BY Zenon DEF Inv, Good
<1>2. /\ IsTable(h.str) /\ R \cup C = DOMAIN h.rec
      /\ \A r \in R : RowOK(h, r)
      /\ \A r \in C : CopyOK(h, r)
      /\ \A r, s \in DOMAIN h.rec : r # s => Chunks(h, r) \cap Chunks(h, s) = {}
      /\ \A x \in DOMAIN h.str : \E r \in DOMAIN h.rec : x \in Chunks(h, r)
  BY <1>1, Zenon DEF Sound
<1>3. Range(a \o b) = DOMAIN h.rec
  <2>1. Range(a \o b) = Range(a) \cup Range(b)
    BY <1>1, RangeConcatenation, ZenonT(40)
  <2> QED BY <1>2, <2>1, Zenon DEF Rows, Copies
<1>4. ASSUME NEW r \in DOMAIN h.rec PROVE IsInjective(KeyChain(h, r) \o ValueChain(h, r))
  <2>1. /\ KeyChain(h, r) \in Seq(DOMAIN h.str) /\ IsInjective(KeyChain(h, r))
    <3>1. Text(h, r) \in Texts /\ Spells(h.str, h.rec[r].key, Text(h, r))
      BY <1>2, Zenon DEF RowOK, CopyOK, KeyOK, StringsFit
    <3> QED BY <1>2, <3>1, StringChunks, Zenon DEF KeyChain
  <2>2. CASE r \in R
    <3>1. Val(h, r) \in Texts /\ Spells(h.str, h.rec[r].value, Val(h, r))
      BY <1>2, <2>2, Zenon DEF RowOK, ValueOK, StringsFit
    <3>2. /\ ValueChain(h, r) \in Seq(DOMAIN h.str) /\ IsInjective(ValueChain(h, r))
      BY <1>2, <3>1, StringChunks, Zenon DEF ValueChain
    <3>3. Range(KeyChain(h, r)) \cap Range(ValueChain(h, r)) = {}
      BY <1>2, <2>2, Zenon DEF RowOK, KC, VC
    <3> QED BY <2>1, <3>2, <3>3, InjectiveConcat, Zenon
  <2>3. CASE r \in C
    <3>1. ValueChain(h, r) = <<>>
      BY <1>2, <2>3, CopyChunks, Zenon
    <3>2. KeyChain(h, r) \o <<>> = KeyChain(h, r)
      BY <2>1, ConcatEmptySeq, Zenon
    <3> QED BY <2>1, <3>1, <3>2, Zenon
  <2> QED BY <1>2, <2>2, <2>3
<1>5. UNION {Chunks(h, r) : r \in DOMAIN h.rec} = DOMAIN h.str
  <2>1. \A r \in DOMAIN h.rec : Chunks(h, r) \subseteq DOMAIN h.str
    BY <1>1, ChunksInUse, Zenon
  <2>2. \A x \in DOMAIN h.str : \E r \in DOMAIN h.rec : x \in Chunks(h, r)
    BY <1>2
  <2> HIDE DEF h
  <2> QED BY <2>1, <2>2
<1> QED BY <1>1, <1>2, <1>3, <1>4, <1>5, Zenon DEF NothingLeaked

-----------------------------------------------------------------------------
(* out is h and one more record, with the key data, no value and chunks of its
   own. *)
IsCopied(out, h, data) ==
  LET g == out.heap
      x == g.rec[out.rid]
  IN  /\ IsTable(g.rec) /\ out.rid \notin DOMAIN h.rec
      /\ DOMAIN g.rec = DOMAIN h.rec \cup {out.rid}
      /\ \A r \in DOMAIN h.rec : g.rec[r] = h.rec[r]
      /\ x = [key |-> x.key, value |-> NoRid]
      /\ Written(h.str, g.str, x.key, data)

(* insert_handler, which walks the chunks of a key and writes each one again,
   from the last to the first, makes a record of its own with the same key and
   no value: no chunk of the copy is a chunk that was there, and nothing that
   was there is changed. *)
THEOREM InsertHandlerCopies ==
  ASSUME NEW h, IsTable(h.rec), IsTable(h.str), NEW r, NEW data \in Texts,
         Spells(h.str, h.rec[r].key, data)
  PROVE  IsCopied(insert_handler(h, r), h, data)
<1> DEFINE out == insert_handler(h, r)
           K == WriteChunks(h.str, KeyPieces(h, r))
           x == [key |-> K.rid, value |-> NoRid]
           i == table_insert(h.rec, x)
           g == [rec |-> i.table, str |-> K.table]
<1>1. Cut(KeyPieces(h, r), data)
  BY CutsKey, Zenon
<1>2. Written(h.str, K.table, K.rid, data)
  BY <1>1, WritesCut, Zenon
<1> HIDE DEF K
<1>3. /\ IsTable(i.table) /\ i.rid \notin DOMAIN h.rec
      /\ DOMAIN i.table = DOMAIN h.rec \cup {i.rid} /\ i.table[i.rid] = x
      /\ \A s \in DOMAIN h.rec : i.table[s] = h.rec[s]
  BY Inserted
<1>4. x.key = K.rid /\ x = [key |-> x.key, value |-> NoRid]
  OBVIOUS
<1> HIDE DEF i, x
<1>5. g.rec = i.table /\ g.str = K.table
  OBVIOUS
<1>6. out = [heap |-> g, rid |-> i.rid]
  BY Zenon DEF insert_handler, K, i, x
<1> HIDE DEF g, out
<1>7. out.heap = g /\ out.rid = i.rid
  BY <1>6
<1>8. out.heap.rec = i.table /\ out.heap.str = K.table /\ out.heap.rec[out.rid] = x
  BY <1>3, <1>5, <1>7, Zenon
<1>9. IsCopied(out, h, data)
  BY <1>2, <1>3, <1>4, <1>7, <1>8, Zenon DEF IsCopied
<1> QED BY <1>9 DEF out

(* Two tables with the same items are the same. *)
LEMMA SameTable ==
  ASSUME NEW t, IsTable(t), NEW u, IsTable(u), DOMAIN u = DOMAIN t,
         \A r \in DOMAIN t : u[r] = t[r]
  PROVE  u = t
<1>1. t = [r \in DOMAIN t |-> t[r]] /\ u = [r \in DOMAIN u |-> u[r]]
  BY DEF IsTable
<1> QED BY <1>1

(* delete_handler takes back what insert_handler did: the record and every
   chunk of the copy, and nothing else.  An inner node that is freed leaves the
   heap as it was before its separator was copied. *)
THEOREM DeleteHandlerUndoes ==
  ASSUME NEW h, IsTable(h.rec), IsTable(h.str), NEW r, NEW data \in Texts,
         Spells(h.str, h.rec[r].key, data)
  PROVE  LET out == insert_handler(h, r)
         IN  delete_handler(out.heap, out.rid) = [rec |-> h.rec, str |-> h.str]
<1> DEFINE out == insert_handler(h, r)
           g == out.heap
           x == g.rec[out.rid]
           rec == table_delete(g.rec, out.rid)
           once == delete_string(g.str, x.key)
           str == delete_string(once, x.value)
<1>1. IsCopied(out, h, data)
  BY InsertHandlerCopies, Zenon
<1> HIDE DEF out
<1>2. /\ IsTable(g.rec) /\ out.rid \notin DOMAIN h.rec
      /\ DOMAIN g.rec = DOMAIN h.rec \cup {out.rid}
      /\ \A s \in DOMAIN h.rec : g.rec[s] = h.rec[s]
      /\ x = [key |-> x.key, value |-> NoRid]
      /\ Written(h.str, g.str, x.key, data)
  BY <1>1, Zenon DEF IsCopied
<1> HIDE DEF g
<1>3. x.value = NoRid
  <2>1. PICK y : y = x /\ y = [key |-> y.key, value |-> NoRid]
    BY <1>2, Zenon
  <2>2. y.value = NoRid
    BY <2>1
  <2> QED BY <2>1, <2>2, Zenon
<1> HIDE DEF x
<1>4. rec = h.rec
  <2>1. IsTable(rec) /\ DOMAIN rec = DOMAIN g.rec \ {out.rid} /\ \A s \in DOMAIN rec : rec[s] = g.rec[s]
    BY <1>2, Removed DEF table_delete
  <2> HIDE DEF rec
  <2>2. DOMAIN rec = DOMAIN h.rec /\ \A s \in DOMAIN h.rec : rec[s] = h.rec[s]
    BY <1>2, <2>1
  <2> QED BY <2>1, <2>2, SameTable
<1>5. once = h.str
  <2>1. /\ IsTable(g.str) /\ DOMAIN g.str = DOMAIN h.str \cup Range(Chain(g.str, x.key))
        /\ Range(Chain(g.str, x.key)) \cap DOMAIN h.str = {}
        /\ \A s \in DOMAIN h.str : g.str[s] = h.str[s]
    BY <1>2, Zenon DEF Written
  <2>2. IsRest(once, g.str, Range(Chain(g.str, x.key)))
    BY <2>1, DeletesString, Zenon
  <2>3. /\ IsTable(once) /\ DOMAIN once = DOMAIN g.str \ Range(Chain(g.str, x.key))
        /\ \A s \in DOMAIN once : once[s] = g.str[s]
    BY <2>2, Zenon DEF IsRest
  <2> HIDE DEF once
  <2>4. DOMAIN once = DOMAIN h.str /\ \A s \in DOMAIN h.str : once[s] = h.str[s]
    BY <2>1, <2>3
  <2> QED BY <2>3, <2>4, SameTable
<1>6. str = h.str
  <2>1. str = delete_string(h.str, NoRid)
    BY <1>3, <1>5, Zenon
  <2>2. IsRest(delete_string(h.str, NoRid), h.str, Range(Chain(h.str, NoRid)))
    BY DeletesString, Zenon
  <2>3. Range(Chain(h.str, NoRid)) = {}
    BY NoChain, Zenon
  <2>4. IsTable(str) /\ DOMAIN str = DOMAIN h.str \ {} /\ \A s \in DOMAIN str : str[s] = h.str[s]
    BY <2>1, <2>2, <2>3, Zenon DEF IsRest
  <2> HIDE DEF str
  <2>5. DOMAIN str = DOMAIN h.str
    BY <2>4
  <2> QED BY <2>4, <2>5, SameTable
<1>7. delete_handler(g, out.rid) = [rec |-> rec, str |-> str]
  BY Zenon DEF delete_handler, x
<1> QED BY <1>4, <1>6, <1>7, Zenon DEF g, out

-----------------------------------------------------------------------------
(* The initial map is empty. *)
LEMMA InitShows ==
  ASSUME StringsFit, Init, SearchFinds
  PROVE  D!Init
<1>1. Inv
  BY InitGood
<1>2. Good(store) /\ view = View(store)
  BY <1>1, Zenon DEF Inv
<1>3. Searches(store) \/ ~Comparable(store.heap, Rows(store.index), Copies(store.index))
  BY Zenon DEF SearchFinds, Searches
<1>4. Searches(store)
  BY <1>2, <1>3, GoodSearches, Zenon
<1>5. Rows(store.index) = {}
  <2>1. store.index = IndexEmpty
    BY DEF Init, myjql_init
  <2> QED BY <2>1, IndexAssumption DEF Rows, Range
<1>6. ASSUME NEW k \in Key PROVE myjql_get(store, k, MAX_STR_LEN) = NoValue
  <2>1. Shows(store, k)
    BY <1>2, <1>4, GetShows, Zenon
  <2>2. \A v : <<k, v>> \notin Pairs(store.heap, Rows(store.index))
    BY <1>5 DEF Pairs
  <2> QED BY <2>1, <2>2, Zenon DEF Shows
<1>7. view = [k \in Key |-> NoValue]
  BY <1>2, <1>6, Zenon DEF View
<1> QED BY <1>7 DEF D!Init, Init

(* What was set is what is shown. *)
LEMMA ReadsBackStep ==
  ASSUME Inv, ReadsBack, [D!Next]_<<view, last>>
  PROVE  ReadsBack'
<1>1. DOMAIN view = Key
  BY DEF Inv, View
<1>2. CASE UNCHANGED <<view, last>>
  BY <1>2 DEF ReadsBack
<1>3. ASSUME NEW k \in Key, D!Get(k) PROVE ReadsBack'
  BY <1>3 DEF ReadsBack, D!Get
<1>4. ASSUME NEW k \in Key, NEW v \in Value, D!Set(k, v) PROVE ReadsBack'
  BY <1>1, <1>4 DEF ReadsBack, D!Set
<1>5. ASSUME NEW k \in Key, D!Del(k) PROVE ReadsBack'
  BY <1>5 DEF ReadsBack, D!Del
<1>6. CASE D!Reopen
  BY <1>6 DEF ReadsBack, D!Reopen
<1> QED BY <1>2, <1>3, <1>4, <1>5, <1>6 DEF D!Next

(* The invariant holds. *)
LEMMA StoreInvariant ==
  ASSUME StringsFit
  PROVE  Spec /\ IndexKeeps => []Inv
<1>1. Init => Inv
  BY InitGood
<1>2. Inv /\ SearchFinds /\ SearchFinds' /\ [Next]_vars /\ [CallsKept]_vars => Inv'
  BY StoreStep
<1> QED BY <1>1, <1>2, PTL DEF Spec, IndexKeeps

(* Records and chunks have their types, and every RID in them is in use, after
   every call and for any index that keeps its side of b_tree.h. *)
THEOREM StoreTypeOK ==
  ASSUME StringsFit
  PROVE  Spec /\ IndexKeeps => []TypeOK
<1>1. Inv => TypeOK
  BY GoodTypeOK
<1> QED BY <1>1, StoreInvariant, PTL

(* No call of the store leaks or shares a record or a chunk: a value that is
   replaced, a key that is deleted and a separator that the index drops are
   freed to the last chunk, and no chunk is freed that is still in use. *)
THEOREM StoreNothingLeaked ==
  ASSUME StringsFit
  PROVE  Spec /\ IndexKeeps => []NothingLeaked
<1>1. Inv => NothingLeaked
  BY GoodNothingLeaked
<1> QED BY <1>1, StoreInvariant, PTL

(* No chunk is ever empty, and one with a next one is full, as has_next_char
   relies on. *)
THEOREM StoreChunksPacked ==
  ASSUME StringsFit
  PROVE  Spec /\ IndexKeeps => []ChunksPacked
<1>1. Inv => ChunksPacked
  BY GoodTypeOK
<1> QED BY <1>1, StoreInvariant, PTL

(* row_row_cmp and ptr_row_cmp order the keys of all records as strings of
   characters, after every call: the order of the index never changes under it. *)
THEOREM StoreComparisonsExact ==
  ASSUME StringsFit
  PROVE  Spec /\ IndexKeeps => []ComparisonsExact
<1>1. Inv => ComparisonsExact
  BY GoodTypeOK
<1> QED BY <1>1, StoreInvariant, PTL

(* The store is the map of myjql.h: myjql_set and myjql_del change what
   myjql_get finds for their key and for no other, and closing and opening the
   store changes nothing. *)
THEOREM StoreImplementsDictionary ==
  ASSUME StringsFit
  PROVE  Spec /\ IndexKeeps => ImplementsDictionary
<1>1. Init /\ SearchFinds => D!Init
  BY InitShows
<1>2. Inv /\ SearchFinds /\ SearchFinds' /\ [Next]_vars /\ [CallsKept]_vars
        => [D!Next]_<<view, last>>
  BY StoreStep
<1> QED BY <1>1, <1>2, StoreInvariant, PTL DEF Spec, IndexKeeps, ImplementsDictionary, D!Spec

(* Every page of the index that a call pinned is released when it returns: the
   store deletes from the index only rows that are there, so that b_tree_delete
   never meets the empty tree it would leave pinned. *)
THEOREM StorePinsBalanced ==
  ASSUME StringsFit
  PROVE  Spec /\ IndexKeeps => []PinsBalanced
<1>1. Inv => PinsBalanced
  BY DEF Inv, Good, PinsBalanced
<1> QED BY <1>1, StoreInvariant, PTL

(* A value that was set is what a get finds, provided that it is not empty and
   fits the buffer of the get. *)
THEOREM StoreReadsBack ==
  ASSUME StringsFit
  PROVE  Spec /\ IndexKeeps => []ReadsBack
<1>1. Init => ReadsBack
  BY DEF Init, ReadsBack
<1>2. Inv /\ ReadsBack /\ [D!Next]_<<view, last>> => ReadsBack'
  BY ReadsBackStep
<1>3. Inv /\ SearchFinds /\ SearchFinds' /\ [Next]_vars /\ [CallsKept]_vars
        => [D!Next]_<<view, last>>
  BY StoreStep
<1> QED BY <1>1, <1>2, <1>3, StoreInvariant, PTL DEF Spec, IndexKeeps
============================================================================
