-------------------------------- MODULE Facts --------------------------------
(* Facts about natural numbers and about short sequences that the proofs of
   several components need. *)
EXTENDS Integers, Sequences, SequenceTheorems, WellFoundedInduction, TLAPS

(* Every nonempty set of natural numbers has a least element. *)
LEMMA LeastNat ==
  ASSUME NEW S, S \subseteq Nat, S # {}
  PROVE  \E m \in S : \A n \in S : m <= n
<1> DEFINE R == OpToRel(<, Nat)
<1>1. IsWellFoundedOn(R, Nat)
  BY NatLessThanWellFounded
<1>2. PICK m \in S : \A y \in S : ~(<<y, m>> \in R)
  BY <1>1, WFMin, Zenon
<1>3. \A y \in S : ~(y < m)
  BY <1>2 DEF OpToRel
<1> QED
  BY <1>3

(* f begins with first and goes on by step. *)
Follows(f, S, first, step) ==
  /\ f \in [Nat -> S] /\ f[0] = first
  /\ \A n \in Nat : f[n + 1] = step[n][f[n]]

(* A function on the natural numbers may be given by its first value and by
   what follows each of its values. *)
LEMMA Recursion ==
  ASSUME NEW S, NEW first, first \in S, NEW step, step \in [Nat -> [S -> S]]
  PROVE  \E f : Follows(f, S, first, step)
<1> DEFINE Upto(n) == {g \in [0 .. n -> S] :
                         g[0] = first /\ \A i \in 0 .. n - 1 : g[i + 1] = step[i][g[i]]}
           Bad == {n \in Nat : Upto(n) = {}}
<1>1. Bad = {}
  <2>1. SUFFICES ASSUME Bad # {} PROVE FALSE
    OBVIOUS
  <2>2. PICK m \in Bad : \A n \in Bad : m <= n
    BY <2>1, LeastNat
  <2>3. m # 0
    <3>1. [i \in 0 .. 0 |-> first] \in Upto(0)
      OBVIOUS
    <3> QED BY <3>1, <2>2
  <2>4. m - 1 \in Nat /\ m - 1 \notin Bad
    BY <2>2, <2>3
  <2>5. PICK g \in Upto(m - 1) : TRUE
    BY <2>4
  <2> DEFINE h == [i \in 0 .. m |-> IF i = m THEN step[m - 1][g[m - 1]] ELSE g[i]]
  <2>6. g[m - 1] \in S
    BY <2>4, <2>5
  <2>7. h \in [0 .. m -> S]
    BY <2>4, <2>5, <2>6
  <2>8. h[0] = first
    BY <2>3, <2>4, <2>5
  <2>9. ASSUME NEW i \in 0 .. m - 1 PROVE h[i + 1] = step[i][h[i]]
    <3>1. h[i] = g[i] /\ h[i + 1] = IF i + 1 = m THEN step[m - 1][g[m - 1]] ELSE g[i + 1]
      BY <2>4
    <3>2. i + 1 # m => i \in 0 .. (m - 1) - 1
      BY <2>4
    <3> QED BY <2>5, <3>1, <3>2, <2>4
  <2>10. h \in Upto(m)
    BY <2>7, <2>8, <2>9
  <2> QED BY <2>2, <2>10
<1>2. ASSUME NEW n \in Nat, NEW g \in Upto(n), NEW h \in Upto(n + 1)
      PROVE  g[n] = h[n]
  <2> DEFINE D == {i \in 0 .. n : g[i] # h[i]}
  <2>1. SUFFICES ASSUME D # {} PROVE FALSE
    BY SMTT(30)
  <2>2. PICK m \in D : \A i \in D : m <= i
    <3>1. D \subseteq Nat
      OBVIOUS
    <3> HIDE DEF D
    <3> QED BY <2>1, <3>1, LeastNat
  <2>3. m # 0
    OBVIOUS
  <2>4. m - 1 \in 0 .. n - 1 /\ g[m - 1] = h[m - 1]
    BY <2>2, <2>3
  <2>5. g[m - 1 + 1] = step[m - 1][g[m - 1]] /\ h[m - 1 + 1] = step[m - 1][h[m - 1]]
    BY <2>4
  <2> QED BY <2>2, <2>4, <2>5
<1> DEFINE G(n) == CHOOSE g \in Upto(n) : TRUE
           f == [n \in Nat |-> G(n)[n]]
<1>3. \A n \in Nat : G(n) \in Upto(n)
  <2>1. \A n \in Nat : Upto(n) # {}
    BY <1>1
  <2> HIDE DEF Upto
  <2> QED BY <2>1
<1> HIDE DEF G
<1>4. f \in [Nat -> S] /\ f[0] = first
  BY <1>3
<1>5. ASSUME NEW n \in Nat PROVE f[n + 1] = step[n][f[n]]
  <2>1. G(n + 1)[n + 1] = step[n][G(n + 1)[n]]
    BY <1>3
  <2>2. G(n)[n] = G(n + 1)[n]
    <3>1. G(n) \in Upto(n) /\ G(n + 1) \in Upto(n + 1)
      BY <1>3
    <3> HIDE DEF Upto
    <3> QED BY <1>2, <3>1
  <2> QED BY <2>1, <2>2
<1>6. \A n \in Nat : f[n + 1] = step[n][f[n]]
  BY <1>5
<1> HIDE DEF f
<1>7. Follows(f, S, first, step)
  BY <1>4, <1>6 DEF Follows
<1> QED BY <1>7

(* Two functions that agree at 0, and after each place where they agree, agree. *)
LEMMA SameFromZero ==
  ASSUME NEW f, NEW g, f[0] = g[0], \A n \in Nat : f[n] = g[n] => f[n + 1] = g[n + 1]
  PROVE  \A n \in Nat : f[n] = g[n]
<1> DEFINE D == {n \in Nat : f[n] # g[n]}
<1>1. SUFFICES ASSUME D # {} PROVE FALSE
  OBVIOUS
<1>2. PICK m \in D : \A n \in D : m <= n
  <2>1. D \subseteq Nat
    OBVIOUS
  <2> HIDE DEF D
  <2> QED BY <1>1, <2>1, LeastNat
<1>3. m \in Nat /\ m # 0 /\ m - 1 \in Nat /\ m - 1 \notin D
  BY <1>2
<1>4. f[m - 1] = g[m - 1]
  BY <1>3
<1>5. f[m - 1 + 1] = g[m - 1 + 1]
  BY <1>3, <1>4
<1> QED BY <1>2, <1>3, <1>5

(* n entries of d bytes fit into m bytes only if n <= m \div d. *)
LEMMA FitsQuotient ==
  ASSUME NEW n \in Nat, NEW m \in Nat, NEW d \in Nat \ {0}, d * n <= m
  PROVE  n <= m \div d
<1> DEFINE q == m \div d
<1>1. q \in Nat /\ m < d * (q + 1)
  OBVIOUS
<1> HIDE DEF q
<1>2. d * n < d * (q + 1)
  BY <1>1
<1>3. ~(n >= q + 1)
  BY <1>1, <1>2
<1> QED BY <1>1, <1>3

-----------------------------------------------------------------------------
(* The only sequence of length 0. *)
LEMMA EmptyOnly == \A S : \A s \in Seq(S) : Len(s) = 0 => s = <<>>
OBVIOUS

(* Taking the first element of a sequence. *)
LEMMA TakeFirst ==
  ASSUME NEW S, NEW s \in Seq(S), s # <<>>
  PROVE  /\ Head(s) = s[1] /\ Tail(s) \in Seq(S)
         /\ Len(s) \in Nat /\ Len(s) >= 1 /\ Len(Tail(s)) = Len(s) - 1
         /\ \A i \in 1 .. Len(s) - 1 : Tail(s)[i] = s[i + 1]
         /\ Len(s) = 1 => Tail(s) = <<>>
<1>1. /\ Head(s) = s[1] /\ Tail(s) \in Seq(S)
      /\ Len(s) \in Nat /\ Len(s) >= 1 /\ Len(Tail(s)) = Len(s) - 1
  OBVIOUS
<1>2. \A i \in 1 .. Len(s) - 1 : Tail(s)[i] = s[i + 1]
  OBVIOUS
<1>3. Len(s) = 1 => Tail(s) = <<>>
  <2>1. Len(s) = 1 => Len(Tail(s)) = 0
    BY <1>1
  <2> QED BY <1>1, <2>1, EmptyOnly, Zenon
<1> QED BY <1>1, <1>2, <1>3

(* Appending to the sequences of at most two elements. *)
LEMMA Appended ==
  \A x, y, z : /\ Append(<<>>, x) = <<x>> /\ Append(<<y>>, x) = <<y, x>>
               /\ Append(<<z, y>>, x) = <<z, y, x>>
<1> TAKE x, y, z
<1>1. Append(<<>>, x) = <<x>>
  OBVIOUS
<1>2. ASSUME NEW s \in Seq({x, y, z}), NEW t \in Seq({x, y, z}), Len(t) = Len(s) + 1,
             \A i \in 1 .. Len(s) : t[i] = s[i], t[Len(s) + 1] = x
      PROVE  Append(s, x) = t
  <2>1. /\ Append(s, x) \in Seq({x, y, z}) /\ Len(Append(s, x)) = Len(s) + 1
        /\ \A i \in 1 .. Len(s) : Append(s, x)[i] = s[i]
        /\ Append(s, x)[Len(s) + 1] = x /\ Len(s) \in Nat
    BY AppendProperties
  <2>2. \A i \in 1 .. Len(s) + 1 : Append(s, x)[i] = t[i]
    BY <1>2, <2>1
  <2> QED BY <1>2, <2>1, <2>2, SeqEqual
<1>3. Append(<<y>>, x) = <<y, x>>
  <2>1. /\ <<y>> \in Seq({x, y, z}) /\ <<y, x>> \in Seq({x, y, z})
        /\ Len(<<y>>) = 1 /\ Len(<<y, x>>) = 1 + 1
        /\ \A i \in 1 .. 1 : <<y, x>>[i] = <<y>>[i]
        /\ <<y, x>>[1 + 1] = x
    OBVIOUS
  <2> QED BY <1>2, <2>1, Zenon
<1>4. Append(<<z, y>>, x) = <<z, y, x>>
  <2>1. /\ <<z, y>> \in Seq({x, y, z}) /\ <<z, y, x>> \in Seq({x, y, z})
        /\ Len(<<z, y>>) = 2 /\ Len(<<z, y, x>>) = 2 + 1
        /\ \A i \in 1 .. 2 : <<z, y, x>>[i] = <<z, y>>[i]
        /\ <<z, y, x>>[2 + 1] = x
    OBVIOUS
  <2> QED BY <1>2, <2>1, Zenon
<1> QED BY <1>1, <1>3, <1>4

(* The end of a sequence, given what it should be. *)
LEMMA Suffix ==
  ASSUME NEW S, NEW s \in Seq(S), NEW N \in Nat, Len(s) = N, NEW n \in 1 .. N,
         NEW t \in Seq(S), Len(t) = N - n + 1,
         \A i \in 1 .. N - n + 1 : t[i] = s[n + i - 1]
  PROVE  SubSeq(s, n, N) = t
<1> DEFINE u == SubSeq(s, n, N)
<1>1. \A i \in n .. N : s[i] \in S
  BY ElementOfSeq
<1>2. u \in Seq(S) /\ Len(u) = N - n + 1 /\ \A i \in 1 .. N - n + 1 : u[i] = s[n + i - 1]
  BY <1>1, SubSeqProperties
<1> HIDE DEF u
<1>3. u = t
  BY <1>2, SeqEqual
<1> QED BY <1>3 DEF u

(* The ends of a sequence of three elements, *)
LEMMA Rest3 ==
  ASSUME NEW x, NEW y, NEW z
  PROVE  LET s == <<x, y, z>>
         IN  /\ SubSeq(s, 1, Len(s)) = s /\ SubSeq(s, 2, Len(s)) = <<y, z>>
             /\ SubSeq(s, 3, Len(s)) = <<z>>
<1> DEFINE S == {x, y, z}
<1>1. <<x, y, z>> \in Seq(S) /\ Len(<<x, y, z>>) = 3
  OBVIOUS
<1>2. SubSeq(<<x, y, z>>, 1, 3) = <<x, y, z>>
  <2>1. /\ <<x, y, z>> \in Seq(S) /\ Len(<<x, y, z>>) = 3 - 1 + 1
        /\ 3 \in Nat /\ 1 \in 1 .. 3
        /\ \A i \in 1 .. 3 - 1 + 1 : <<x, y, z>>[i] = <<x, y, z>>[1 + i - 1]
    OBVIOUS
  <2> QED BY <1>1, <2>1, Suffix, Zenon
<1>3. SubSeq(<<x, y, z>>, 2, 3) = <<y, z>>
  <2>1. /\ <<y, z>> \in Seq(S) /\ Len(<<y, z>>) = 3 - 2 + 1
        /\ 3 \in Nat /\ 2 \in 1 .. 3
        /\ \A i \in 1 .. 3 - 2 + 1 : <<y, z>>[i] = <<x, y, z>>[2 + i - 1]
    OBVIOUS
  <2> QED BY <1>1, <2>1, Suffix, Zenon
<1>4. SubSeq(<<x, y, z>>, 3, 3) = <<z>>
  <2>1. /\ <<z>> \in Seq(S) /\ Len(<<z>>) = 3 - 3 + 1
        /\ 3 \in Nat /\ 3 \in 1 .. 3
        /\ \A i \in 1 .. 3 - 3 + 1 : <<z>>[i] = <<x, y, z>>[3 + i - 1]
    OBVIOUS
  <2> QED BY <1>1, <2>1, Suffix, Zenon
<1> QED BY <1>1, <1>2, <1>3, <1>4, Zenon

(* and of one of five. *)
LEMMA Rest5 ==
  ASSUME NEW x, NEW y, NEW z, NEW u, NEW v
  PROVE  LET s == <<x, y, z, u, v>>
         IN  /\ SubSeq(s, 1, Len(s)) = s /\ SubSeq(s, 2, Len(s)) = <<y, z, u, v>>
             /\ SubSeq(s, 3, Len(s)) = <<z, u, v>> /\ SubSeq(s, 4, Len(s)) = <<u, v>>
             /\ SubSeq(s, 5, Len(s)) = <<v>>
<1> DEFINE S == {x, y, z, u, v}
<1>1. <<x, y, z, u, v>> \in Seq(S) /\ Len(<<x, y, z, u, v>>) = 5
  OBVIOUS
<1>2. SubSeq(<<x, y, z, u, v>>, 1, 5) = <<x, y, z, u, v>>
  <2>1. /\ <<x, y, z, u, v>> \in Seq(S) /\ Len(<<x, y, z, u, v>>) = 5 - 1 + 1
        /\ 5 \in Nat /\ 1 \in 1 .. 5
        /\ \A i \in 1 .. 5 - 1 + 1 : <<x, y, z, u, v>>[i] = <<x, y, z, u, v>>[1 + i - 1]
    OBVIOUS
  <2> QED BY <1>1, <2>1, Suffix, Zenon
<1>3. SubSeq(<<x, y, z, u, v>>, 2, 5) = <<y, z, u, v>>
  <2>1. /\ <<y, z, u, v>> \in Seq(S) /\ Len(<<y, z, u, v>>) = 5 - 2 + 1
        /\ 5 \in Nat /\ 2 \in 1 .. 5
        /\ \A i \in 1 .. 5 - 2 + 1 : <<y, z, u, v>>[i] = <<x, y, z, u, v>>[2 + i - 1]
    OBVIOUS
  <2> QED BY <1>1, <2>1, Suffix, Zenon
<1>4. SubSeq(<<x, y, z, u, v>>, 3, 5) = <<z, u, v>>
  <2>1. /\ <<z, u, v>> \in Seq(S) /\ Len(<<z, u, v>>) = 5 - 3 + 1
        /\ 5 \in Nat /\ 3 \in 1 .. 5
        /\ \A i \in 1 .. 5 - 3 + 1 : <<z, u, v>>[i] = <<x, y, z, u, v>>[3 + i - 1]
    OBVIOUS
  <2> QED BY <1>1, <2>1, Suffix, Zenon
<1>5. SubSeq(<<x, y, z, u, v>>, 4, 5) = <<u, v>>
  <2>1. /\ <<u, v>> \in Seq(S) /\ Len(<<u, v>>) = 5 - 4 + 1
        /\ 5 \in Nat /\ 4 \in 1 .. 5
        /\ \A i \in 1 .. 5 - 4 + 1 : <<u, v>>[i] = <<x, y, z, u, v>>[4 + i - 1]
    OBVIOUS
  <2> QED BY <1>1, <2>1, Suffix, Zenon
<1>6. SubSeq(<<x, y, z, u, v>>, 5, 5) = <<v>>
  <2>1. /\ <<v>> \in Seq(S) /\ Len(<<v>>) = 5 - 5 + 1
        /\ 5 \in Nat /\ 5 \in 1 .. 5
        /\ \A i \in 1 .. 5 - 5 + 1 : <<v>>[i] = <<x, y, z, u, v>>[5 + i - 1]
    OBVIOUS
  <2> QED BY <1>1, <2>1, Suffix, Zenon
<1> QED BY <1>1, <1>2, <1>3, <1>4, <1>5, <1>6, Zenon
=============================================================================
