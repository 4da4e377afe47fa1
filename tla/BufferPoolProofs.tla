-------------------------- MODULE BufferPoolProofs --------------------------
(***************************************************************************)
(* Proofs about PoolClient: the pool never evicts a page that is in use,   *)
(* never runs out of frames or reads a page the file does not have, and    *)
(* implements PageStore, for any number of frames, pages and page values,  *)
(* as long as callers hold at most CACHE_PAGE pages at once and no page is *)
(* got SIZE_MAX times from one miss to the next (CountStaysLow).           *)
(***************************************************************************)
EXTENDS PoolClient, FiniteSetTheorems, Facts, TLAPS

(* A size_t that stays in range is not changed by its arithmetic. *)
LEMMA WrapInRange ==
  ASSUME NEW n \in 0 .. SIZE_MAX
  PROVE  Wrap(n) = n
BY PoolAssumption DEF Wrap

(* size_t arithmetic always yields a size_t. *)
LEMMA WrapType ==
  ASSUME NEW n \in Int
  PROVE  Wrap(n) \in size_t
BY PoolAssumption DEF Wrap, size_t

(* The search for a frame to replace ends at an unpinned frame whenever there
   is one, and none of these has been used less. *)
LEMMA VictimUnpinned ==
  ASSUME NEW p \in Pool, Unpinned(p) # {}
  PROVE  /\ Victim(p) \in Slots /\ p.ref[Victim(p)] = 0
         /\ \A j \in Unpinned(p) : p.cnt[Victim(p)] <= p.cnt[j]
<1> DEFINE U == Unpinned(p)
           C == {p.cnt[k] : k \in U}
<1>1. \A k \in U : k \in Nat /\ p.cnt[k] \in Nat
  BY PoolAssumption DEF Unpinned, Slots, Pool, size_t
<1>2. PICK c \in C : \A d \in C : c <= d
  <2>1. C \subseteq Nat /\ C # {}
    BY <1>1
  <2> HIDE DEF C
  <2> QED BY <2>1, LeastNat
<1> DEFINE M == {k \in U : p.cnt[k] = c}
<1>3. PICK k \in M : \A j \in M : k <= j
  <2>1. M \subseteq Nat /\ M # {}
    BY <1>1, <1>2
  <2> HIDE DEF M
  <2> QED BY <2>1, LeastNat
<1>4. \A j \in U : p.cnt[k] < p.cnt[j] \/ (p.cnt[k] = p.cnt[j] /\ k <= j)
  <2> SUFFICES ASSUME NEW j \in U, ~(p.cnt[k] < p.cnt[j])
               PROVE  p.cnt[k] = p.cnt[j] /\ k <= j
    OBVIOUS
  <2>1. p.cnt[k] = c /\ c <= p.cnt[j] /\ p.cnt[j] \in Nat /\ c \in Nat
    BY <1>1, <1>2, <1>3
  <2>2. p.cnt[j] = c
    BY <2>1
  <2> QED BY <1>3, <2>1, <2>2
<1>5. \E i \in Unpinned(p) : \A j \in Unpinned(p) :
        p.cnt[i] < p.cnt[j] \/ (p.cnt[i] = p.cnt[j] /\ i <= j)
  BY <1>3, <1>4
<1>6. /\ Victim(p) \in Unpinned(p)
      /\ \A j \in Unpinned(p) : \/ p.cnt[Victim(p)] < p.cnt[j]
                                \/ p.cnt[Victim(p)] = p.cnt[j] /\ Victim(p) <= j
  BY <1>5 DEF Victim
<1> HIDE DEF U, C, M
<1>7. \A j \in Unpinned(p) : p.cnt[Victim(p)] <= p.cnt[j]
  BY <1>1, <1>6 DEF U
<1> QED BY <1>6, <1>7 DEF Unpinned

(* The part of the invariant that holds between opening and closing. *)
OpenInv == NoDuplicates /\ FramesAgree /\ PinnedStaysPut /\ NothingMissing

(* With no page in two frames, both loops over addrs find its only frame. *)
LEMMA SlotOfUnique ==
  ASSUME NEW p, NEW a \in Addr, NEW k \in Slots, p.addrs[k] = a,
         \A i, j \in Slots : p.addrs[i] = p.addrs[j] /\ p.addrs[i] # NoAddr => i = j
  PROVE  /\ Cached(p, a)
         /\ SlotOf(p, a) = k
         /\ LastSlotOf(p, a) = k
<1>1. a # NoAddr
  BY PoolAssumption DEF Addr, NoAddr
<1>2. \A j \in Slots : p.addrs[j] = a <=> j = k
  BY <1>1
<1>3. \A j \in Slots : ~(j < j) /\ ~(j > j)
  BY PoolAssumption DEF Slots
<1>4. \A i \in Slots : (p.addrs[i] = a /\ \A j \in Slots : j < i => p.addrs[j] # a) <=> i = k
  BY <1>2, <1>3
<1>5. \A i \in Slots : (p.addrs[i] = a /\ \A j \in Slots : j > i => p.addrs[j] # a) <=> i = k
  BY <1>2, <1>3
<1> QED BY <1>4, <1>5 DEF Cached, SlotOf, LastSlotOf

(* get_page finds a frame to replace: the frames are more than the pages held
   once the new one is counted. *)
LEMMA FrameAvailable ==
  ASSUME TypeOK, OpenInv, NEW a \in Addr,
         Cardinality(Held \cup {a}) <= MaxPins, ~Cached(pool, a)
  PROVE  Unpinned(pool) # {}
<1> SUFFICES ASSUME Unpinned(pool) = {} PROVE FALSE
  OBVIOUS
<1>1. ASSUME NEW k \in Slots
      PROVE  pool.addrs[k] \in Held
  <2>1. pool.ref[k] # 0
    BY DEF Unpinned
  <2>2. /\ pool.addrs[k] # NoAddr
        /\ pool.ref[k] = pins[pool.addrs[k]]
    BY <2>1 DEF OpenInv, FramesAgree
  <2>3. pool.addrs[k] \in Addr
    BY <2>2 DEF TypeOK, Pool
  <2>4. pins[pool.addrs[k]] \in Nat
    BY <2>3, ClientAssumption DEF TypeOK
  <2> QED BY <2>1, <2>2, <2>3, <2>4 DEF Held
<1>2. IsFiniteSet(Addr) /\ IsFiniteSet(Slots) /\ Cardinality(Slots) = CACHE_PAGE
  BY PoolAssumption, FS_Interval DEF Addr, Slots
<1>3. IsFiniteSet(Held)
  BY <1>2, FS_Subset DEF Held
<1>4. Cardinality(Slots) <= Cardinality(Held)
  <2> DEFINE f == [k \in Slots |-> pool.addrs[k]]
  <2>1. f \in [Slots -> Held]
    BY <1>1
  <2>2. \A i, j \in Slots : i # j => f[i] # f[j]
    BY <1>1, PoolAssumption DEF OpenInv, NoDuplicates, Held, Addr, NoAddr
  <2>3. f \in Injection(Slots, Held)
    BY <2>1, <2>2 DEF Injection, IsInjective
  <2> HIDE DEF f
  <2> QED BY <1>3, <2>3, FS_Injection
<1>5. a \notin Held
  <2> SUFFICES ASSUME a \in Held PROVE Cached(pool, a)
    OBVIOUS
  <2> QED BY DEF OpenInv, PinnedStaysPut, TypeOK, Cached, Held
<1>6. Cardinality(Held \cup {a}) = Cardinality(Held) + 1
  BY <1>3, <1>5, FS_AddElement
<1> QED BY <1>2, <1>3, <1>4, <1>6, FS_CardinalityType, PoolAssumption, ClientAssumption

(* What get_page does on a miss: the victim's page goes to its place in the
   file, and the frame takes the page asked for, which is either new and empty
   or really in the file. *)
LEMMA MissEffect ==
  ASSUME TypeOK, OpenInv, NEW a \in Addr, a <= pool.length,
         ~Cached(pool, a), Unpinned(pool) # {}
  PROVE  LET k == Victim(pool)
             b == pool.addrs[k]
             r == get_page(pool, a)
         IN  /\ k \in Slots
             /\ pool.ref[k] = 0
             /\ r \in Pool
             /\ r.open = pool.open
             /\ r.ub = pool.ub
             /\ r.addrs = [pool.addrs EXCEPT ![k] = a]
             /\ r.ref = [pool.ref EXCEPT ![k] = 1]
             /\ r.cnt = [j \in Slots |-> IF j = k THEN 1
                                         ELSE IF pool.cnt[j] = SIZE_MAX THEN SIZE_MAX
                                         ELSE 0]
             /\ r.length = IF a = pool.length THEN a + 1 ELSE pool.length
             /\ r.disk = IF b = NoAddr THEN pool.disk
                         ELSE [pool.disk EXCEPT ![b] = pool.pages[k]]
             /\ r.phys = IF b = NoAddr \/ b < pool.phys THEN pool.phys ELSE b + 1
             /\ r.pages = [pool.pages EXCEPT ![k] = IF a = pool.length THEN EMPTY_PAGE
                                                    ELSE pool.disk[a]]
<1> DEFINE k == Victim(pool)
           b == pool.addrs[k]
           q == WriteBack(pool, k)
           r == get_page(pool, a)
           disk == IF b = NoAddr THEN pool.disk
                   ELSE [pool.disk EXCEPT ![b] = pool.pages[k]]
           phys == IF b = NoAddr \/ b < pool.phys THEN pool.phys ELSE b + 1
<1>p. pool \in Pool
  BY DEF TypeOK
<1>1. k \in Slots /\ pool.ref[k] = 0
  BY <1>p, VictimUnpinned
<1>2. b = NoAddr \/ (b \in Addr /\ b < pool.length)
  BY <1>p, <1>1 DEF Pool, OpenInv, FramesAgree
<1>3. b = NoAddr <=> pool.cnt[k] = SIZE_MAX
  BY <1>1 DEF OpenInv, FramesAgree
<1>4. b # a /\ a # NoAddr
  BY <1>1, PoolAssumption DEF Cached, Addr, NoAddr
<1> HIDE DEF k
<1>5. /\ disk \in [Addr -> Page]
      /\ phys \in 0 .. NPages
      /\ disk[a] = pool.disk[a]
      /\ phys >= pool.phys
  BY <1>p, <1>1, <1>2, <1>4, PoolAssumption DEF Pool, Addr
<1>6. q = [pool EXCEPT !.disk = disk, !.phys = phys]
  <2>1. CASE b = NoAddr
    <3>1. q = pool
      BY <2>1, <1>3 DEF WriteBack
    <3>2. disk = pool.disk /\ phys = pool.phys
      BY <2>1
    <3> QED BY <3>1, <3>2, <1>p DEF Pool
  <2>2. CASE b # NoAddr
    <3>1. b \in 0 .. pool.length /\ b # pool.length
      BY <2>2, <1>2, <1>p, PoolAssumption DEF Pool, Addr
    <3>2. q = write_page(pool, pool.pages[k], b)
      BY <2>2, <1>3 DEF WriteBack
    <3>3. q = [pool EXCEPT !.disk[b] = pool.pages[k],
                           !.phys = IF b < @ THEN @ ELSE b + 1,
                           !.length = IF b = @ THEN b + 1 ELSE @]
      BY <3>1, <3>2 DEF write_page
    <3>4. disk = [pool.disk EXCEPT ![b] = pool.pages[k]]
      BY <2>2
    <3>5. phys = IF b < pool.phys THEN pool.phys ELSE b + 1
      BY <2>2
    <3> HIDE DEF disk, phys, b
    <3> QED BY <3>1, <3>3, <3>4, <3>5, <1>p DEF Pool
  <2> QED BY <2>1, <2>2
<1>7. r = Fill(q, k, a)
  BY DEF get_page, k
<1> HIDE DEF disk, phys, q, b
<1>8. /\ q \in Pool
      /\ q.length = pool.length /\ q.disk = disk /\ q.phys = phys
      /\ q.open = pool.open /\ q.ub = pool.ub /\ q.addrs = pool.addrs
      /\ q.cnt = pool.cnt /\ q.ref = pool.ref /\ q.pages = pool.pages
  BY <1>p, <1>5, <1>6 DEF Pool
<1> DEFINE page == IF a = pool.length THEN EMPTY_PAGE ELSE pool.disk[a]
           length == IF a = pool.length THEN a + 1 ELSE pool.length
<1>9. r = [Load(q, k, a, page) EXCEPT !.length = length]
  <2>1. CASE a = pool.length
    BY <2>1, <1>7, <1>8, <1>p, PoolAssumption DEF Fill, Pool, Addr
  <2>2. CASE a # pool.length
    <3>1. a < pool.length
      BY <2>2, <1>p, PoolAssumption DEF Pool, Addr
    <3>2. a < phys
      BY <3>1, <1>5, <1>p, PoolAssumption DEF OpenInv, NothingMissing, Pool, Addr
    <3>3. r = Load(q, k, a, pool.disk[a])
      BY <3>1, <3>2, <1>7, <1>8, <1>5, <1>p, PoolAssumption DEF Fill, ReadSucceeds, Pool, Addr
    <3>4. Load(q, k, a, page).length = length
      BY <3>1, <1>8, <1>p, <2>2 DEF Load, Pool
    <3>5. Load(q, k, a, page) = [Load(q, k, a, page) EXCEPT !.length = length]
      BY <3>4, <1>8 DEF Load, Pool
    <3> QED BY <3>3, <3>5, <2>2
  <2> QED BY <2>1, <2>2
<1>10. page \in Page /\ length \in 0 .. NPages
  BY <1>p, PoolAssumption DEF Pool, Addr
<1>11. 0 \in size_t /\ 1 \in size_t /\ SIZE_MAX \in size_t
  BY PoolAssumption DEF size_t
<1> HIDE DEF page, length, r
<1>12. /\ r \in Pool
       /\ r.open = pool.open
       /\ r.ub = pool.ub
       /\ r.addrs = [pool.addrs EXCEPT ![k] = a]
       /\ r.ref = [pool.ref EXCEPT ![k] = 1]
       /\ r.cnt = [j \in Slots |-> IF j = k THEN 1
                                   ELSE IF pool.cnt[j] = SIZE_MAX THEN SIZE_MAX
                                   ELSE 0]
       /\ r.length = length
       /\ r.disk = disk
       /\ r.phys = phys
       /\ r.pages = [pool.pages EXCEPT ![k] = page]
  BY <1>1, <1>8, <1>9, <1>10, <1>11 DEF Load, Pool
<1> QED BY <1>1, <1>12 DEF page, length, disk, phys, r, b, k

-----------------------------------------------------------------------------
Inv == TypeOK /\ PoolInv

(* The state before the first open_file satisfies the invariant. *)
LEMMA InitInv == Init => Inv
<1> SUFFICES ASSUME Init PROVE Inv
  OBVIOUS
<1> USE PoolAssumption, ClientAssumption
<1>1. pool \in Pool
  BY DEF Init, NewFile, Pool, Addr, Slots, size_t, NoAddr
<1>2. TypeOK
  BY <1>1 DEF Init, TypeOK, Addr, Slots
<1>3. ~pool.open /\ ~pool.ub /\ Held = {} /\ HolesAreZero
  BY DEF Init, NewFile, Held, HolesAreZero
<1> QED BY <1>2, <1>3 DEF Inv, PoolInv, NoUndefinedBehaviour

(* init_buffer_pool preserves the invariant: the frames are empty and the file
   holds every page. *)
LEMMA OpenPoolInv ==
  ASSUME Inv, OpenPool
  PROVE  Inv'
<1> USE PoolAssumption, ClientAssumption DEF Inv, PoolInv, OpenPool
<1>p. pool \in Pool /\ SIZE_MAX \in size_t /\ 0 \in size_t
  BY DEF TypeOK, size_t
<1>1. /\ pool' \in Pool
      /\ pool'.open = TRUE /\ pool'.ub = pool.ub
      /\ pool'.disk = pool.disk /\ pool'.phys = pool.phys /\ pool'.length = pool.phys
      /\ pool'.addrs = [k \in Slots |-> NoAddr]
      /\ pool'.cnt = [k \in Slots |-> SIZE_MAX]
      /\ pool'.ref = [k \in Slots |-> 0]
  BY <1>p DEF Pool, init_buffer_pool
<1>2. TypeOK'
  BY <1>1 DEF TypeOK
<1>3. NoUndefinedBehaviour' /\ HolesAreZero'
  BY <1>1 DEF NoUndefinedBehaviour, HolesAreZero
<1>4. Held' = {}
  BY DEF Held
<1>5. NoDuplicates' /\ FramesAgree' /\ PinnedStaysPut'
  BY <1>1, <1>4 DEF NoDuplicates, FramesAgree, PinnedStaysPut
<1>6. NothingMissing'
  BY <1>1 DEF NothingMissing, TypeOK, Pool
<1> QED BY <1>1, <1>2, <1>3, <1>4, <1>5, <1>6

(* Closing leaves a file of exactly the pages the program counted, each with
   the contents its frame had. *)
LEMMA CloseEffect ==
  ASSUME Inv, ClosePool
  PROVE  /\ pool' \in Pool
         /\ pool'.open = FALSE
         /\ pool'.ub = pool.ub
         /\ pool'.phys = pool.length
         /\ pool'.disk = [a \in Addr |-> IF Cached(pool, a) THEN pool.pages[SlotOf(pool, a)]
                                         ELSE pool.disk[a]]
<1> USE PoolAssumption, ClientAssumption
<1> DEFINE r == close_buffer_pool(pool)
           Good(n) == /\ n >= pool.phys
                      /\ \A a \in Flushed(pool) : a < n
                      /\ n = pool.phys \/ \E a \in Flushed(pool) : n = a + 1
<1>p. pool \in Pool
  BY DEF Inv, TypeOK
<1>o. OpenInv
  BY DEF Inv, PoolInv, ClosePool, OpenInv
<1>1. ASSUME NEW a \in Addr, Cached(pool, a)
      PROVE  /\ a < pool.length
             /\ LastSlotOf(pool, a) = SlotOf(pool, a)
             /\ SlotOf(pool, a) \in Slots
  <2>1. PICK k \in Slots : pool.addrs[k] = a
    BY <1>1 DEF Cached
  <2>2. a < pool.length
    BY <1>o, <2>1 DEF OpenInv, FramesAgree, Addr, NoAddr
  <2>3. SlotOf(pool, a) = k /\ LastSlotOf(pool, a) = k
    BY <1>o, <2>1, SlotOfUnique DEF OpenInv, NoDuplicates
  <2> QED BY <2>2, <2>3
<1>2. Flushed(pool) = {a \in Addr : Cached(pool, a)}
  BY <1>1, <1>p DEF Flushed, Pool, Addr
<1>3. Good(pool.length) /\ \A n \in 0 .. NPages : Good(n) => n = pool.length
  <2>1. pool.phys <= pool.length /\ pool.phys \in Nat /\ pool.length \in 0 .. NPages
    BY <1>o, <1>p DEF OpenInv, NothingMissing, Pool
  <2>2. \A a \in Flushed(pool) : a \in Nat /\ a < pool.length
    BY <1>1, <1>2 DEF Addr
  <2>3. ASSUME pool.length # pool.phys
        PROVE  pool.length - 1 \in Flushed(pool)
    <3>1. pool.length - 1 \in Addr /\ pool.length - 1 < pool.length
          /\ ~(pool.length - 1 < pool.phys)
      BY <2>1, <2>3 DEF Addr
    <3>2. Cached(pool, pool.length - 1)
      BY <3>1, <1>o DEF OpenInv, NothingMissing
    <3> QED BY <3>1, <3>2, <1>2
  <2>4. Good(pool.length)
    <3>1. CASE pool.length = pool.phys
      BY <2>1, <2>2, <3>1
    <3>2. CASE pool.length # pool.phys
      <4>1. pool.length = (pool.length - 1) + 1
        BY <2>1
      <4> QED BY <2>1, <2>2, <2>3, <3>2, <4>1
    <3> QED BY <3>1, <3>2
  <2>5. ASSUME NEW n \in 0 .. NPages, Good(n)
        PROVE  n = pool.length
    <3>1. n <= pool.length
      BY <2>1, <2>2, <2>5
    <3>2. n >= pool.length
      BY <2>1, <2>3, <2>5
    <3> QED BY <2>1, <3>1, <3>2
  <2> QED BY <2>4, <2>5
<1>4. r.phys = pool.length
  <2>1. pool.length \in 0 .. NPages
    BY <1>p DEF Pool
  <2>2. r.phys = CHOOSE n \in 0 .. NPages : Good(n)
    BY <1>p DEF close_buffer_pool, Pool
  <2> HIDE DEF Good
  <2> QED BY <1>3, <2>1, <2>2
<1> DEFINE disk == [a \in Addr |-> IF Cached(pool, a) THEN pool.pages[SlotOf(pool, a)]
                                   ELSE pool.disk[a]]
<1>5. r.disk = disk
  <2>1. r.disk = [a \in Addr |-> IF a \in Flushed(pool) THEN pool.pages[LastSlotOf(pool, a)]
                                 ELSE pool.disk[a]]
    BY <1>p DEF close_buffer_pool, Pool
  <2> QED BY <1>1, <1>2, <2>1
<1>6. disk \in [Addr -> Page]
  BY <1>1, <1>p DEF Pool
<1>7. r = [pool EXCEPT !.open = FALSE, !.disk = r.disk, !.phys = r.phys,
                       !.addrs = [k \in Slots |-> 0], !.cnt = [k \in Slots |-> 0],
                       !.ref = [k \in Slots |-> 0]]
  BY <1>p DEF close_buffer_pool, Pool
<1> HIDE DEF r, disk
<1>8. 0 \in Addr /\ 0 \in size_t /\ pool.length \in 0 .. NPages
  BY <1>p DEF Pool, Addr, size_t
<1> QED
  <2>1. pool' = r
    BY DEF ClosePool, r
  <2>2. r \in Pool /\ r.open = FALSE /\ r.ub = pool.ub
    <3> DEFINE z == [k \in Slots |-> 0]
    <3>1. z \in [Slots -> Addr \cup {NoAddr}] /\ z \in [Slots -> size_t]
      BY <1>8
    <3>2. r = [pool EXCEPT !.open = FALSE, !.disk = disk, !.phys = pool.length,
                           !.addrs = z, !.cnt = z, !.ref = z]
      BY <1>4, <1>5, <1>7
    <3> HIDE DEF z
    <3> QED BY <3>1, <3>2, <1>6, <1>8, <1>p DEF Pool
  <2> QED BY <2>1, <2>2, <1>4, <1>5 DEF disk

(* close_buffer_pool preserves the invariant: nothing that was cached is missing
   from the file it leaves. *)
LEMMA ClosePoolInv ==
  ASSUME Inv, ClosePool
  PROVE  Inv'
<1>1. TypeOK'
  BY CloseEffect DEF Inv, TypeOK, ClosePool
<1>2. NoUndefinedBehaviour' /\ ~pool'.open
  BY CloseEffect DEF Inv, PoolInv, NoUndefinedBehaviour
<1>3. Held' = {}
  BY DEF ClosePool, Held
<1>4. HolesAreZero'
  <2> SUFFICES ASSUME NEW a \in Addr, a >= pool.length
               PROVE  pool'.disk[a] = EMPTY_PAGE
    BY CloseEffect DEF HolesAreZero
  <2>1. pool.length \in Nat /\ pool.phys \in Nat /\ a \in Nat
    BY PoolAssumption DEF Inv, TypeOK, Pool, Addr
  <2>2. ~Cached(pool, a)
    BY <2>1, PoolAssumption
       DEF Inv, PoolInv, ClosePool, FramesAgree, Cached, Addr, NoAddr
  <2>3. pool.phys <= pool.length
    BY DEF Inv, PoolInv, ClosePool, NothingMissing
  <2>4. pool'.disk[a] = pool.disk[a]
    BY <2>2, CloseEffect
  <2> QED BY <2>1, <2>3, <2>4 DEF Inv, PoolInv, HolesAreZero
<1> QED BY <1>1, <1>2, <1>3, <1>4 DEF Inv, PoolInv

(* A hit only counts: the frames, the file and the pointer stay as they are. *)
LEMMA HitEffect ==
  ASSUME Inv, NEW a \in Addr, GetPage(a), Cached(pool, a)
  PROVE  LET k == SlotOf(pool, a)
         IN  /\ k \in Slots
             /\ pool.addrs[k] = a
             /\ a < pool.length
             /\ pool' = [pool EXCEPT !.cnt[k] = @ + 1, !.ref[k] = @ + 1]
             /\ pool.cnt[k] + 1 \in size_t /\ pool.cnt[k] + 1 # SIZE_MAX
             /\ pool.ref[k] + 1 \in size_t
             /\ ptr' = [ptr EXCEPT ![a] = k]
<1> USE PoolAssumption, ClientAssumption
<1> DEFINE k == SlotOf(pool, a)
<1>p. pool \in Pool
  BY DEF Inv, TypeOK
<1>o. OpenInv
  BY DEF Inv, PoolInv, GetPage, OpenInv
<1>1. k \in Slots /\ pool.addrs[k] = a
  <2>1. PICK j \in Slots : pool.addrs[j] = a
    BY DEF Cached
  <2> QED BY <2>1, <1>o, SlotOfUnique DEF OpenInv, NoDuplicates
<1>2. a < pool.length /\ pool.ref[k] = pins[a]
  BY <1>1, <1>o DEF OpenInv, FramesAgree, Addr, NoAddr
<1>3. pool.cnt[k] + 1 \in size_t /\ pool.cnt[k] + 1 # SIZE_MAX
  <2>1. pool.cnt[k] \in size_t
    BY <1>p, <1>1 DEF Pool
  <2>2. pool.cnt[k] + 1 < SIZE_MAX
    BY DEF GetPage, CountStaysLow
  <2> HIDE DEF k
  <2> QED BY <2>1, <2>2 DEF size_t
<1>4. pool.ref[k] + 1 \in size_t
  <2>1. pins[a] \in 0 .. MaxNest /\ pins[a] < MaxNest
    BY DEF GetPage, Inv, TypeOK
  <2> HIDE DEF k
  <2> QED BY <2>1, <1>2 DEF size_t
<1>5. pool' = [pool EXCEPT !.cnt[k] = @ + 1, !.ref[k] = @ + 1]
  <2>1. pool' = Hit(pool, a)
    BY DEF GetPage, get_page
  <2>2. Wrap(pool.cnt[k] + 1) = pool.cnt[k] + 1 /\ Wrap(pool.ref[k] + 1) = pool.ref[k] + 1
    BY <1>3, <1>4, WrapInRange DEF size_t
  <2>3. pool' = [pool EXCEPT !.cnt[k] = Wrap(@ + 1), !.ref[k] = Wrap(@ + 1)]
    BY <2>1 DEF Hit
  <2> HIDE DEF k
  <2> QED BY <2>2, <2>3, <1>1, <1>p DEF Pool
<1>6. ptr' = [ptr EXCEPT ![a] = k]
  <2>1. pool'.addrs = pool.addrs
    BY <1>5, <1>p DEF Pool
  <2>2. Cached(pool', a) /\ SlotOf(pool', a) = k
    BY <2>1 DEF Cached, SlotOf
  <2> QED BY <2>2 DEF GetPage
<1> QED BY <1>1, <1>2, <1>3, <1>4, <1>5, <1>6

(* get_page preserves the invariant when the page is in a frame. *)
LEMMA GetHitInv ==
  ASSUME Inv, NEW a \in Addr, GetPage(a), Cached(pool, a)
  PROVE  Inv'
<1> USE PoolAssumption, ClientAssumption
<1> DEFINE k == SlotOf(pool, a)
<1>p. pool \in Pool
  BY DEF Inv, TypeOK
<1>o. pool.open /\ OpenInv
  BY DEF Inv, PoolInv, GetPage, OpenInv
<1>h. /\ k \in Slots /\ pool.addrs[k] = a /\ a < pool.length
      /\ pool' = [pool EXCEPT !.cnt[k] = @ + 1, !.ref[k] = @ + 1]
      /\ pool.cnt[k] + 1 \in size_t /\ pool.cnt[k] + 1 # SIZE_MAX
      /\ pool.ref[k] + 1 \in size_t
      /\ ptr' = [ptr EXCEPT ![a] = k]
  BY HitEffect
<1> HIDE DEF k
<1>1. /\ pool' \in Pool
      /\ pool'.open = pool.open /\ pool'.ub = pool.ub /\ pool'.addrs = pool.addrs
      /\ pool'.disk = pool.disk /\ pool'.phys = pool.phys /\ pool'.length = pool.length
      /\ pool'.cnt = [pool.cnt EXCEPT ![k] = @ + 1]
      /\ pool'.ref = [pool.ref EXCEPT ![k] = @ + 1]
  BY <1>p, <1>h DEF Pool
<1>2. pins' = [pins EXCEPT ![a] = @ + 1] /\ pins' \in [Addr -> 0 .. MaxNest]
      /\ pins \in [Addr -> 0 .. MaxNest]
  BY DEF GetPage, Inv, TypeOK
<1>3. TypeOK'
  BY <1>1, <1>2, <1>h DEF Inv, TypeOK
<1>4. NoUndefinedBehaviour' /\ HolesAreZero' /\ NoDuplicates'
  BY <1>1, <1>o DEF Inv, PoolInv, NoUndefinedBehaviour, HolesAreZero, NoDuplicates
<1>5. NothingMissing'
  BY <1>1, <1>o DEF OpenInv, NothingMissing, Cached
<1>6. FramesAgree'
  <2> SUFFICES ASSUME NEW j \in Slots
               PROVE  /\ pool'.addrs[j] = NoAddr <=> pool'.cnt[j] = SIZE_MAX
                      /\ pool'.addrs[j] = NoAddr => pool'.ref[j] = 0
                      /\ pool'.addrs[j] # NoAddr =>
                           /\ pool'.addrs[j] < pool'.length
                           /\ pool'.ref[j] = pins'[pool'.addrs[j]]
    BY DEF FramesAgree
  <2>1. a # NoAddr
    BY DEF Addr, NoAddr
  <2>2. CASE j = k
    <3>1. pool.ref[k] = pins[a]
      BY <1>o, <1>h, <2>1 DEF OpenInv, FramesAgree
    <3> QED BY <1>1, <1>2, <1>h, <1>p, <2>1, <2>2, <3>1 DEF Pool
  <2>3. CASE j # k
    <3>1. pool.addrs[j] # a
      BY <1>o, <1>h, <2>1, <2>3 DEF OpenInv, NoDuplicates
    <3>2. pool.addrs[j] \in Addr \cup {NoAddr}
      BY <1>p DEF Pool
    <3> QED BY <1>1, <1>2, <1>p, <1>o, <2>3, <3>1, <3>2 DEF Pool, OpenInv, FramesAgree
  <2> QED BY <2>2, <2>3
<1>7. PinnedStaysPut'
  <2> SUFFICES ASSUME NEW c \in Addr, pins'[c] > 0
               PROVE  pool'.addrs[ptr'[c]] = c
    BY DEF PinnedStaysPut, Held
  <2>1. CASE c = a
    BY <2>1, <1>1, <1>h DEF Inv, TypeOK
  <2>2. CASE c # a
    BY <2>2, <1>1, <1>2, <1>h, <1>o DEF Inv, TypeOK, OpenInv, PinnedStaysPut, Held
  <2> QED BY <2>1, <2>2
<1> QED BY <1>1, <1>3, <1>4, <1>5, <1>6, <1>7, <1>o DEF Inv, PoolInv

(* get_page preserves the invariant when it must replace a frame: only an
   unpinned frame changes hands and its page is in the file afterwards. *)
LEMMA GetMissInv ==
  ASSUME Inv, NEW a \in Addr, GetPage(a), ~Cached(pool, a)
  PROVE  Inv'
<1> USE PoolAssumption, ClientAssumption
<1> DEFINE k == Victim(pool)
           b == pool.addrs[k]
<1>p. pool \in Pool /\ TypeOK
  BY DEF Inv, TypeOK
<1>o. pool.open /\ OpenInv
  BY DEF Inv, PoolInv, GetPage, OpenInv
<1>m. /\ k \in Slots /\ pool.ref[k] = 0
      /\ pool' \in Pool
      /\ pool'.open = pool.open /\ pool'.ub = pool.ub
      /\ pool'.addrs = [pool.addrs EXCEPT ![k] = a]
      /\ pool'.ref = [pool.ref EXCEPT ![k] = 1]
      /\ pool'.cnt = [j \in Slots |-> IF j = k THEN 1
                                      ELSE IF pool.cnt[j] = SIZE_MAX THEN SIZE_MAX
                                      ELSE 0]
      /\ pool'.length = IF a = pool.length THEN a + 1 ELSE pool.length
      /\ pool'.disk = IF b = NoAddr THEN pool.disk
                      ELSE [pool.disk EXCEPT ![b] = pool.pages[k]]
      /\ pool'.phys = IF b = NoAddr \/ b < pool.phys THEN pool.phys ELSE b + 1
  <2>1. Unpinned(pool) # {}
    BY <1>p, <1>o, FrameAvailable DEF GetPage
  <2>2. a <= pool.length /\ pool' = get_page(pool, a)
    BY DEF GetPage
  <2> QED BY <1>p, <1>o, <2>1, <2>2, MissEffect
<1> HIDE DEF k
<1>1. b = NoAddr \/ (b \in Addr /\ b < pool.length /\ pins[b] = 0)
  BY <1>p, <1>m, <1>o DEF Pool, OpenInv, FramesAgree
<1>2. a # NoAddr /\ a <= pool.length /\ b # a
  BY <1>m DEF Addr, NoAddr, GetPage, Cached
<1>3. pins[a] = 0
  <2>1. a \notin Held
    BY <1>o, <1>p DEF OpenInv, PinnedStaysPut, Cached, TypeOK, Held
  <2> QED BY <2>1, <1>p DEF Held, TypeOK
<1>4. /\ pins \in [Addr -> 0 .. MaxNest]
      /\ pins' = [pins EXCEPT ![a] = 1]
      /\ pins' \in [Addr -> 0 .. MaxNest]
  BY <1>3 DEF GetPage, Inv, TypeOK
<1>5. \A j \in Slots : pool'.addrs[j] = IF j = k THEN a ELSE pool.addrs[j]
  BY <1>m, <1>p DEF Pool
<1>6. \A j \in Slots : pool.addrs[j] # a
  BY DEF Cached
<1>7. NoDuplicates'
  BY <1>5, <1>6, <1>o DEF OpenInv, NoDuplicates
<1>8. ptr' = [ptr EXCEPT ![a] = k]
  <2>1. pool'.addrs[k] = a /\ k \in Slots
    BY <1>m, <1>5
  <2>2. \A i, j \in Slots :
          pool'.addrs[i] = pool'.addrs[j] /\ pool'.addrs[i] # NoAddr => i = j
    BY <1>7 DEF NoDuplicates
  <2>3. Cached(pool', a) /\ SlotOf(pool', a) = k
    BY <2>1, <2>2, SlotOfUnique
  <2> QED BY <2>3 DEF GetPage
<1>9. TypeOK'
  BY <1>m, <1>4, <1>8 DEF Inv, TypeOK
<1>n. /\ pool.length \in 0 .. NPages /\ pool.phys \in 0 .. NPages
      /\ pool.phys <= pool.length /\ \A c \in Addr : c \in Nat
  BY <1>p, <1>o DEF Pool, OpenInv, NothingMissing, Addr
<1>10. HolesAreZero'
  <2> SUFFICES ASSUME NEW c \in Addr, c >= pool'.phys
               PROVE  pool'.disk[c] = EMPTY_PAGE
    BY DEF HolesAreZero
  <2>1. CASE b = NoAddr
    BY <2>1, <1>m DEF Inv, PoolInv, HolesAreZero
  <2>2. CASE b # NoAddr
    <3>1. c # b /\ c >= pool.phys
      BY <2>2, <1>1, <1>m, <1>n
    <3> QED BY <2>2, <3>1, <1>1, <1>m, <1>p DEF Inv, PoolInv, HolesAreZero, Pool
  <2> QED BY <2>1, <2>2
<1>11. FramesAgree'
  <2> SUFFICES ASSUME NEW j \in Slots
               PROVE  /\ pool'.addrs[j] = NoAddr <=> pool'.cnt[j] = SIZE_MAX
                      /\ pool'.addrs[j] = NoAddr => pool'.ref[j] = 0
                      /\ pool'.addrs[j] # NoAddr =>
                           /\ pool'.addrs[j] < pool'.length
                           /\ pool'.ref[j] = pins'[pool'.addrs[j]]
    BY DEF FramesAgree
  <2>1. CASE j = k
    <3>1. pool'.addrs[j] = a /\ pool'.cnt[j] = 1 /\ pool'.ref[j] = 1 /\ pins'[a] = 1
      BY <2>1, <1>m, <1>4, <1>p DEF Pool
    <3>2. a < pool'.length
      BY <1>m, <1>2, <1>n
    <3> QED BY <3>1, <3>2, <1>2
  <2>2. CASE j # k
    <3>1. pool'.addrs[j] = pool.addrs[j] /\ pool'.ref[j] = pool.ref[j]
          /\ (pool'.cnt[j] = SIZE_MAX <=> pool.cnt[j] = SIZE_MAX)
      BY <2>2, <1>m, <1>p DEF Pool
    <3>2. pool.addrs[j] # NoAddr => /\ pool.addrs[j] \in Addr
                                    /\ pool.addrs[j] # a
                                    /\ pins'[pool.addrs[j]] = pins[pool.addrs[j]]
      BY <1>p, <1>6, <1>4 DEF Pool
    <3>3. pool'.length >= pool.length
      BY <1>m, <1>n
    <3> QED BY <3>1, <3>2, <3>3, <1>m, <1>n, <1>o DEF OpenInv, FramesAgree
  <2> QED BY <2>1, <2>2
<1>12. PinnedStaysPut'
  <2> SUFFICES ASSUME NEW c \in Addr, pins'[c] > 0
               PROVE  pool'.addrs[ptr'[c]] = c
    BY DEF PinnedStaysPut, Held
  <2>1. CASE c = a
    BY <2>1, <1>5, <1>8, <1>m, <1>p DEF TypeOK
  <2>2. CASE c # a
    <3>1. pins[c] > 0 /\ ptr'[c] = ptr[c] /\ ptr[c] \in Slots
      BY <2>2, <1>4, <1>8, <1>p DEF TypeOK
    <3>2. pool.addrs[ptr[c]] = c
      BY <3>1, <1>o DEF OpenInv, PinnedStaysPut, Held
    <3>3. ptr[c] # k
      <4>1. c # NoAddr /\ pins[c] # 0
        BY <3>1 DEF Addr, NoAddr
      <4> QED BY <4>1, <3>2, <1>1
    <3> QED BY <3>1, <3>2, <3>3, <1>5
  <2> QED BY <2>1, <2>2
<1>13. NothingMissing'
  <2>1. pool'.phys <= pool'.length
    BY <1>m, <1>1, <1>2, <1>n
  <2>2. ASSUME NEW c \in Addr, c < pool'.length
        PROVE  Cached(pool', c) \/ c < pool'.phys
    <3>1. CASE c = a
      BY <3>1, <1>5, <1>m DEF Cached
    <3>2. CASE c = b
      <4>1. b # NoAddr /\ b \in Nat
        BY <3>2, <1>n DEF Addr, NoAddr
      <4>2. pool'.phys = IF b < pool.phys THEN pool.phys ELSE b + 1
        BY <4>1, <1>m
      <4> HIDE DEF b
      <4> QED BY <3>2, <4>1, <4>2, <1>n
    <3>3. CASE c # a /\ c # b
      <4>1. c < pool.length
        BY <2>2, <3>3, <1>m, <1>n
      <4>2. CASE Cached(pool, c)
        BY <4>2, <3>3, <1>5 DEF Cached
      <4>3. CASE c < pool.phys
        BY <4>3, <1>m, <1>n, <1>1
      <4> QED BY <4>1, <4>2, <4>3, <1>o DEF OpenInv, NothingMissing
    <3> QED BY <3>1, <3>2, <3>3
  <2> QED BY <2>1, <2>2 DEF NothingMissing
<1> QED BY <1>m, <1>o, <1>7, <1>9, <1>10, <1>11, <1>12, <1>13
        DEF Inv, PoolInv, NoUndefinedBehaviour

(* A caller's write through its pointer changes one frame's page and nothing the
   invariant speaks of. *)
LEMMA WriteThroughInv ==
  ASSUME Inv, NEW a \in Addr, NEW v \in Page, WriteThrough(a, v)
  PROVE  Inv'
<1>1. /\ pool' \in Pool
      /\ pool'.open = pool.open /\ pool'.ub = pool.ub /\ pool'.addrs = pool.addrs
      /\ pool'.disk = pool.disk /\ pool'.phys = pool.phys /\ pool'.length = pool.length
      /\ pool'.cnt = pool.cnt /\ pool'.ref = pool.ref
      /\ pins' = pins /\ ptr' = ptr
  BY DEF Inv, TypeOK, Pool, WriteThrough
<1>2. TypeOK' /\ Held' = Held
  BY <1>1 DEF Inv, TypeOK, Held
<1>3. NoUndefinedBehaviour' /\ HolesAreZero'
  BY <1>1 DEF Inv, PoolInv, NoUndefinedBehaviour, HolesAreZero
<1>4. pool.open => NoDuplicates' /\ FramesAgree' /\ PinnedStaysPut' /\ NothingMissing'
  BY <1>1, <1>2 DEF Inv, PoolInv, NoDuplicates, FramesAgree, PinnedStaysPut, NothingMissing, Cached
<1> QED BY <1>1, <1>2, <1>3, <1>4 DEF Inv, PoolInv

(* A page that is held is in the frame its caller points to. *)
LEMMA HeldIsCached ==
  ASSUME Inv, NEW a \in Addr, pins[a] > 0
  PROVE  /\ pool.open
         /\ Cached(pool, a)
         /\ SlotOf(pool, a) = ptr[a]
         /\ ptr[a] \in Slots
         /\ pool.addrs[ptr[a]] = a
<1>1. pool.open /\ pool.addrs[ptr[a]] = a
  BY DEF Inv, PoolInv, Held, PinnedStaysPut
<1>2. ptr[a] \in Slots
  BY DEF Inv, TypeOK
<1> QED BY <1>1, <1>2, SlotOfUnique DEF Inv, PoolInv, NoDuplicates

(* release preserves the invariant: the count of the frame and the pin of the
   caller go down together. *)
LEMMA ReleasePageInv ==
  ASSUME Inv, NEW a \in Addr, ReleasePage(a)
  PROVE  Inv'
<1> USE PoolAssumption, ClientAssumption
<1> DEFINE k == ptr[a]
<1>p. pool \in Pool /\ pins \in [Addr -> 0 .. MaxNest] /\ ptr \in [Addr -> Slots]
  BY DEF Inv, TypeOK
<1>1. /\ pool.open /\ Cached(pool, a) /\ SlotOf(pool, a) = k
      /\ k \in Slots /\ pool.addrs[k] = a
  BY HeldIsCached DEF ReleasePage
<1>o. OpenInv
  BY <1>1 DEF Inv, PoolInv, OpenInv
<1>2. pool.ref[k] = pins[a] /\ pins[a] \in 1 .. MaxNest /\ a # NoAddr
  BY <1>1, <1>o, <1>p DEF OpenInv, FramesAgree, ReleasePage, Addr, NoAddr
<1> HIDE DEF k
<1>3. Wrap(pool.ref[k] - 1) = pool.ref[k] - 1 /\ pool.ref[k] - 1 \in size_t
  BY <1>2, WrapInRange DEF size_t
<1>4. pool' = [pool EXCEPT !.ref[k] = @ - 1]
  <2>1. pool' = [pool EXCEPT !.ref[k] = Wrap(@ - 1)]
    BY <1>1 DEF ReleasePage, release
  <2> QED BY <2>1, <1>3, <1>1, <1>p DEF Pool
<1>5. /\ pool' \in Pool
      /\ pool'.open = pool.open /\ pool'.ub = pool.ub /\ pool'.addrs = pool.addrs
      /\ pool'.disk = pool.disk /\ pool'.phys = pool.phys /\ pool'.length = pool.length
      /\ pool'.cnt = pool.cnt
      /\ pool'.ref = [pool.ref EXCEPT ![k] = @ - 1]
  BY <1>p, <1>1, <1>3, <1>4 DEF Pool
<1>6. /\ ptr' = ptr
      /\ pins' = [pins EXCEPT ![a] = @ - 1]
      /\ pins' \in [Addr -> 0 .. MaxNest]
  BY <1>p, <1>2 DEF ReleasePage
<1>7. TypeOK'
  BY <1>5, <1>6, <1>p DEF TypeOK
<1>8. NoUndefinedBehaviour' /\ HolesAreZero' /\ NoDuplicates'
  BY <1>5, <1>o DEF Inv, PoolInv, NoUndefinedBehaviour, HolesAreZero, OpenInv, NoDuplicates
<1>9. NothingMissing'
  BY <1>5, <1>o DEF OpenInv, NothingMissing, Cached
<1>10. PinnedStaysPut'
  BY <1>5, <1>6, <1>p, <1>o DEF OpenInv, PinnedStaysPut, Held
<1>11. FramesAgree'
  <2> SUFFICES ASSUME NEW j \in Slots
               PROVE  /\ pool'.addrs[j] = NoAddr <=> pool'.cnt[j] = SIZE_MAX
                      /\ pool'.addrs[j] = NoAddr => pool'.ref[j] = 0
                      /\ pool'.addrs[j] # NoAddr =>
                           /\ pool'.addrs[j] < pool'.length
                           /\ pool'.ref[j] = pins'[pool'.addrs[j]]
    BY DEF FramesAgree
  <2>1. CASE j = k
    BY <2>1, <1>1, <1>2, <1>5, <1>6, <1>p, <1>o DEF Pool, OpenInv, FramesAgree
  <2>2. CASE j # k
    <3>1. pool.addrs[j] # a
      BY <2>2, <1>1, <1>2, <1>o DEF OpenInv, NoDuplicates
    <3>2. pool'.ref[j] = pool.ref[j] /\ pool.addrs[j] \in Addr \cup {NoAddr}
      BY <2>2, <1>5, <1>p DEF Pool
    <3> QED BY <3>1, <3>2, <1>5, <1>6, <1>p, <1>o DEF OpenInv, FramesAgree
  <2> QED BY <2>1, <2>2
<1> QED BY <1>1, <1>5, <1>7, <1>8, <1>9, <1>10, <1>11 DEF Inv, PoolInv

(* Every step preserves the invariant. *)
LEMMA NextInv ==
  ASSUME Inv, [Next]_vars
  PROVE  Inv'
<1>1. CASE OpenPool
  BY <1>1, OpenPoolInv
<1>2. CASE ClosePool
  BY <1>2, ClosePoolInv
<1>3. ASSUME NEW a \in Addr, GetPage(a)
      PROVE  Inv'
  BY <1>3, GetHitInv, GetMissInv
<1>4. ASSUME NEW a \in Addr, ReleasePage(a)
      PROVE  Inv'
  BY <1>4, ReleasePageInv
<1>5. ASSUME NEW a \in Addr, NEW v \in Page, WriteThrough(a, v)
      PROVE  Inv'
  BY <1>5, WriteThroughInv
<1>6. CASE UNCHANGED vars
  BY <1>6 DEF vars, Inv, TypeOK, PoolInv, NoUndefinedBehaviour, HolesAreZero, Held,
              NoDuplicates, FramesAgree, PinnedStaysPut, NothingMissing, Cached
<1> QED BY <1>1, <1>2, <1>3, <1>4, <1>5, <1>6 DEF Next

(* The invariant with the types holds in every reachable state. *)
LEMMA SpecInv == Spec => []Inv
BY InitInv, NextInv, PTL DEF Spec

(* The pool, the pin counts and the callers' pointers keep their types
   through every sequence of calls. *)
THEOREM TypeCorrect == Spec => []TypeOK
BY SpecInv, PTL DEF Inv

(* The inductive invariant of the pool holds in every reachable state, for
   callers that keep the bounds of GetPage: a use count that stays below the
   mark -1 is what lets the mark tell the empty frames. *)
THEOREM InvariantHolds == Spec => []PoolInv
BY SpecInv, PTL DEF Inv

(* get_page never searches a full pool for a victim and never fails to read a
   page below the length of the file, for callers that keep the bounds of
   GetPage: a page whose use count reached -1 would be evicted unwritten and
   then not be found. *)
THEOREM NeverUndefined == Spec => []NoUndefinedBehaviour
<1>1. Inv => NoUndefinedBehaviour
  BY DEF Inv, PoolInv
<1> QED BY SpecInv, <1>1, PTL

(* The pointer get_page returned stays good until the page is released. *)
THEOREM PinnedPagesStay == Spec => []PinnedStaysPut
<1>1. Inv => PinnedStaysPut
  BY DEF Inv, PoolInv, PinnedStaysPut
<1> QED BY SpecInv, <1>1, PTL

-----------------------------------------------------------------------------
(* The step that could fill a frame never used: a miss replaces one only when
   every used frame is pinned, and then the pages held, the new one counted,
   are more than the used frames. *)
LEMMA MissStaysCold ==
  ASSUME Inv, ColdFramesStayCold, NEW a \in Addr, GetPage(a), ~Cached(pool, a)
  PROVE  ColdFramesStayCold'
<1> DEFINE k == Victim(pool)
           U == {j \in Slots : pool.addrs[j] # NoAddr}
<1>p. pool \in Pool /\ pins \in [Addr -> 0 .. MaxNest]
  BY DEF Inv, TypeOK
<1>o. pool.open /\ OpenInv /\ Cardinality(Held \cup {a}) <= MaxPins /\ a <= pool.length
  BY DEF Inv, PoolInv, GetPage, OpenInv
<1>1. Unpinned(pool) # {}
  BY <1>o, FrameAvailable DEF Inv
<1>2. /\ k \in Slots /\ pool.ref[k] = 0
      /\ pool'.addrs = [pool.addrs EXCEPT ![k] = a]
  BY <1>o, <1>1, MissEffect DEF Inv, GetPage
<1>3. \A j \in Unpinned(pool) : pool.cnt[k] <= pool.cnt[j]
  BY <1>p, <1>1, VictimUnpinned
<1> HIDE DEF k
<1>4. a # NoAddr
  BY PoolAssumption DEF Addr, NoAddr
<1>5. Used' = U \cup {k} /\ Used = U
  BY <1>2, <1>4, <1>p DEF Used, Pool
<1>6. IsFiniteSet(Slots) /\ IsFiniteSet(Held \cup {a})
  <2>1. IsFiniteSet(Addr) /\ IsFiniteSet(Slots)
    BY PoolAssumption, FS_Interval DEF Addr, Slots
  <2>2. Held \cup {a} \subseteq Addr
    BY DEF Held
  <2> QED BY <2>1, <2>2, FS_Subset
<1>7. CASE pool.addrs[k] # NoAddr
  <2>1. Used' = Used
    BY <1>2, <1>5, <1>7
  <2> QED BY <1>o, <2>1 DEF ColdFramesStayCold
<1>8. CASE pool.addrs[k] = NoAddr
  <2>1. ASSUME NEW j \in U
        PROVE  pool.addrs[j] \in Held
    <3>1. j \in Slots /\ pool.addrs[j] \in Addr /\ pool.cnt[j] \in size_t
          /\ pool.cnt[j] # SIZE_MAX /\ pool.cnt[k] = SIZE_MAX
      BY <1>2, <1>8, <1>o, <1>p DEF OpenInv, FramesAgree, Pool
    <3>2. pool.ref[j] # 0
      BY <1>3, <3>1, PoolAssumption DEF Unpinned, size_t
    <3>3. pins[pool.addrs[j]] # 0 /\ pins[pool.addrs[j]] \in Nat
      BY <1>o, <1>p, <3>1, <3>2, ClientAssumption DEF OpenInv, FramesAgree
    <3> QED BY <3>1, <3>3 DEF Held
  <2> DEFINE f == [j \in U \cup {k} |-> IF j = k THEN a ELSE pool.addrs[j]]
  <2>2. f \in [U \cup {k} -> Held \cup {a}]
    BY <2>1
  <2>3. ASSUME NEW i \in U \cup {k}, NEW j \in U \cup {k}, f[i] = f[j]
        PROVE  i = j
    <3>1. \A l \in U : pool.addrs[l] # a
      BY DEF Cached
    <3>2. \A l, m \in U : pool.addrs[l] = pool.addrs[m] => l = m
      BY <1>o DEF OpenInv, NoDuplicates
    <3> QED BY <2>3, <3>1, <3>2
  <2>4. f \in Injection(U \cup {k}, Held \cup {a})
    BY <2>2, <2>3 DEF Injection, IsInjective
  <2>5. Cardinality(U \cup {k}) <= Cardinality(Held \cup {a})
    <3> HIDE DEF f, U
    <3> QED BY <1>6, <2>4, FS_Injection
  <2>6. Cardinality(U \cup {k}) \in Nat /\ Cardinality(Held \cup {a}) \in Nat
    <3>1. U \cup {k} \subseteq Slots
      BY <1>2
    <3> QED BY <1>6, <3>1, FS_Subset, FS_CardinalityType
  <2>7. MaxPins \in Int
    BY ClientAssumption
  <2>8. Cardinality(Used') <= MaxPins
    BY <1>o, <1>5, <2>5, <2>6, <2>7
  <2> QED BY <2>8 DEF ColdFramesStayCold
<1> QED BY <1>7, <1>8

(* Every step leaves frames unused that were not needed. *)
LEMMA NextStaysCold ==
  ASSUME Inv, ColdFramesStayCold, [Next]_vars
  PROVE  ColdFramesStayCold'
<1>1. CASE OpenPool
  <2>1. pool'.addrs = [k \in Slots |-> NoAddr]
    BY <1>1 DEF OpenPool, init_buffer_pool, Inv, TypeOK, Pool
  <2>2. Used' = {}
    BY <2>1 DEF Used
  <2> QED BY <2>2, FS_EmptySet, ClientAssumption DEF ColdFramesStayCold
<1>2. CASE ClosePool
  BY <1>2, CloseEffect DEF ColdFramesStayCold
<1>3. ASSUME NEW a \in Addr, GetPage(a), Cached(pool, a)
      PROVE  ColdFramesStayCold'
  <2>1. pool'.open = pool.open /\ pool'.addrs = pool.addrs
    BY <1>3, HitEffect DEF Inv, TypeOK, Pool
  <2>2. Used' = Used
    BY <2>1 DEF Used
  <2> QED BY <2>1, <2>2 DEF ColdFramesStayCold
<1>4. ASSUME NEW a \in Addr, GetPage(a), ~Cached(pool, a)
      PROVE  ColdFramesStayCold'
  BY <1>4, MissStaysCold
<1>5. ASSUME NEW a \in Addr, ReleasePage(a) \/ \E v \in Page : WriteThrough(a, v)
      PROVE  ColdFramesStayCold'
  <2>1. pool'.open = pool.open /\ pool'.addrs = pool.addrs
    BY <1>5 DEF ReleasePage, release, WriteThrough, Inv, TypeOK, Pool
  <2>2. Used' = Used
    BY <2>1 DEF Used
  <2> QED BY <2>1, <2>2 DEF ColdFramesStayCold
<1>6. CASE UNCHANGED vars
  BY <1>6 DEF vars, ColdFramesStayCold, Used
<1> QED BY <1>1, <1>2, <1>3, <1>4, <1>5, <1>6 DEF Next

(* However many frames the pool has, it never fills more of them than its
   callers hold pages at once, as long as no use count reaches the mark -1. *)
THEOREM FramesStayCold == Spec => []ColdFramesStayCold
<1>1. Init => ColdFramesStayCold
  BY DEF Init, NewFile, ColdFramesStayCold
<1> QED BY <1>1, NextStaysCold, SpecInv, PTL DEF Spec

-----------------------------------------------------------------------------
(* The pool starts as an empty page store. *)
LEMMA InitRefines == Init => Store!Init
<1> SUFFICES ASSUME Init PROVE Store!Init
  OBVIOUS
<1>1. Contents(pool) = [a \in Addr |-> EMPTY_PAGE]
  BY DEF Init, NewFile, Contents
<1> QED BY <1>1 DEF Init, NewFile, Store!Init, Store!Pages, Addr

(* Contents depend on nothing but the frames' addresses and pages and the
   disk. *)
LEMMA SameContents ==
  ASSUME NEW p, NEW q, q.open = p.open, q.addrs = p.addrs,
         q.pages = p.pages, q.disk = p.disk
  PROVE  Contents(q) = Contents(p)
BY DEF Contents, Cached, SlotOf

(* Opening the pool opens the page store with the pages it had. *)
LEMMA OpenRefines ==
  ASSUME Inv, OpenPool
  PROVE  Store!Open
<1>1. /\ pool'.open = TRUE /\ pool'.length = pool.phys /\ pool'.disk = pool.disk
      /\ pool'.addrs = [k \in Slots |-> NoAddr]
  BY DEF Inv, TypeOK, Pool, OpenPool, init_buffer_pool
<1>2. \A a \in Addr : ~Cached(pool', a)
  BY <1>1, PoolAssumption DEF Cached, Addr, NoAddr
<1>3. Contents(pool') = Contents(pool)
  BY <1>1, <1>2 DEF Contents, OpenPool
<1> QED BY <1>1, <1>3 DEF Store!Open, OpenPool

(* Closing the pool closes the page store and changes no page. *)
LEMMA CloseRefines ==
  ASSUME Inv, ClosePool
  PROVE  Store!Close
<1>1. Contents(pool') = Contents(pool)
  BY CloseEffect DEF Contents, ClosePool
<1>2. \A a \in Addr : pins[a] = 0
  BY DEF ClosePool, Held, Inv, TypeOK
<1> QED BY <1>1, <1>2, CloseEffect DEF Store!Close, Store!Pages, Addr, ClosePool

(* A hit is a Get of the page store that changes no page. *)
LEMMA GetHitRefines ==
  ASSUME Inv, NEW a \in Addr, GetPage(a), Cached(pool, a)
  PROVE  Store!Get(a)
<1> DEFINE k == SlotOf(pool, a)
<1>1. /\ k \in Slots /\ a < pool.length
      /\ pool' = [pool EXCEPT !.cnt[k] = @ + 1, !.ref[k] = @ + 1]
  BY HitEffect
<1> HIDE DEF k
<1>2. /\ pool'.open = pool.open /\ pool'.addrs = pool.addrs /\ pool'.pages = pool.pages
      /\ pool'.disk = pool.disk /\ pool'.length = pool.length
  BY <1>1 DEF Inv, TypeOK, Pool
<1>3. Contents(pool') = Contents(pool)
  BY <1>2, SameContents
<1>4. a # pool.length /\ a <= pool.length
  BY <1>1, PoolAssumption DEF Inv, TypeOK, Pool, Addr
<1> QED BY <1>2, <1>3, <1>4 DEF Store!Get, GetPage

(* The heart of the refinement: on a miss the victim's page moves from its
   frame to the disk and the page asked for from the disk to the frame, and no
   page changes. *)
LEMMA GetMissRefines ==
  ASSUME Inv, NEW a \in Addr, GetPage(a), ~Cached(pool, a)
  PROVE  Store!Get(a)
<1> USE PoolAssumption, ClientAssumption
<1> DEFINE k == Victim(pool)
           b == pool.addrs[k]
<1>p. pool \in Pool /\ TypeOK
  BY DEF Inv, TypeOK
<1>o. pool.open /\ OpenInv
  BY DEF Inv, PoolInv, GetPage, OpenInv
<1>m. /\ k \in Slots
      /\ pool'.open = pool.open
      /\ pool'.addrs = [pool.addrs EXCEPT ![k] = a]
      /\ pool'.length = IF a = pool.length THEN a + 1 ELSE pool.length
      /\ pool'.disk = IF b = NoAddr THEN pool.disk
                      ELSE [pool.disk EXCEPT ![b] = pool.pages[k]]
      /\ pool'.pages = [pool.pages EXCEPT ![k] = IF a = pool.length THEN EMPTY_PAGE
                                                 ELSE pool.disk[a]]
  <2>1. Unpinned(pool) # {}
    BY <1>p, <1>o, FrameAvailable DEF GetPage
  <2>2. a <= pool.length /\ pool' = get_page(pool, a)
    BY DEF GetPage
  <2> QED BY <1>p, <1>o, <2>1, <2>2, MissEffect
<1> HIDE DEF k
<1>1. /\ \A j \in Slots : pool'.addrs[j] = IF j = k THEN a ELSE pool.addrs[j]
      /\ \A j \in Slots : j # k => pool'.pages[j] = pool.pages[j]
      /\ pool'.pages[k] = IF a = pool.length THEN EMPTY_PAGE ELSE pool.disk[a]
  BY <1>m, <1>p DEF Pool
<1>2. \A i, j \in Slots :
        pool'.addrs[i] = pool'.addrs[j] /\ pool'.addrs[i] # NoAddr => i = j
  BY GetMissInv, <1>m, <1>o DEF Inv, PoolInv, NoDuplicates
<1>3. \A i, j \in Slots :
        pool.addrs[i] = pool.addrs[j] /\ pool.addrs[i] # NoAddr => i = j
  BY <1>o DEF OpenInv, NoDuplicates
<1>4. b # a
  BY <1>m DEF Cached
<1>5. ASSUME NEW c \in Addr
      PROVE  Contents(pool')[c] = Contents(pool)[c]
  <2>0. c # NoAddr
    BY DEF Addr, NoAddr
  <2>1. CASE c = a
    <3>1. Cached(pool', c) /\ SlotOf(pool', c) = k
      <4>1. k \in Slots /\ pool'.addrs[k] = c
        BY <2>1, <1>m, <1>1
      <4> QED BY <4>1, <1>2, SlotOfUnique
    <3>2. a = pool.length => pool.disk[a] = EMPTY_PAGE
      <4>1. pool.phys <= pool.length
        BY <1>o DEF OpenInv, NothingMissing
      <4> QED BY <4>1, <1>p DEF Inv, PoolInv, HolesAreZero, Pool
    <3>3. Contents(pool')[c] = pool.disk[a]
      BY <3>1, <3>2, <1>1, <1>m, <1>o DEF Contents
    <3>4. Contents(pool)[c] = pool.disk[a]
      BY <2>1 DEF Contents
    <3> QED BY <3>3, <3>4
  <2>2. CASE c = b
    <3>1. ~Cached(pool', c)
      BY <2>0, <2>2, <1>1, <1>3, <1>4, <1>m DEF Cached
    <3>2. Cached(pool, c) /\ SlotOf(pool, c) = k
      BY <2>2, <1>m, <1>3, SlotOfUnique
    <3>3. Contents(pool')[c] = pool'.disk[c]
      BY <3>1 DEF Contents
    <3>4. pool'.disk[c] = pool.pages[k]
      BY <2>0, <2>2, <1>m, <1>p DEF Pool
    <3> QED BY <3>2, <3>3, <3>4, <1>o DEF Contents
  <2>3. CASE c # a /\ c # b /\ Cached(pool, c)
    <3>1. PICK j \in Slots : pool.addrs[j] = c
      BY <2>3 DEF Cached
    <3>2. j # k /\ pool'.addrs[j] = c /\ pool'.pages[j] = pool.pages[j]
      BY <2>3, <3>1, <1>1
    <3>3. SlotOf(pool, c) = j
      BY <3>1, <1>3, SlotOfUnique
    <3>4. Cached(pool', c) /\ SlotOf(pool', c) = j
      BY <3>2, <1>2, SlotOfUnique
    <3> QED BY <2>3, <3>2, <3>3, <3>4, <1>m, <1>o DEF Contents
  <2>4. CASE c # a /\ c # b /\ ~Cached(pool, c)
    <3>1. ~Cached(pool', c)
      BY <2>4, <1>1 DEF Cached
    <3>2. pool'.disk[c] = pool.disk[c]
      BY <2>4, <1>m, <1>p DEF Pool
    <3> QED BY <2>4, <3>1, <3>2 DEF Contents
  <2> QED BY <2>1, <2>2, <2>3, <2>4
<1>6. Contents(pool') = Contents(pool)
  BY <1>5 DEF Contents
<1>7. pool'.length = IF a = pool.length THEN pool.length + 1 ELSE pool.length
  BY <1>m
<1> QED BY <1>6, <1>7, <1>m, <1>o DEF Store!Get, GetPage

(* A write through a pointer is a Put of the page it was given for. *)
LEMMA WriteRefines ==
  ASSUME Inv, NEW a \in Addr, NEW v \in Page, WriteThrough(a, v)
  PROVE  Store!Put(a, v)
<1> DEFINE k == ptr[a]
<1>p. pool \in Pool
  BY DEF Inv, TypeOK
<1>1. /\ pool.open /\ Cached(pool, a) /\ SlotOf(pool, a) = k
      /\ k \in Slots /\ pool.addrs[k] = a
  BY HeldIsCached DEF WriteThrough
<1> HIDE DEF k
<1>2. /\ pool'.open = pool.open /\ pool'.addrs = pool.addrs /\ pool'.disk = pool.disk
      /\ pool'.length = pool.length /\ pool'.phys = pool.phys
      /\ pool'.pages = [pool.pages EXCEPT ![k] = v]
  BY <1>p DEF Pool, WriteThrough, k
<1>3. \A c \in Addr : Cached(pool', c) = Cached(pool, c) /\ SlotOf(pool', c) = SlotOf(pool, c)
  BY <1>2 DEF Cached, SlotOf
<1>4. ASSUME NEW c \in Addr
      PROVE  Contents(pool')[c] = [Contents(pool) EXCEPT ![a] = v][c]
  <2>1. CASE c = a
    BY <2>1, <1>1, <1>2, <1>3, <1>p DEF Contents, Pool
  <2>2. CASE c # a /\ Cached(pool, c)
    <3>1. PICK j \in Slots : pool.addrs[j] = c
      BY <2>2 DEF Cached
    <3>2. SlotOf(pool, c) = j
      BY <3>1, <1>1, SlotOfUnique DEF Inv, PoolInv, NoDuplicates
    <3>3. j # k
      BY <2>2, <3>1, <1>1
    <3>4. pool'.pages[j] = pool.pages[j]
      BY <3>3, <1>2, <1>p DEF Pool
    <3> QED BY <2>2, <3>2, <3>4, <1>1, <1>2, <1>3 DEF Contents
  <2>3. CASE c # a /\ ~Cached(pool, c)
    BY <2>3, <1>2, <1>3 DEF Contents
  <2> QED BY <2>1, <2>2, <2>3
<1>5. Contents(pool') = [Contents(pool) EXCEPT ![a] = v]
  BY <1>4 DEF Contents
<1> QED BY <1>2, <1>5 DEF Store!Put, WriteThrough

(* A release changes nothing the page store keeps but the pin. *)
LEMMA ReleaseRefines ==
  ASSUME Inv, NEW a \in Addr, ReleasePage(a)
  PROVE  Store!Release(a)
<1>1. /\ pool'.open = pool.open /\ pool'.addrs = pool.addrs /\ pool'.pages = pool.pages
      /\ pool'.disk = pool.disk /\ pool'.length = pool.length /\ pool'.phys = pool.phys
  BY DEF Inv, TypeOK, Pool, ReleasePage, release
<1>2. Contents(pool') = Contents(pool)
  BY <1>1, SameContents
<1> QED BY <1>1, <1>2 DEF Store!Release, ReleasePage

(* The pool implements the page store: no eviction, reload, close or reopen
   changes what the pages contain or how many there are, and every call of the
   pool has exactly its abstract effect, for callers that keep the bounds of
   GetPage: no more pages at once than frames, and no page got so often between
   two misses that its use count reaches -1. *)
THEOREM Refinement == Spec => ImplementsPageStore
<1>1. ASSUME Inv, [Next]_vars
      PROVE  [Store!Next]_(Store!vars)
  <2> USE DEF Store!Next, Store!Pages, Addr
  <2>1. CASE OpenPool
    BY <1>1, <2>1, OpenRefines
  <2>2. CASE ClosePool
    BY <1>1, <2>2, CloseRefines
  <2>3. ASSUME NEW a \in Addr, GetPage(a)
        PROVE  Store!Next
    BY <1>1, <2>3, GetHitRefines, GetMissRefines
  <2>4. ASSUME NEW a \in Addr, ReleasePage(a)
        PROVE  Store!Next
    BY <1>1, <2>4, ReleaseRefines
  <2>5. ASSUME NEW a \in Addr, NEW v \in Page, WriteThrough(a, v)
        PROVE  Store!Next
    BY <1>1, <2>5, WriteRefines
  <2>6. CASE UNCHANGED vars
    BY <2>6 DEF vars, Store!vars
  <2> QED BY <1>1, <2>1, <2>2, <2>3, <2>4, <2>5, <2>6 DEF Next
<1> QED BY InitRefines, SpecInv, <1>1, PTL DEF Spec, ImplementsPageStore, Store!Spec
=============================================================================
