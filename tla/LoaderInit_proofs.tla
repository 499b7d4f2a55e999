-------------------------- MODULE LoaderInit_proofs --------------------------
(***************************************************************************)
(* Proofs about LoaderInit, for any threads, drivers and environments.     *)
(* Only the types hold however calls overlap; the rest is proved of an     *)
(* application whose calls are alone until the drivers are sorted          *)
(* (~Together), as the code loses drivers otherwise.                       *)
(*                                                                         *)
(* The vector is a permutation of what was discovered (KeptInv): the       *)
(* insertion sort and ZEL_DRIVERS_ORDER put every driver at one place      *)
(* (Rearranged, Ranking), which takes induction over the sort (Holds).     *)
(* What a call of the loading loop has gone past is loaded if it can be    *)
(* (Loading), and whether it can does not change (Sound): so the answer at *)
(* each turn of the last loop is the names, so far, of the drivers the     *)
(* request is due (Answers), however many drivers others load meanwhile.   *)
(* zeDriverGet goes by the results of zeInit, which a driver that has been *)
(* asked keeps (Told, Legacies).  The order is that of the sort, which     *)
(* later steps leave alone (InOrder), and answers follow it (Along).       *)
(*                                                                         *)
(* Hypotheses on the drivers: NamesFit, GpusApart, PciForGpus.             *)
(***************************************************************************)
EXTENDS LoaderInit, FiniteSetTheorems, SequenceTheorems, TLAPS

-----------------------------------------------------------------------------
(* Numbers *)

LEMMA Smallest ==
  ASSUME NEW T \in SUBSET Nat, T # {}
  PROVE  \E n \in T : \A m \in T : n <= m
<1>1. \E x \in T : \A y \in T : ~(<<y, x>> \in OpToRel(<, Nat))
  BY WFMin, NatLessThanWellFounded
<1>2. PICK x \in T : \A y \in T : ~(<<y, x>> \in OpToRel(<, Nat))
  BY <1>1
<1>3. \A y \in T : ~(y < x)
  BY <1>2 DEF OpToRel
<1>. QED  BY <1>3

\* Induction, over the numbers in a set.
LEMMA SetInduction ==
  ASSUME NEW S, 0 \in S, \A n \in Nat : n \in S => n + 1 \in S
  PROVE  \A n \in Nat : n \in S
<1> SUFFICES ASSUME Nat \ S # {} PROVE FALSE
  OBVIOUS
<1>1. PICK n \in Nat \ S : \A m \in Nat \ S : n <= m
  BY Smallest
<1>2. n # 0
  BY <1>1
<1>3. n - 1 \in Nat
  BY <1>2
<1>4. n - 1 \in S
  BY <1>1, <1>3
<1>. QED  BY <1>1, <1>3, <1>4

LEMMA MinIs ==
  ASSUME NEW T \in SUBSET Nat, T # {}
  PROVE  Min(T) \in T /\ \A m \in T : Min(T) <= m
BY Smallest DEF Min

LEMMA MaxIs ==
  ASSUME NEW N \in Nat, NEW T \in SUBSET (0 .. N), T # {}
  PROVE  Max(T) \in T /\ \A m \in T : m <= Max(T)
<1> DEFINE U == {N - n : n \in T}
<1>1. U \in SUBSET Nat /\ U # {}
  <2>1. \A n \in T : n \in Int /\ n <= N
    OBVIOUS
  <2>2. \A n \in T : N - n \in Nat
    BY <2>1
  <2>. QED  BY <2>2
<1>2. PICK u \in U : \A v \in U : u <= v
  BY <1>1, Smallest
<1>3. PICK n \in T : u = N - n
  BY <1>2
<1>4. \A m \in T : m <= n
  BY <1>2, <1>3
<1>5. \E x \in T : \A y \in T : x >= y
  BY <1>4
<1>6. Max(T) \in T /\ \A y \in T : Max(T) >= y
  BY <1>5 DEF Max
<1>. QED  BY <1>6

-----------------------------------------------------------------------------
(* Sequences put in another order *)

\* The place in s of what is at a place of r.
Places(s, r) ==
  {f \in [DOMAIN s -> DOMAIN s] :
     /\ \A j, k \in DOMAIN s : f[j] = f[k] => j = k
     /\ \A k \in DOMAIN s : \E j \in DOMAIN s : f[j] = k
     /\ \A k \in DOMAIN s : r[k] = s[f[k]]}

Rearranged(s, r) == Len(r) = Len(s) /\ Places(s, r) # {}

LEMMA RearrangedSelf ==
  ASSUME NEW S, NEW s \in Seq(S)
  PROVE  Rearranged(s, s)
<1>1. [k \in DOMAIN s |-> k] \in Places(s, s)
  BY DEF Places
<1>. QED  BY <1>1 DEF Rearranged

LEMMA RearrangedTwice ==
  ASSUME NEW S, NEW s \in Seq(S), NEW r \in Seq(S), NEW q \in Seq(S),
         Rearranged(s, r), Rearranged(r, q)
  PROVE  Rearranged(s, q)
<1>1. PICK f \in Places(s, r) : TRUE
  BY DEF Rearranged
<1>2. PICK g \in Places(r, q) : TRUE
  BY DEF Rearranged
<1>3. DOMAIN r = DOMAIN s /\ Len(q) = Len(s)
  BY DEF Rearranged
<1>4. f \in [DOMAIN s -> DOMAIN s] /\ g \in [DOMAIN s -> DOMAIN s]
  BY <1>1, <1>2, <1>3 DEF Places
<1> DEFINE h == [k \in DOMAIN s |-> f[g[k]]]
<1>5. h \in [DOMAIN s -> DOMAIN s]
  BY <1>4
<1>6. \A j, k \in DOMAIN s : h[j] = h[k] => j = k
  BY <1>1, <1>2, <1>3, <1>4 DEF Places
<1>7. \A k \in DOMAIN s : \E j \in DOMAIN s : h[j] = k
  <2> SUFFICES ASSUME NEW k \in DOMAIN s PROVE \E j \in DOMAIN s : h[j] = k
    OBVIOUS
  <2>1. PICK i \in DOMAIN s : f[i] = k
    BY <1>1 DEF Places
  <2>2. PICK j \in DOMAIN s : g[j] = i
    BY <1>2, <1>3 DEF Places
  <2>. QED  BY <2>1, <2>2
<1>8. \A k \in DOMAIN s : q[k] = s[h[k]]
  BY <1>1, <1>2, <1>3, <1>4 DEF Places
<1>9. h \in Places(s, q)
  <2> HIDE DEF h
  <2>. QED  BY <1>5, <1>6, <1>7, <1>8 DEF Places
<1>. QED  BY <1>3, <1>9 DEF Rearranged

\* What is in one is in the other.
LEMMA RearrangedHas ==
  ASSUME NEW s \in Seq(driver_t), NEW r \in Seq(driver_t), Rearranged(s, r)
  PROVE  /\ DOMAIN r = DOMAIN s
         /\ \A k \in DOMAIN r : \E j \in DOMAIN s : r[k] = s[j]
         /\ \A j \in DOMAIN s : \E k \in DOMAIN r : r[k] = s[j]
<1>1. DOMAIN r = DOMAIN s
  BY DEF Rearranged
<1>2. PICK f \in Places(s, r) : TRUE
  BY DEF Rearranged
<1>3. \A k \in DOMAIN s : f[k] \in DOMAIN s /\ r[k] = s[f[k]]
  BY <1>2 DEF Places
<1>4. \A k \in DOMAIN s : \E j \in DOMAIN s : f[j] = k
  BY <1>2 DEF Places
<1>5. \A j \in DOMAIN s : \E k \in DOMAIN s : r[k] = s[j]
  <2> SUFFICES ASSUME NEW j \in DOMAIN s PROVE \E k \in DOMAIN s : r[k] = s[j]
    OBVIOUS
  <2>1. PICK k \in DOMAIN s : f[k] = j
    BY <1>4
  <2>. QED  BY <1>3, <2>1
<1>. QED  BY <1>1, <1>3, <1>5

LEMMA RearrangedInjective ==
  ASSUME NEW s \in Seq(driver_t), NEW r \in Seq(driver_t), Rearranged(s, r),
         \A j, k \in DOMAIN s : s[j].name = s[k].name => j = k
  PROVE  \A j, k \in DOMAIN r : r[j].name = r[k].name => j = k
<1>1. DOMAIN r = DOMAIN s
  BY RearrangedHas
<1>2. PICK f \in Places(s, r) : TRUE
  BY DEF Rearranged
<1>3. \A k \in DOMAIN s : f[k] \in DOMAIN s /\ r[k] = s[f[k]]
  BY <1>2 DEF Places
<1>4. \A j, k \in DOMAIN s : f[j] = f[k] => j = k
  BY <1>2 DEF Places
<1> SUFFICES ASSUME NEW j \in DOMAIN s, NEW k \in DOMAIN s, r[j].name = r[k].name
             PROVE  j = k
  BY <1>1
<1>5. s[f[j]].name = s[f[k]].name
  BY <1>3
<1>6. f[j] = f[k]
  BY <1>3, <1>5
<1>. QED  BY <1>4, <1>6

-----------------------------------------------------------------------------
(* The insertion sort *)

\* r is s with the driver put at place p.
PutAt(s, p, drv, r) ==
  /\ r \in Seq(driver_t) /\ Len(r) = Len(s) + 1
  /\ \A k \in 1 .. Len(s) + 1 : r[k] = IF k < p THEN s[k] ELSE IF k = p THEN drv ELSE s[k - 1]

NotAfter(s, drv) == {k \in DOMAIN s : ~driverSortComparator(drv, s[k])}

LEMMA InsertedAt ==
  ASSUME NEW s \in Seq(driver_t), NEW drv \in driver_t, NEW p \in 1 .. Len(s) + 1
  PROVE  PutAt(s, p, drv, InsertAt(s, p, drv))
<1> DEFINE a == SubSeq(s, 1, p - 1)
           b == SubSeq(s, p, Len(s))
<1>1. Len(s) \in Nat /\ p \in Nat /\ \A k \in 1 .. Len(s) : s[k] \in driver_t
  OBVIOUS
<1>2. /\ a \in Seq(driver_t) /\ Len(a) = p - 1
      /\ \A k \in 1 .. p - 1 : a[k] = s[k]
  <2>1. \A k \in 1 .. p - 1 : s[k] \in driver_t
    BY <1>1
  <2>2. /\ a \in Seq(driver_t)
        /\ Len(a) = IF 1 <= p - 1 THEN (p - 1) - 1 + 1 ELSE 0
        /\ \A k \in 1 .. (p - 1) - 1 + 1 : a[k] = s[1 + k - 1]
    BY <1>1, <2>1, SubSeqProperties
  <2>. QED  BY <1>1, <2>2
<1>3. /\ b \in Seq(driver_t) /\ Len(b) = Len(s) - p + 1
      /\ \A k \in 1 .. Len(s) - p + 1 : b[k] = s[p + k - 1]
  <2>1. \A k \in p .. Len(s) : s[k] \in driver_t
    BY <1>1
  <2>2. /\ b \in Seq(driver_t)
        /\ Len(b) = IF p <= Len(s) THEN Len(s) - p + 1 ELSE 0
        /\ \A k \in 1 .. Len(s) - p + 1 : b[k] = s[p + k - 1]
    BY <1>1, <2>1, SubSeqProperties
  <2>. QED  BY <1>1, <2>2
<1> HIDE DEF a, b
<1> DEFINE one == <<drv>>
           ad == a \o one
<1>4. one \in Seq(driver_t) /\ Len(one) = 1 /\ one[1] = drv
  OBVIOUS
<1> HIDE DEF one
<1>5. /\ ad \in Seq(driver_t) /\ Len(ad) = p
      /\ \A k \in 1 .. p : ad[k] = IF k < p THEN s[k] ELSE drv
  <2>1. /\ ad \in Seq(driver_t)
        /\ Len(ad) = Len(a) + Len(one)
        /\ \A k \in 1 .. Len(a) + Len(one) : ad[k] = IF k <= Len(a) THEN a[k] ELSE one[k - Len(a)]
    BY <1>2, <1>4, ConcatProperties
  <2>2. \A k \in 1 .. p : k <= p - 1 \/ k - (p - 1) = 1
    BY <1>1
  <2>. QED  BY <1>1, <1>2, <1>4, <2>1, <2>2
<1> HIDE DEF ad
<1> DEFINE r == ad \o b
<1>6. /\ r \in Seq(driver_t)
      /\ Len(r) = Len(ad) + Len(b)
      /\ \A k \in 1 .. Len(ad) + Len(b) : r[k] = IF k <= Len(ad) THEN ad[k] ELSE b[k - Len(ad)]
  BY <1>3, <1>5, ConcatProperties
<1>7. r = InsertAt(s, p, drv)
  BY DEF InsertAt, ad, a, b, one
<1> HIDE DEF r
<1>8. \A k \in 1 .. Len(s) + 1 : k > p => k - p \in 1 .. Len(s) - p + 1 /\ p + (k - p) - 1 = k - 1
  BY <1>1
<1>9. \A k \in 1 .. Len(s) + 1 : r[k] = IF k < p THEN s[k] ELSE IF k = p THEN drv ELSE s[k - 1]
  <2> SUFFICES ASSUME NEW k \in 1 .. Len(s) + 1
               PROVE  r[k] = IF k < p THEN s[k] ELSE IF k = p THEN drv ELSE s[k - 1]
    OBVIOUS
  <2>1. k \in Nat /\ k \in 1 .. Len(ad) + Len(b)
    BY <1>1, <1>3, <1>5
  <2>2. CASE k <= p
    BY <1>1, <1>5, <1>6, <2>1, <2>2
  <2>3. CASE p < k
    <3>1. r[k] = b[k - p]
      BY <1>1, <1>5, <1>6, <2>1, <2>3
    <3>2. b[k - p] = s[p + (k - p) - 1]
      BY <1>3, <1>8, <2>3
    <3>. QED  BY <1>1, <1>8, <2>1, <2>3, <3>1, <3>2
  <2>. QED  BY <1>1, <2>1, <2>2, <2>3
<1>. QED  BY <1>1, <1>3, <1>5, <1>6, <1>7, <1>9 DEF PutAt

LEMMA PutFirst ==
  ASSUME NEW s \in Seq(driver_t), NEW drv \in driver_t
  PROVE  PutAt(s, 1, drv, <<drv>> \o s)
<1> DEFINE one == <<drv>>
           r == one \o s
<1>1. one \in Seq(driver_t) /\ Len(one) = 1 /\ one[1] = drv /\ Len(s) \in Nat
  OBVIOUS
<1> HIDE DEF one
<1>2. /\ r \in Seq(driver_t)
      /\ Len(r) = Len(one) + Len(s)
      /\ \A k \in 1 .. Len(one) + Len(s) : r[k] = IF k <= Len(one) THEN one[k] ELSE s[k - Len(one)]
  BY <1>1, ConcatProperties
<1> HIDE DEF r
<1>. QED  BY <1>1, <1>2 DEF PutAt, r, one

\* The driver goes after the last one that does not come after it, and first when the first
\* one does.
LEMMA InsertedIs ==
  ASSUME NEW s \in Seq(driver_t), NEW drv \in driver_t
  PROVE  \E p \in 1 .. Len(s) + 1 :
           /\ PutAt(s, p, drv, Inserted(s, drv))
           /\ p = 1 \/ p - 1 \in NotAfter(s, drv)
           /\ \/ p = 1 /\ s # <<>> /\ 1 \notin NotAfter(s, drv)
              \/ \A k \in p .. Len(s) : k \notin NotAfter(s, drv)
<1> DEFINE notAfter == NotAfter(s, drv)
           T == {0} \cup notAfter
           m == Max(T)
<1>1. Len(s) \in Nat /\ T \in SUBSET (0 .. Len(s)) /\ T # {}
  BY DEF NotAfter
<1>2. m \in T /\ \A k \in T : k <= m
  <2> HIDE DEF T
  <2>. QED  BY <1>1, MaxIs
<1>3. m \in 0 .. Len(s)
  BY <1>1, <1>2
<1> HIDE DEF m
<1>4. CASE s # <<>> /\ 1 \notin notAfter
  <2>1. Inserted(s, drv) = <<drv>> \o s
    BY <1>4 DEF Inserted, NotAfter
  <2>. QED  BY <1>1, <1>4, <2>1, PutFirst
<1>5. CASE ~(s # <<>> /\ 1 \notin notAfter)
  <2>1. Inserted(s, drv) = InsertAt(s, 1 + m, drv)
    BY <1>5 DEF Inserted, NotAfter, m
  <2>2. 1 + m \in 1 .. Len(s) + 1
    BY <1>1, <1>3
  <2>3. PutAt(s, 1 + m, drv, Inserted(s, drv))
    BY <2>1, <2>2, InsertedAt
  <2>4. \A k \in 1 + m .. Len(s) : k \notin notAfter
    BY <1>1, <1>2, <1>3
  <2>5. 1 + m = 1 \/ (1 + m) - 1 \in notAfter
    BY <1>2, <1>3
  <2>. QED  BY <2>2, <2>3, <2>4, <2>5
<1>. QED  BY <1>4, <1>5

\* The drivers sorted one by one.
Sorting(drivers, f) ==
  /\ f[0] = <<>>
  /\ \A n \in 1 .. Len(drivers) : f[n] = Inserted(f[n - 1], drivers[n])

LEMMA SortedIs ==
  ASSUME NEW drivers \in Seq(driver_t)
  PROVE  \E f : Sorting(drivers, f) /\ Sorted(drivers) = f[Len(drivers)]
<1> DEFINE Step(g, n) == IF n = 0 THEN <<>> ELSE Inserted(g[n - 1], drivers[n])
           Is(g, N) == g = [n \in 0 .. N |-> Step(g, n)]
           T == {N \in Nat : \E g : Is(g, N)}
<1>1. 0 \in T
  <2> DEFINE g == [n \in 0 .. 0 |-> <<>>]
  <2>1. g = [n \in 0 .. 0 |-> Step(g, n)]
    OBVIOUS
  <2>2. Is(g, 0)
    BY <2>1
  <2> HIDE DEF Is
  <2>. QED  BY <2>2
<1>2. ASSUME NEW N \in Nat, N \in T PROVE N + 1 \in T
  <2>1. PICK g : Is(g, N)
    BY <1>2
  <2> DEFINE h == [n \in 0 .. N + 1 |-> IF n = N + 1 THEN Step(g, n) ELSE g[n]]
  <2>2. ASSUME NEW n \in 0 .. N + 1 PROVE h[n] = Step(h, n)
    <3>1. n # 0 => h[n - 1] = g[n - 1]
      OBVIOUS
    <3>2. Step(h, n) = Step(g, n)
      BY <3>1
    <3>3. n # N + 1 => g[n] = Step(g, n)
      BY <2>1
    <3> HIDE DEF Step
    <3>. QED  BY <3>2, <3>3
  <2>3. h = [n \in 0 .. N + 1 |-> h[n]]
    OBVIOUS
  <2>4. Is(h, N + 1)
    <3> HIDE DEF h, Step
    <3>. QED  BY <2>2, <2>3
  <2> HIDE DEF Is
  <2>. QED  BY <2>4
<1>3. Len(drivers) \in Nat /\ \A N \in Nat : N \in T
  <2> HIDE DEF T
  <2>. QED  BY <1>1, <1>2, SetInduction
<1> DEFINE f == CHOOSE g : Is(g, Len(drivers))
<1>4. Is(f, Len(drivers))
  <2> HIDE DEF Is
  <2>. QED  BY <1>3
<1>5. Sorted(drivers) = f[Len(drivers)]
  BY DEF Sorted
<1> HIDE DEF f
<1>6. \A n \in 0 .. Len(drivers) : f[n] = Step(f, n)
  BY <1>4
<1>7. Sorting(drivers, f)
  <2>1. f[0] = <<>>
    BY <1>3, <1>6
  <2>2. \A n \in 1 .. Len(drivers) : f[n] = Inserted(f[n - 1], drivers[n])
    BY <1>3, <1>6
  <2>. QED  BY <2>1, <2>2 DEF Sorting
<1>. QED  BY <1>5, <1>7

\* s holds the first n drivers, in some order.
Holds(drivers, n, s, f) ==
  /\ s \in Seq(driver_t) /\ Len(s) = n
  /\ f \in [1 .. n -> 1 .. n]
  /\ \A j, k \in 1 .. n : f[j] = f[k] => j = k
  /\ \A k \in 1 .. n : \E j \in 1 .. n : f[j] = k
  /\ \A k \in 1 .. n : s[k] = drivers[f[k]]

LEMMA InsertedHolds ==
  ASSUME NEW drivers \in Seq(driver_t), NEW n \in Nat, n + 1 <= Len(drivers), NEW s, NEW f,
         Holds(drivers, n, s, f)
  PROVE  \E g : Holds(drivers, n + 1, Inserted(s, drivers[n + 1]), g)
<1> DEFINE drv == drivers[n + 1]
           r == Inserted(s, drv)
<1>1. /\ Len(drivers) \in Nat /\ drv \in driver_t /\ s \in Seq(driver_t) /\ Len(s) = n
  BY DEF Holds
<1>2. PICK p \in 1 .. n + 1 : PutAt(s, p, drv, r)
  <2> HIDE DEF drv, r
  <2>. QED  BY <1>1, InsertedIs DEF r
<1>3. /\ r \in Seq(driver_t) /\ Len(r) = n + 1
      /\ \A k \in 1 .. n + 1 : r[k] = IF k < p THEN s[k] ELSE IF k = p THEN drv ELSE s[k - 1]
  BY <1>1, <1>2 DEF PutAt
<1>4. /\ f \in [1 .. n -> 1 .. n]
      /\ \A j, k \in 1 .. n : f[j] = f[k] => j = k
      /\ \A k \in 1 .. n : \E j \in 1 .. n : f[j] = k
      /\ \A k \in 1 .. n : s[k] = drivers[f[k]]
  BY DEF Holds
<1> HIDE DEF r
<1> DEFINE g == [k \in 1 .. n + 1 |-> IF k < p THEN f[k] ELSE IF k = p THEN n + 1 ELSE f[k - 1]]
<1>5. \A k \in 1 .. n + 1 : /\ k < p => k \in 1 .. n /\ g[k] = f[k] /\ r[k] = s[k]
                            /\ k = p => g[k] = n + 1 /\ r[k] = drv
                            /\ p < k => k - 1 \in 1 .. n /\ g[k] = f[k - 1] /\ r[k] = s[k - 1]
  BY <1>3
<1>0. \A k \in 1 .. n : f[k] \in 1 .. n /\ f[k] \in 1 .. n + 1 /\ f[k] # n + 1
  BY <1>4
<1>6. g \in [1 .. n + 1 -> 1 .. n + 1]
  <2>1. ASSUME NEW k \in 1 .. n + 1 PROVE g[k] \in 1 .. n + 1
    <3> HIDE DEF g
    <3>1. CASE k < p
      BY <1>0, <1>5, <3>1
    <3>2. CASE k = p
      BY <1>5, <3>2
    <3>3. CASE p < k
      BY <1>0, <1>5, <3>3
    <3>. QED  BY <3>1, <3>2, <3>3
  <2>. QED  BY <2>1
<1> HIDE DEF g
<1>7. \A j, k \in 1 .. n + 1 : g[j] = g[k] => j = k
  <2> SUFFICES ASSUME NEW j \in 1 .. n + 1, NEW k \in 1 .. n + 1, g[j] = g[k], j < k PROVE FALSE
    OBVIOUS
  <2>1. CASE k < p
    <3>1. j \in 1 .. n /\ k \in 1 .. n /\ f[j] = f[k]
      BY <1>5, <2>1
    <3>. QED  BY <1>4, <3>1
  <2>2. CASE j = p \/ k = p
    BY <1>0, <1>5, <2>2
  <2>3. CASE p < j
    <3>1. j - 1 \in 1 .. n /\ k - 1 \in 1 .. n /\ f[j - 1] = f[k - 1]
      BY <1>5, <2>3
    <3>2. j - 1 = k - 1
      BY <1>4, <3>1
    <3>. QED  BY <3>2
  <2>4. CASE j < p /\ p < k
    <3>1. j \in 1 .. n /\ k - 1 \in 1 .. n /\ f[j] = f[k - 1]
      BY <1>5, <2>4
    <3>2. j = k - 1
      BY <1>4, <3>1
    <3>. QED  BY <2>4, <3>2
  <2>. QED  BY <2>1, <2>2, <2>3, <2>4
<1>8. \A k \in 1 .. n + 1 : \E j \in 1 .. n + 1 : g[j] = k
  <2> SUFFICES ASSUME NEW k \in 1 .. n + 1 PROVE \E j \in 1 .. n + 1 : g[j] = k
    OBVIOUS
  <2>1. CASE k = n + 1
    BY <1>5, <2>1
  <2>2. CASE k # n + 1
    <3>1. PICK j \in 1 .. n : f[j] = k
      BY <1>4, <2>2
    <3>2. CASE j < p
      BY <1>5, <3>1, <3>2
    <3>3. CASE p <= j
      <4>1. j + 1 \in 1 .. n + 1 /\ p < j + 1 /\ (j + 1) - 1 = j
        BY <3>3
      <4>2. g[j + 1] = k
        BY <1>5, <3>1, <4>1
      <4>. QED  BY <4>1, <4>2
    <3>. QED  BY <3>2, <3>3
  <2>. QED  BY <2>1, <2>2
<1>9. \A k \in 1 .. n + 1 : r[k] = drivers[g[k]]
  <2> SUFFICES ASSUME NEW k \in 1 .. n + 1 PROVE r[k] = drivers[g[k]]
    OBVIOUS
  <2>1. CASE k < p
    BY <1>4, <1>5, <2>1
  <2>2. CASE k = p
    BY <1>5, <2>2
  <2>3. CASE p < k
    <3>1. k - 1 \in 1 .. n /\ g[k] = f[k - 1] /\ r[k] = s[k - 1]
      BY <1>5, <2>3
    <3>. QED  BY <1>4, <3>1
  <2>. QED  BY <2>1, <2>2, <2>3
<1>10. Holds(drivers, n + 1, r, g)
  BY <1>3, <1>6, <1>7, <1>8, <1>9 DEF Holds
<1>. QED  BY <1>10 DEF r

LEMMA SortedHolds ==
  ASSUME NEW drivers \in Seq(driver_t), NEW f, Sorting(drivers, f), NEW n \in 0 .. Len(drivers)
  PROVE  \E g : Holds(drivers, n, f[n], g)
<1> DEFINE T == {m \in Nat : m <= Len(drivers) => \E g : Holds(drivers, m, f[m], g)}
<1>1. 0 \in T
  <2> DEFINE g == [k \in 1 .. 0 |-> 1]
  <2>1. Holds(drivers, 0, <<>>, g)
    BY DEF Holds
  <2> HIDE DEF g
  <2>. QED  BY <2>1 DEF Sorting
<1>2. ASSUME NEW m \in Nat, m \in T PROVE m + 1 \in T
  <2> SUFFICES ASSUME m + 1 <= Len(drivers) PROVE \E g : Holds(drivers, m + 1, f[m + 1], g)
    OBVIOUS
  <2>1. PICK g : Holds(drivers, m, f[m], g)
    BY <1>2
  <2>2. f[m + 1] = Inserted(f[m], drivers[m + 1])
    BY DEF Sorting
  <2>. QED  BY <2>1, <2>2, InsertedHolds
<1>3. \A m \in Nat : m \in T
  <2> HIDE DEF T
  <2>. QED  BY <1>1, <1>2, SetInduction
<1>. QED  BY <1>3

LEMMA SortedRearranges ==
  ASSUME NEW drivers \in Seq(driver_t)
  PROVE  Sorted(drivers) \in Seq(driver_t) /\ Rearranged(drivers, Sorted(drivers))
<1>1. PICK f : Sorting(drivers, f) /\ Sorted(drivers) = f[Len(drivers)]
  BY SortedIs
<1>2. PICK g : Holds(drivers, Len(drivers), Sorted(drivers), g)
  BY <1>1, SortedHolds
<1>3. DOMAIN drivers = 1 .. Len(drivers)
  OBVIOUS
<1>4. g \in Places(drivers, Sorted(drivers))
  BY <1>2, <1>3 DEF Holds, Places
<1>5. Sorted(drivers) \in Seq(driver_t) /\ Len(Sorted(drivers)) = Len(drivers)
  BY <1>2 DEF Holds
<1>. QED  BY <1>4, <1>5 DEF Rearranged

\* The comparison is one of keys.
Keyed(drivers, key) ==
  /\ key \in [driver_t -> Int]
  /\ \A j, k \in DOMAIN drivers :
       driverSortComparator(drivers[j], drivers[k]) <=> key[drivers[j]] < key[drivers[k]]

Ascending(s, key) == \A j, k \in DOMAIN s : j < k => key[s[j]] <= key[s[k]]

LEMMA InsertedAscends ==
  ASSUME NEW drivers \in Seq(driver_t), NEW n \in Nat, n + 1 <= Len(drivers), NEW s, NEW f,
         Holds(drivers, n, s, f), NEW key, Keyed(drivers, key), Ascending(s, key)
  PROVE  Ascending(Inserted(s, drivers[n + 1]), key)
<1> DEFINE drv == drivers[n + 1]
           r == Inserted(s, drv)
           K(d) == key[d]
<1>1. /\ Len(drivers) \in Nat /\ drv \in driver_t /\ s \in Seq(driver_t) /\ Len(s) = n
      /\ \A k \in 1 .. n : s[k] \in driver_t /\ K(s[k]) \in Int
      /\ K(drv) \in Int
  <2>1. /\ Len(drivers) \in Nat /\ drv \in driver_t /\ s \in Seq(driver_t) /\ Len(s) = n
    BY DEF Holds
  <2>2. \A d \in driver_t : key[d] \in Int
    BY DEF Keyed
  <2>3. \A k \in 1 .. n : s[k] \in driver_t
    BY <2>1
  <2> HIDE DEF drv
  <2>. QED  BY <2>1, <2>2, <2>3
<1>2. PICK p \in 1 .. n + 1 :
        /\ PutAt(s, p, drv, r)
        /\ p = 1 \/ p - 1 \in NotAfter(s, drv)
        /\ \/ p = 1 /\ s # <<>> /\ 1 \notin NotAfter(s, drv)
           \/ \A k \in p .. n : k \notin NotAfter(s, drv)
  <2> HIDE DEF drv, r
  <2>. QED  BY <1>1, InsertedIs DEF r
<1>3. \A k \in 1 .. n : k \in NotAfter(s, drv) <=> K(s[k]) <= K(drv)
  <2> SUFFICES ASSUME NEW k \in 1 .. n PROVE k \in NotAfter(s, drv) <=> K(s[k]) <= K(drv)
    OBVIOUS
  <2>1. f[k] \in DOMAIN drivers /\ s[k] = drivers[f[k]] /\ n + 1 \in DOMAIN drivers
    <3>1. f[k] \in 1 .. n /\ s[k] = drivers[f[k]]
      BY DEF Holds
    <3>2. DOMAIN drivers = 1 .. Len(drivers)
      OBVIOUS
    <3>. QED  BY <1>1, <3>1, <3>2
  <2>2. driverSortComparator(drv, s[k]) <=> K(drv) < K(s[k])
    BY <2>1 DEF Keyed
  <2>. QED  BY <1>1, <2>2 DEF NotAfter
<1>4. /\ Len(r) = n + 1 /\ r \in Seq(driver_t)
      /\ \A k \in 1 .. n + 1 : r[k] = IF k < p THEN s[k] ELSE IF k = p THEN drv ELSE s[k - 1]
  BY <1>1, <1>2 DEF PutAt
<1> HIDE DEF r
<1>5. \A j, k \in 1 .. n : j < k => K(s[j]) <= K(s[k])
  BY <1>1 DEF Ascending
<1>6. \A j \in 1 .. n : j < p => K(s[j]) <= K(drv)
  <2> SUFFICES ASSUME NEW j \in 1 .. n, j < p PROVE K(s[j]) <= K(drv)
    OBVIOUS
  <2>1. p - 1 \in 1 .. n /\ K(s[p - 1]) <= K(drv)
    BY <1>2, <1>3
  <2>2. j = p - 1 \/ K(s[j]) <= K(s[p - 1])
    BY <1>5, <2>1
  <2> HIDE DEF drv, K
  <2>. QED  BY <1>1, <2>1, <2>2
<1>7. \A k \in 1 .. n : p <= k => K(drv) <= K(s[k])
  <2> SUFFICES ASSUME NEW k \in 1 .. n, p <= k PROVE K(drv) <= K(s[k])
    OBVIOUS
  <2>1. CASE k \notin NotAfter(s, drv)
    BY <1>1, <1>3, <2>1
  <2>2. CASE p = 1 /\ 1 \notin NotAfter(s, drv)
    <3>1. 1 \in 1 .. n /\ K(drv) <= K(s[1])
      BY <1>1, <1>3, <2>2
    <3>2. k = 1 \/ K(s[1]) <= K(s[k])
      BY <1>5, <3>1
    <3> HIDE DEF drv, K
    <3>. QED  BY <1>1, <3>1, <3>2
  <2>. QED  BY <1>2, <2>1, <2>2
<1> HIDE DEF drv
<1>8. ASSUME NEW j \in 1 .. n + 1, NEW k \in 1 .. n + 1, j < k PROVE K(r[j]) <= K(r[k])
  <2>1. CASE k < p
    BY <1>4, <1>5, <1>8, <2>1
  <2>2. CASE k = p
    BY <1>4, <1>6, <1>8, <2>2
  <2>3. CASE p < k /\ j < p
    <3>1. j \in 1 .. n /\ k - 1 \in 1 .. n /\ (j < k - 1 \/ j = k - 1)
      BY <1>8, <2>3
    <3>2. r[j] = s[j] /\ r[k] = s[k - 1]
      BY <1>4, <2>3
    <3>3. K(s[j]) <= K(drv) /\ K(drv) <= K(s[k - 1])
      BY <1>6, <1>7, <2>3
    <3>4. K(s[j]) \in Int /\ K(s[k - 1]) \in Int
      BY <1>1, <2>3
    <3> HIDE DEF K
    <3>. QED  BY <1>1, <3>2, <3>3, <3>4
  <2>4. CASE p < k /\ j = p
    BY <1>4, <1>7, <1>8, <2>4
  <2>5. CASE p < j
    BY <1>4, <1>5, <1>8, <2>5
  <2>. QED  BY <1>8, <2>1, <2>2, <2>3, <2>4, <2>5
<1>. QED  BY <1>4, <1>8 DEF Ascending, r, drv

LEMMA SortedAscends ==
  ASSUME NEW drivers \in Seq(driver_t), NEW key, Keyed(drivers, key)
  PROVE  Ascending(Sorted(drivers), key)
<1>1. PICK f : Sorting(drivers, f) /\ Sorted(drivers) = f[Len(drivers)]
  BY SortedIs
<1> DEFINE T == {m \in Nat : m <= Len(drivers) => Ascending(f[m], key)}
<1>2. 0 \in T
  BY <1>1 DEF Sorting, Ascending
<1>3. ASSUME NEW m \in Nat, m \in T PROVE m + 1 \in T
  <2> SUFFICES ASSUME m + 1 <= Len(drivers) PROVE Ascending(f[m + 1], key)
    OBVIOUS
  <2>1. PICK g : Holds(drivers, m, f[m], g)
    BY <1>1, SortedHolds
  <2>2. f[m + 1] = Inserted(f[m], drivers[m + 1])
    BY <1>1 DEF Sorting
  <2>. QED  BY <1>3, <2>1, <2>2, InsertedAscends
<1>4. \A m \in Nat : m \in T
  <2> HIDE DEF T
  <2>. QED  BY <1>2, <1>3, SetInduction
<1>. QED  BY <1>1, <1>4

-----------------------------------------------------------------------------
(* ZEL_DRIVERS_ORDER *)

\* What has nothing before it in a total order is first, what has one is second...
LEMMA Ranking ==
  ASSUME NEW N \in Nat, NEW b \in [1 .. N -> SUBSET (1 .. N)],
         \A k \in 1 .. N : k \notin b[k],
         \A j, k \in 1 .. N : j # k => j \in b[k] \/ k \in b[j],
         \A i, j, k \in 1 .. N : i \in b[j] /\ j \in b[k] => i \in b[k]
  PROVE  /\ \A k \in 1 .. N : Cardinality(b[k]) \in 0 .. N - 1
         /\ \A j, k \in 1 .. N : Cardinality(b[j]) = Cardinality(b[k]) => j = k
         /\ \A n \in 1 .. N : \E k \in 1 .. N : Cardinality(b[k]) = n - 1
<1> DEFINE D == 1 .. N
<1>1. IsFiniteSet(D) /\ Cardinality(D) = N
  BY FS_Interval
<1>2. ASSUME NEW k \in D
      PROVE  IsFiniteSet(b[k]) /\ Cardinality(b[k]) \in 0 .. N - 1
  <2> DEFINE E == D \ {k}
  <2>1. IsFiniteSet(E) /\ Cardinality(E) = N - 1
    <3> HIDE DEF D
    <3>1. IsFiniteSet(E) /\ Cardinality(E) = IF k \in D THEN Cardinality(D) - 1 ELSE Cardinality(D)
      BY <1>1, FS_RemoveElement
    <3>. QED  BY <1>1, <1>2, <3>1
  <2>2. b[k] \in SUBSET E
    BY <1>2
  <2> HIDE DEF E
  <2>3. IsFiniteSet(b[k]) /\ Cardinality(b[k]) <= Cardinality(E)
    BY <2>1, <2>2, FS_Subset
  <2>4. Cardinality(b[k]) \in Nat
    BY <2>3, FS_CardinalityType
  <2>. QED  BY <2>1, <2>3, <2>4
<1>3. ASSUME NEW j \in D, NEW k \in D, j \in b[k]
      PROVE  Cardinality(b[j]) < Cardinality(b[k])
  <2>1. b[j] \in SUBSET b[k] /\ j \notin b[j]
    BY <1>3
  <2>2. IsFiniteSet(b[k]) /\ IsFiniteSet(b[j]) /\ Cardinality(b[k]) \in Nat /\ Cardinality(b[j]) \in Nat
    BY <1>2
  <2>3. /\ Cardinality(b[j]) <= Cardinality(b[k])
        /\ Cardinality(b[k]) = Cardinality(b[j]) => b[k] = b[j]
    BY <2>1, <2>2, FS_Subset
  <2>4. Cardinality(b[k]) # Cardinality(b[j])
    BY <1>3, <2>1, <2>3
  <2>. QED  BY <2>2, <2>3, <2>4
<1>4. ASSUME NEW j \in D, NEW k \in D, Cardinality(b[j]) = Cardinality(b[k])
      PROVE  j = k
  <2>1. Cardinality(b[j]) \in Nat /\ Cardinality(b[k]) \in Nat
    BY <1>2
  <2>2. ~(j \in b[k]) /\ ~(k \in b[j])
    BY <1>3, <1>4, <2>1
  <2>. QED  BY <2>2
<1>5. \A n \in D : \E k \in D : Cardinality(b[k]) = n - 1
  <2> DEFINE c == [k \in D |-> Cardinality(b[k]) + 1]
  <2>1. c \in [D -> D]
    <3>1. \A k \in D : Cardinality(b[k]) + 1 \in D
      BY <1>2
    <3>. QED  BY <3>1
  <2>2. \A j, k \in D : c[j] = c[k] => j = k
    <3> SUFFICES ASSUME NEW j \in D, NEW k \in D, c[j] = c[k] PROVE j = k
      OBVIOUS
    <3>1. Cardinality(b[j]) \in Nat /\ Cardinality(b[k]) \in Nat
      BY <1>2
    <3>2. Cardinality(b[j]) + 1 = Cardinality(b[k]) + 1
      OBVIOUS
    <3>3. Cardinality(b[j]) = Cardinality(b[k])
      BY <3>1, <3>2
    <3>. QED  BY <1>4, <3>3
  <2>3. c \in Surjection(D, D)
    <3> HIDE DEF c, D
    <3>1. c \in Injection(D, D)
      BY <2>1, <2>2 DEF Injection, IsInjective
    <3>. QED  BY <1>1, <3>1, FS_Injection
  <2>4. \A n \in D : \E k \in D : c[k] = n
    BY <2>3 DEF Surjection
  <2> SUFFICES ASSUME NEW n \in D PROVE \E k \in D : Cardinality(b[k]) = n - 1
    OBVIOUS
  <2>5. PICK k \in D : c[k] = n
    BY <2>4
  <2>6. Cardinality(b[k]) \in Nat /\ Cardinality(b[k]) + 1 = n
    BY <1>2, <2>5
  <2>. QED  BY <2>6
<1>. QED  BY <1>2, <1>4, <1>5

LEMMA OrderingRearranges ==
  ASSUME NEW drivers \in Seq(driver_t), env \in Environments
  PROVE  /\ driverOrdering(drivers) \in Seq(driver_t)
         /\ Rearranged(drivers, driverOrdering(drivers))
         /\ env.order = <<>> => driverOrdering(drivers) = drivers
<1> DEFINE N == Len(drivers)
           D == DOMAIN drivers
           rest == [types |-> DriverType, index |-> None]
           entries == Append(env.order, rest)
           last == Len(env.order) + 1
           entriesOf(k) == {e \in DOMAIN entries : Asks(drivers, entries[e], k)}
           places == {k \in DOMAIN drivers : entriesOf(k) # {}}
           before(k) == {j \in places : \/ Min(entriesOf(j)) < Min(entriesOf(k))
                                        \/ Min(entriesOf(j)) = Min(entriesOf(k)) /\ j < k}
           r == driverOrdering(drivers)
<1>1. N \in Nat /\ D = 1 .. N /\ \A k \in D : drivers[k] \in driver_t
  OBVIOUS
<1>2. env.order \in Seq(DriverOrderSpec) /\ Len(env.order) \in Nat
  BY EnvironmentAssumption
<1>3. DOMAIN entries = 1 .. last /\ entries[last] = rest
  <2>1. rest \in DriverOrderSpec
    BY DEF DriverOrderSpec
  <2> HIDE DEF rest
  <2>2. entries \in Seq(DriverOrderSpec) /\ Len(entries) = last /\ entries[last] = rest
    BY <1>2, <2>1, AppendProperties
  <2>. QED  BY <2>2
<1>4. \A k \in D : Asks(drivers, rest, k)
  BY <1>1 DEF Asks, driver_t
<1>5. \A k \in D : entriesOf(k) \in SUBSET (1 .. last) /\ last \in entriesOf(k)
  <2> HIDE DEF rest, entries
  <2>. QED  BY <1>2, <1>3, <1>4
<1>6. places = D
  BY <1>5
<1> DEFINE m == [k \in D |-> Min(entriesOf(k))]
<1>7. \A k \in D : m[k] \in Nat /\ m[k] \in entriesOf(k)
  <2> HIDE DEF entriesOf
  <2>1. \A k \in D : entriesOf(k) \in SUBSET Nat /\ entriesOf(k) # {}
    BY <1>2, <1>5
  <2>2. \A k \in D : Min(entriesOf(k)) \in entriesOf(k)
    BY <2>1, MinIs
  <2>. QED  BY <2>1, <2>2
<1> DEFINE b == [k \in D |-> before(k)]
<1>8. \A k \in D : b[k] = {j \in D : m[j] < m[k] \/ (m[j] = m[k] /\ j < k)}
  <2> HIDE DEF entriesOf
  <2>. QED  BY <1>6
<1> DEFINE at(n) == CHOOSE k \in places : Cardinality(before(k)) = n - 1
<1>9. r = [n \in 1 .. Cardinality(places) |-> drivers[at(n)]]
  BY DEF driverOrdering, OrderedBy
<1>10. Cardinality(places) = N
  <2>1. Cardinality(1 .. N) = N
    BY <1>1, FS_Interval
  <2>. QED  BY <1>1, <1>6, <2>1
<1> HIDE DEF entriesOf, entries, rest
<1> DEFINE f == [n \in 1 .. N |-> CHOOSE k \in D : Cardinality(b[k]) = n - 1]
<1>11. \A n \in 1 .. N : at(n) = f[n]
  <2>1. \A n \in 1 .. N : at(n) = CHOOSE k \in D : Cardinality(b[k]) = n - 1
    BY <1>6
  <2> HIDE DEF at, b
  <2>. QED  BY <2>1
<1>19. r = [n \in 1 .. N |-> drivers[f[n]]]
  <2> HIDE DEF at, places, r, f
  <2>1. r = [n \in 1 .. N |-> drivers[at(n)]]
    BY <1>9, <1>10
  <2>. QED  BY <1>11, <2>1
<1> HIDE DEF m, b, r, places, before
<1>12. b \in [1 .. N -> SUBSET (1 .. N)]
  <2>1. b = [k \in D |-> b[k]]
    BY DEF b
  <2>2. \A k \in D : b[k] \in SUBSET D
    BY <1>8
  <2>. QED  BY <1>1, <2>1, <2>2
<1>13. \A k \in 1 .. N : k \notin b[k]
  BY <1>1, <1>7, <1>8
<1>14. \A j, k \in 1 .. N : j # k => j \in b[k] \/ k \in b[j]
  BY <1>1, <1>7, <1>8
<1>15. \A i, j, k \in 1 .. N : i \in b[j] /\ j \in b[k] => i \in b[k]
  BY <1>1, <1>7, <1>8
<1>16. /\ \A k \in 1 .. N : Cardinality(b[k]) \in 0 .. N - 1
       /\ \A j, k \in 1 .. N : Cardinality(b[j]) = Cardinality(b[k]) => j = k
       /\ \A n \in 1 .. N : \E k \in 1 .. N : Cardinality(b[k]) = n - 1
  BY <1>1, <1>12, <1>13, <1>14, <1>15, Ranking
<1>17. \A n \in 1 .. N : f[n] \in 1 .. N /\ Cardinality(b[f[n]]) = n - 1
  BY <1>1, <1>16
<1>18. \A n \in 1 .. N : r[n] = drivers[f[n]]
  BY <1>19
<1>0. f = [n \in 1 .. N |-> f[n]]
  OBVIOUS
<1> HIDE DEF f
<1>20. r \in Seq(driver_t) /\ Len(r) = N
  <2>1. \A n \in 1 .. N : drivers[f[n]] \in driver_t
    BY <1>1, <1>17
  <2>. QED  BY <1>1, <1>19, <2>1
<1>21. f \in Places(drivers, r)
  <2>1. f \in [D -> D]
    BY <1>0, <1>1, <1>17
  <2>2. \A j, k \in D : f[j] = f[k] => j = k
    <3> SUFFICES ASSUME NEW j \in 1 .. N, NEW k \in 1 .. N, f[j] = f[k] PROVE j = k
      BY <1>1
    <3>1. j - 1 = k - 1
      BY <1>17
    <3>. QED  BY <1>1, <3>1
  <2>3. \A k \in D : \E j \in D : f[j] = k
    <3> SUFFICES ASSUME NEW k \in 1 .. N PROVE \E j \in 1 .. N : f[j] = k
      BY <1>1
    <3> DEFINE j == Cardinality(b[k]) + 1
    <3>1. j \in 1 .. N /\ j - 1 = Cardinality(b[k])
      <4>1. Cardinality(b[k]) \in 0 .. N - 1
        BY <1>16
      <4>. QED  BY <1>1, <4>1
    <3> HIDE DEF j
    <3>2. f[j] = k
      BY <1>16, <1>17, <3>1
    <3>. QED  BY <3>1, <3>2
  <2>. QED  BY <1>1, <1>18, <2>1, <2>2, <2>3 DEF Places
<1>22. ASSUME env.order = <<>> PROVE r = drivers
  <2>1. last = 1
    BY <1>22
  <2>2. \A k \in D : m[k] = 1
    BY <1>5, <1>7, <2>1
  <2>3. ASSUME NEW k \in 1 .. N PROVE b[k] = 1 .. k - 1
    <3>1. b[k] = {j \in 1 .. N : j < k}
      BY <1>1, <1>8, <2>2
    <3>. QED  BY <1>1, <3>1
  <2>4. \A k \in 1 .. N : Cardinality(b[k]) = k - 1
    <3> SUFFICES ASSUME NEW k \in 1 .. N PROVE Cardinality(1 .. k - 1) = k - 1
      BY <2>3
    <3>. QED  BY <1>1, FS_Interval
  <2>5. \A n \in 1 .. N : f[n] = n
    BY <1>16, <1>17, <2>4
  <2>6. \A n \in 1 .. N : r[n] = drivers[n]
    BY <1>18, <2>5
  <2>. QED  BY <1>1, <1>20, <2>6, SeqEqual
<1>. QED  BY <1>20, <1>21, <1>22 DEF Rearranged, r

-----------------------------------------------------------------------------
(* The drivers sorted *)

LEMMA TypesOfDevices ==
  ASSUME NEW kinds \in SUBSET {"discrete", "integrated", "npu", "other"}, kinds # {}
  PROVE  TypeOfDevices(kinds) \in DriverType
<1> DEFINE d == "discrete" \in kinds
           i == "integrated" \in kinds
           n == "npu" \in kinds
           o == "other" \in kinds
<1>1. CASE d /\ i /\ (n \/ o)
  <2>1. TypeOfDevices(kinds) = MIXED
    BY <1>1 DEF TypeOfDevices
  <2>. QED  BY <2>1 DEF DriverType, MIXED, DISCRETE_GPU, NPU
<1>2. CASE d /\ i /\ ~n /\ ~o
  <2>1. kinds = {"integrated", "discrete"}
    BY <1>2
  <2>2. TypeOfDevices(kinds) = GPU
    BY <2>1 DEF TypeOfDevices
  <2>. QED  BY <2>2 DEF DriverType, GPU, DISCRETE_GPU, NPU
<1>3. CASE i /\ ~d
  <2>1. TypeOfDevices(kinds) = INTEGRATED_GPU
    BY <1>3 DEF TypeOfDevices
  <2>. QED  BY <2>1 DEF DriverType, INTEGRATED_GPU, DISCRETE_GPU, NPU
<1>4. CASE d /\ ~i
  <2>1. TypeOfDevices(kinds) = DISCRETE_GPU
    BY <1>4 DEF TypeOfDevices
  <2>. QED  BY <2>1 DEF DriverType, DISCRETE_GPU, NPU
<1>5. CASE ~d /\ ~i /\ n
  <2>1. TypeOfDevices(kinds) = NPU
    BY <1>5 DEF TypeOfDevices
  <2>. QED  BY <2>1 DEF DriverType, DISCRETE_GPU, NPU
<1>6. CASE ~d /\ ~i /\ ~n
  <2>1. kinds = {"other"}
    BY <1>6
  <2>2. TypeOfDevices(kinds) = OTHER_TYPE
    BY <2>1 DEF TypeOfDevices
  <2>. QED  BY <2>2 DEF DriverType, OTHER_TYPE, DISCRETE_GPU, NPU
<1>. QED  BY <1>1, <1>2, <1>3, <1>4, <1>5, <1>6

\* b is a with another type at most, if a answers.
Retyped(a, b) ==
  /\ b.name = a.name /\ b.handle = a.handle /\ b.ddiInitialized = a.ddiInitialized
  /\ b.initStatus = a.initStatus /\ b.legacyInitAttempted = a.legacyInitAttempted
  /\ b.driverType = a.driverType \/ a.ddiInitialized

LEMMA TypedIs ==
  ASSUME NEW drv \in driver_t, NEW desc
  PROVE  Typed(drv, desc) \in driver_t /\ Retyped(drv, Typed(drv, desc))
<1> DEFINE kinds == Devices[drv.name]
           type == TypeOfDevices(kinds)
<1>1. kinds \in SUBSET {"discrete", "integrated", "npu", "other"}
  BY DevicesAssumption DEF driver_t
<1>2. CASE Typed(drv, desc) = drv
  BY <1>2 DEF Retyped
<1>3. CASE Typed(drv, desc) # drv
  <2>1. drv.ddiInitialized /\ kinds # {} /\ Typed(drv, desc) = [drv EXCEPT !.driverType = type]
    BY <1>3 DEF Typed
  <2>2. type \in DriverType
    BY <1>1, <2>1, TypesOfDevices
  <2> HIDE DEF type
  <2>. QED  BY <2>1, <2>2 DEF driver_t, Retyped
<1>. QED  BY <1>2, <1>3

\* The same drivers, but for their types and their order.
Shuffled(s, r) ==
  /\ r \in Seq(driver_t) /\ Len(r) = Len(s) /\ DOMAIN r = DOMAIN s
  /\ \A k \in DOMAIN s : \E j \in DOMAIN s : Retyped(s[j], r[k])
  /\ \A j \in DOMAIN s : \E k \in DOMAIN s : Retyped(s[j], r[k])
  /\ (\A j, k \in DOMAIN s : s[j].name = s[k].name => j = k)
     => \A j, k \in DOMAIN s : r[j].name = r[k].name => j = k

TypedDrivers(desc) == [k \in DOMAIN zeDrivers |-> Typed(zeDrivers[k], desc)]

LEMMA SortingShuffles ==
  ASSUME zeDrivers \in Seq(driver_t), env \in Environments, NEW desc
  PROVE  /\ Shuffled(zeDrivers, driverSorting(desc))
         /\ TypedDrivers(desc) \in Seq(driver_t) /\ DOMAIN TypedDrivers(desc) = DOMAIN zeDrivers
         /\ env.order = <<>> => driverSorting(desc) = Sorted(TypedDrivers(desc))
<1> DEFINE s == TypedDrivers(desc)
           q == Sorted(s)
           r == driverOrdering(q)
<1>1. \A k \in DOMAIN zeDrivers : Typed(zeDrivers[k], desc) \in driver_t /\ Retyped(zeDrivers[k], Typed(zeDrivers[k], desc))
  BY TypedIs
<1>2. /\ s \in Seq(driver_t) /\ Len(s) = Len(zeDrivers) /\ DOMAIN s = DOMAIN zeDrivers
      /\ \A k \in DOMAIN zeDrivers : Retyped(zeDrivers[k], s[k])
  BY <1>1 DEF TypedDrivers
<1> HIDE DEF s
<1>3. q \in Seq(driver_t) /\ Rearranged(s, q)
  BY <1>2, SortedRearranges
<1> HIDE DEF q
<1>4. r \in Seq(driver_t) /\ Rearranged(q, r) /\ (env.order = <<>> => r = q)
  BY <1>3, OrderingRearranges
<1> HIDE DEF r
<1>5. Rearranged(s, r)
  BY <1>2, <1>3, <1>4, RearrangedTwice
<1>6. /\ DOMAIN r = DOMAIN s /\ Len(r) = Len(s)
      /\ \A k \in DOMAIN r : \E j \in DOMAIN s : r[k] = s[j]
      /\ \A j \in DOMAIN s : \E k \in DOMAIN r : r[k] = s[j]
  <2>1. Len(r) = Len(s)
    BY <1>5 DEF Rearranged
  <2>2. /\ DOMAIN r = DOMAIN s
        /\ \A k \in DOMAIN r : \E j \in DOMAIN s : r[k] = s[j]
        /\ \A j \in DOMAIN s : \E k \in DOMAIN r : r[k] = s[j]
    BY <1>2, <1>4, <1>5, RearrangedHas
  <2>. QED  BY <2>1, <2>2
<1>7. ASSUME \A j, k \in DOMAIN zeDrivers : zeDrivers[j].name = zeDrivers[k].name => j = k
      PROVE  \A j, k \in DOMAIN zeDrivers : r[j].name = r[k].name => j = k
  <2>1. \A k \in DOMAIN zeDrivers : s[k].name = zeDrivers[k].name
    BY <1>2 DEF Retyped
  <2>2. \A j, k \in DOMAIN s : s[j].name = s[k].name => j = k
    BY <1>2, <1>7, <2>1
  <2>3. \A j, k \in DOMAIN r : r[j].name = r[k].name => j = k
    BY <1>2, <1>4, <1>5, <2>2, RearrangedInjective
  <2>. QED  BY <1>2, <1>6, <2>3
<1>8. \A k \in DOMAIN zeDrivers : \E j \in DOMAIN zeDrivers : Retyped(zeDrivers[j], r[k])
  <2> SUFFICES ASSUME NEW k \in DOMAIN zeDrivers
               PROVE  \E j \in DOMAIN zeDrivers : Retyped(zeDrivers[j], r[k])
    OBVIOUS
  <2>1. PICK j \in DOMAIN zeDrivers : r[k] = s[j]
    BY <1>2, <1>6
  <2>. QED  BY <1>2, <2>1
<1>9. \A j \in DOMAIN zeDrivers : \E k \in DOMAIN zeDrivers : Retyped(zeDrivers[j], r[k])
  <2> SUFFICES ASSUME NEW j \in DOMAIN zeDrivers
               PROVE  \E k \in DOMAIN zeDrivers : Retyped(zeDrivers[j], r[k])
    OBVIOUS
  <2>1. PICK k \in DOMAIN zeDrivers : r[k] = s[j]
    BY <1>2, <1>6
  <2>. QED  BY <1>2, <2>1
<1>10. Shuffled(zeDrivers, r)
  BY <1>2, <1>4, <1>6, <1>7, <1>8, <1>9 DEF Shuffled
<1>11. r = driverSorting(desc) /\ q = Sorted(TypedDrivers(desc))
  BY DEF driverSorting, TypedDrivers, r, q, s
<1>. QED  BY <1>2, <1>4, <1>10, <1>11 DEF s

-----------------------------------------------------------------------------
(* The invariant *)

\* The loops stay in the vector.
Bounds ==
  \A t \in Thread :
    LET c == call[t] IN
    /\ pc[t] \in {"init", "tables", "pfnInit", "get"} => 1 <= c.i /\ c.end <= Len(zeDrivers)
    /\ pc[t] \in {"tables", "pfnInit"} => c.i <= c.end

TypeInv == TypeOK /\ Bounds

\* Before the drivers are sorted there is one call at most, when calls do not overlap the sort.
Alone ==
  ~coreDriverSortOnce => \A t, u \in Thread : pc[t] # "idle" /\ pc[u] # "idle" => t = u

\* The drivers are those discovered, each once, from discovery on.
Queried ==
  /\ driverEnvironmentQueried =>
       /\ Len(zeDrivers) = Len(env.discovered)
       /\ \A j, k \in DOMAIN zeDrivers : zeDrivers[j].name = zeDrivers[k].name => j = k
       /\ \A n \in DOMAIN env.discovered : \E k \in DOMAIN zeDrivers : zeDrivers[k].name = env.discovered[n]
       /\ \A k \in DOMAIN zeDrivers : \E n \in DOMAIN env.discovered : zeDrivers[k].name = env.discovered[n]
  /\ ~driverEnvironmentQueried =>
       /\ zeDrivers = <<>> /\ ~coreDriverSortOnce
       /\ initOnce # "done" /\ initOnceDrivers # "done"
       /\ \A t \in Thread : pc[t] \in {"idle", "query", "discover"}
  /\ \A t \in Thread : pc[t] = "discover" => ~driverEnvironmentQueried

KeptInv == TypeInv /\ Alone /\ Queried


-----------------------------------------------------------------------------
(* Types *)

LEMMA Moved ==
  ASSUME TypeInv, NEW t \in Thread, NEW stage \in Stage, NEW c \in Call, Go(t, stage, c),
         Len(zeDrivers) <= Len(zeDrivers'), zeDrivers' \in Seq(driver_t),
         stage \in {"init", "tables", "pfnInit", "get"} => 1 <= c.i /\ c.end <= Len(zeDrivers'),
         stage \in {"tables", "pfnInit"} => c.i <= c.end
  PROVE  /\ pc' \in [Thread -> Stage] /\ call' \in [Thread -> Call] /\ Bounds'
         /\ pc'[t] = stage /\ call'[t] = c
         /\ \A u \in Thread \ {t} : pc'[u] = pc[u] /\ call'[u] = call[u]
<1>1. /\ pc' \in [Thread -> Stage] /\ call' \in [Thread -> Call]
      /\ pc'[t] = stage /\ call'[t] = c
      /\ \A u \in Thread \ {t} : pc'[u] = pc[u] /\ call'[u] = call[u]
  BY DEF Go, TypeInv, TypeOK
<1>2. Bounds'
  <2> SUFFICES ASSUME NEW u \in Thread
               PROVE  /\ pc'[u] \in {"init", "tables", "pfnInit", "get"} =>
                           1 <= call'[u].i /\ call'[u].end <= Len(zeDrivers')
                      /\ pc'[u] \in {"tables", "pfnInit"} => call'[u].i <= call'[u].end
    BY DEF Bounds
  <2>1. CASE u = t
    BY <1>1, <2>1
  <2>2. CASE u # t
    <3>1. /\ pc[u] \in {"init", "tables", "pfnInit", "get"} =>
               1 <= call[u].i /\ call[u].end <= Len(zeDrivers)
          /\ pc[u] \in {"tables", "pfnInit"} => call[u].i <= call[u].end
      BY DEF TypeInv, Bounds
    <3>2. call[u].end \in Nat /\ Len(zeDrivers) \in Nat /\ Len(zeDrivers') \in Nat
      BY DEF TypeInv, TypeOK, Call
    <3>. QED  BY <1>1, <2>2, <3>1, <3>2
  <2>. QED  BY <2>1, <2>2
<1>. QED  BY <1>1, <1>2

\* The driver at the loop's place is written.
Wrote(t, stage, drv, c) ==
  /\ pc'[t] = stage /\ call'[t] = c
  /\ \A u \in Thread \ {t} : pc'[u] = pc[u] /\ call'[u] = call[u]
  /\ drv \in driver_t /\ call[t].i \in DOMAIN zeDrivers
  /\ Len(zeDrivers') = Len(zeDrivers) /\ DOMAIN zeDrivers' = DOMAIN zeDrivers
  /\ zeDrivers'[call[t].i] = drv
  /\ \A k \in DOMAIN zeDrivers : k # call[t].i => zeDrivers'[k] = zeDrivers[k]
  /\ UNCHANGED <<env, driverEnvironmentQueried, initOnce, initOnceDrivers, coreDriverSortOnce, given>>

LEMMA Proceeded ==
  ASSUME TypeInv, NEW t \in Thread, NEW stage \in Stage, NEW c \in Call, NEW drv \in driver_t,
         call[t].i \in DOMAIN zeDrivers, Proceed(t, stage, drv, c),
         stage \in {"init", "tables", "pfnInit", "get"}, 1 <= c.i, c.end = call[t].end,
         call[t].end <= Len(zeDrivers), stage \in {"tables", "pfnInit"} => c.i <= c.end
  PROVE  TypeInv' /\ Wrote(t, stage, drv, c)
<1>1. /\ zeDrivers' = [zeDrivers EXCEPT ![call[t].i] = drv]
      /\ Go(t, stage, c)
      /\ UNCHANGED <<env, driverEnvironmentQueried, initOnce, initOnceDrivers, coreDriverSortOnce, given>>
  BY DEF Proceed, onceVars
<1>2. zeDrivers \in Seq(driver_t)
  BY DEF TypeInv, TypeOK
<1>3. /\ zeDrivers' \in Seq(driver_t)
      /\ Len(zeDrivers') = Len(zeDrivers) /\ DOMAIN zeDrivers' = DOMAIN zeDrivers
      /\ zeDrivers'[call[t].i] = drv
      /\ \A k \in DOMAIN zeDrivers : k # call[t].i => zeDrivers'[k] = zeDrivers[k]
  BY <1>1, <1>2
<1>4. Len(zeDrivers) <= Len(zeDrivers')
  BY <1>2, <1>3
<1>5. /\ pc' \in [Thread -> Stage] /\ call' \in [Thread -> Call] /\ Bounds'
      /\ pc'[t] = stage /\ call'[t] = c
      /\ \A u \in Thread \ {t} : pc'[u] = pc[u] /\ call'[u] = call[u]
  BY <1>1, <1>3, <1>4, Moved
<1>6. TypeInv'
  BY <1>1, <1>3, <1>5 DEF TypeInv, TypeOK
<1>. QED  BY <1>1, <1>3, <1>5, <1>6 DEF Wrote

\* A call of the loops: its place, and its driver.
LEMMA Here ==
  ASSUME TypeInv, NEW t \in Thread,
         In(t, "init") \/ pc[t] = "tables" \/ pc[t] = "pfnInit" \/ In(t, "get")
  PROVE  /\ call[t].i \in DOMAIN zeDrivers /\ Drv(t) = zeDrivers[call[t].i] /\ Drv(t) \in driver_t
         /\ call[t].end <= Len(zeDrivers) /\ call[t].i <= call[t].end
         /\ call[t] \in Call /\ call[t].i \in Nat /\ call[t].end \in Nat /\ 1 <= call[t].i
         /\ Forward(call[t]) \in Call /\ Forward(call[t]).i = call[t].i + 1
         /\ Forward(call[t]).end = call[t].end /\ Forward(call[t]).api = call[t].api
         /\ Forward(call[t]).want = call[t].want /\ Forward(call[t]).answer = call[t].answer
<1>1. call[t] \in Call /\ call[t].i \in Nat /\ call[t].end \in Nat /\ zeDrivers \in Seq(driver_t)
  BY DEF TypeInv, TypeOK, Call
<1>2. 1 <= call[t].i /\ call[t].end <= Len(zeDrivers) /\ call[t].i <= call[t].end
  BY DEF TypeInv, Bounds, In
<1>3. call[t].i \in DOMAIN zeDrivers
  BY <1>1, <1>2
<1>4. Drv(t) = zeDrivers[call[t].i] /\ Drv(t) \in driver_t
  BY <1>1, <1>3 DEF Drv
<1>5. /\ Forward(call[t]) \in Call /\ Forward(call[t]).i = call[t].i + 1
      /\ Forward(call[t]).end = call[t].end /\ Forward(call[t]).api = call[t].api
      /\ Forward(call[t]).want = call[t].want /\ Forward(call[t]).answer = call[t].answer
  BY <1>1 DEF Forward, Call
<1>. QED  BY <1>1, <1>2, <1>3, <1>4, <1>5

\* init_driver loads the library, or has.
CanLoad(drv, want) == drv.handle \/ (Selected(drv, want) /\ drv.name \notin env.broken)

LEMMA LoopStep ==
  ASSUME TypeInv, NEW t \in Thread
  PROVE  /\ NothingToDo(t) => TypeInv' /\ Wrote(t, "init", Drv(t), Forward(call[t]))
         /\ AlreadyLoaded(t) => TypeInv' /\ Wrote(t, "pfnInit", Drv(t), call[t])
         /\ LoadLibrary(t) =>
              TypeInv' /\ \/ /\ CanLoad(Drv(t), call[t].want)
                             /\ Wrote(t, "tables", [Drv(t) EXCEPT !.handle = TRUE], call[t])
                          \/ /\ ~CanLoad(Drv(t), call[t].want)
                             /\ Wrote(t, "init", [Drv(t) EXCEPT !.ddiInitialized = FALSE], Forward(call[t]))
         /\ InitTables(t) =>
              TypeInv' /\ \/ /\ Legacy(t) /\ Drv(t).handle
                             /\ Wrote(t, "pfnInit", [Drv(t) EXCEPT !.ddiInitialized = Drv(t).handle], call[t])
                          \/ /\ ~(Legacy(t) /\ Drv(t).handle)
                             /\ Wrote(t, "init", [Drv(t) EXCEPT !.ddiInitialized = Drv(t).handle], Forward(call[t]))
         /\ PfnInit(t) =>
              TypeInv' /\ Wrote(t, "init",
                                [Drv(t) EXCEPT
                                   !.initStatus = Usable(Drv(t)) /\ Matches(Drv(t).name, call[t].want),
                                   !.legacyInitAttempted = @ \/ Usable(Drv(t))],
                                Forward(call[t]))
         /\ Ask(t) =>
              TypeInv' /\ Wrote(t, "get", Drv(t),
                                [Forward(call[t]) EXCEPT
                                   !.answer = @ \o IF Reports(Drv(t), call[t]) THEN <<Drv(t).name>> ELSE <<>>])
<1> DEFINE drv == Drv(t)
           c == call[t]
<1>1. ASSUME NothingToDo(t) PROVE TypeInv' /\ Wrote(t, "init", drv, Forward(c))
  <2>1. In(t, "init") /\ Proceed(t, "init", drv, Forward(c))
    BY <1>1 DEF NothingToDo
  <2>2. c.i \in DOMAIN zeDrivers /\ drv \in driver_t /\ c.end <= Len(zeDrivers)
        /\ Forward(c) \in Call /\ 1 <= Forward(c).i /\ Forward(c).end = c.end
    BY <2>1, Here
  <2>. QED  BY <2>1, <2>2, Proceeded DEF Stage
<1>2. ASSUME AlreadyLoaded(t) PROVE TypeInv' /\ Wrote(t, "pfnInit", drv, c)
  <2>1. In(t, "init") /\ Proceed(t, "pfnInit", drv, c)
    BY <1>2 DEF AlreadyLoaded
  <2>2. c.i \in DOMAIN zeDrivers /\ drv \in driver_t /\ c.end <= Len(zeDrivers)
        /\ c \in Call /\ 1 <= c.i /\ c.i <= c.end
    BY <2>1, Here
  <2>. QED  BY <2>1, <2>2, Proceeded DEF Stage
<1>3. ASSUME LoadLibrary(t)
      PROVE  TypeInv' /\ \/ /\ CanLoad(drv, c.want)
                            /\ Wrote(t, "tables", [drv EXCEPT !.handle = TRUE], c)
                         \/ /\ ~CanLoad(drv, c.want)
                            /\ Wrote(t, "init", [drv EXCEPT !.ddiInitialized = FALSE], Forward(c))
  <2>1. In(t, "init")
    BY <1>3 DEF LoadLibrary
  <2>2. /\ c.i \in DOMAIN zeDrivers /\ drv \in driver_t /\ c.end <= Len(zeDrivers)
        /\ c \in Call /\ 1 <= c.i /\ c.i <= c.end
        /\ Forward(c) \in Call /\ 1 <= Forward(c).i /\ Forward(c).end = c.end
    BY <2>1, Here
  <2>3. [drv EXCEPT !.handle = TRUE] \in driver_t /\ [drv EXCEPT !.ddiInitialized = FALSE] \in driver_t
    BY <2>2 DEF driver_t
  <2>4. ASSUME Proceed(t, "tables", [drv EXCEPT !.handle = TRUE], c)
        PROVE  TypeInv' /\ Wrote(t, "tables", [drv EXCEPT !.handle = TRUE], c)
    BY <2>2, <2>3, <2>4, Proceeded DEF Stage
  <2>5. ASSUME Proceed(t, "init", [drv EXCEPT !.ddiInitialized = FALSE], Forward(c))
        PROVE  TypeInv' /\ Wrote(t, "init", [drv EXCEPT !.ddiInitialized = FALSE], Forward(c))
    BY <2>2, <2>3, <2>5, Proceeded DEF Stage
  <2>6. IF CanLoad(drv, c.want) THEN Proceed(t, "tables", [drv EXCEPT !.handle = TRUE], c)
                                ELSE Proceed(t, "init", [drv EXCEPT !.ddiInitialized = FALSE], Forward(c))
    BY <1>3 DEF LoadLibrary, CanLoad
  <2>. QED  BY <2>4, <2>5, <2>6
<1>4. ASSUME InitTables(t)
      PROVE  TypeInv' /\ \/ /\ Legacy(t) /\ drv.handle
                            /\ Wrote(t, "pfnInit", [drv EXCEPT !.ddiInitialized = drv.handle], c)
                         \/ /\ ~(Legacy(t) /\ drv.handle)
                            /\ Wrote(t, "init", [drv EXCEPT !.ddiInitialized = drv.handle], Forward(c))
  <2> DEFINE new == [drv EXCEPT !.ddiInitialized = drv.handle]
  <2>1. pc[t] = "tables"
    BY <1>4 DEF InitTables
  <2>2. /\ c.i \in DOMAIN zeDrivers /\ drv \in driver_t /\ c.end <= Len(zeDrivers)
        /\ c \in Call /\ 1 <= c.i /\ c.i <= c.end
        /\ Forward(c) \in Call /\ 1 <= Forward(c).i /\ Forward(c).end = c.end
    BY <2>1, Here
  <2>3. new \in driver_t
    BY <2>2 DEF driver_t
  <2>4. IF Legacy(t) /\ drv.handle THEN Proceed(t, "pfnInit", new, c) ELSE Proceed(t, "init", new, Forward(c))
    <3>1. new.handle = drv.handle
      BY <2>2 DEF driver_t
    <3>2. IF Legacy(t) /\ new.handle THEN Proceed(t, "pfnInit", new, c) ELSE Proceed(t, "init", new, Forward(c))
      BY <1>4 DEF InitTables
    <3> HIDE DEF new
    <3>. QED  BY <3>1, <3>2
  <2> HIDE DEF new
  <2>5. ASSUME Proceed(t, "pfnInit", new, c) PROVE TypeInv' /\ Wrote(t, "pfnInit", new, c)
    BY <2>2, <2>3, <2>5, Proceeded DEF Stage
  <2>6. ASSUME Proceed(t, "init", new, Forward(c)) PROVE TypeInv' /\ Wrote(t, "init", new, Forward(c))
    BY <2>2, <2>3, <2>6, Proceeded DEF Stage
  <2>. QED  BY <2>4, <2>5, <2>6 DEF new
<1>5. ASSUME PfnInit(t)
      PROVE  TypeInv' /\ Wrote(t, "init",
                               [drv EXCEPT !.initStatus = Usable(drv) /\ Matches(drv.name, c.want),
                                           !.legacyInitAttempted = @ \/ Usable(drv)],
                               Forward(c))
  <2> DEFINE ok == Usable(drv) /\ Matches(drv.name, c.want)
             tried == drv.legacyInitAttempted \/ Usable(drv)
             new == [drv EXCEPT !.initStatus = ok, !.legacyInitAttempted = @ \/ Usable(drv)]
  <2>1. pc[t] = "pfnInit" /\ Proceed(t, "init", new, Forward(c))
    BY <1>5 DEF PfnInit
  <2>2. /\ c.i \in DOMAIN zeDrivers /\ drv \in driver_t /\ c.end <= Len(zeDrivers)
        /\ Forward(c) \in Call /\ 1 <= Forward(c).i /\ Forward(c).end = c.end
    BY <2>1, Here
  <2>3. new \in driver_t
    <3>1. ok \in BOOLEAN /\ tried \in BOOLEAN
      OBVIOUS
    <3>2. new = [drv EXCEPT !.initStatus = ok, !.legacyInitAttempted = tried]
      OBVIOUS
    <3> HIDE DEF ok, tried, new
    <3>. QED  BY <2>2, <3>1, <3>2 DEF driver_t
  <2> HIDE DEF new
  <2>4. TypeInv' /\ Wrote(t, "init", new, Forward(c))
    BY <2>1, <2>2, <2>3, Proceeded DEF Stage
  <2>. QED  BY <2>4 DEF new, ok
<1>6. ASSUME Ask(t)
      PROVE  TypeInv' /\ Wrote(t, "get", drv,
                               [Forward(c) EXCEPT !.answer = @ \o IF Reports(drv, c) THEN <<drv.name>> ELSE <<>>])
  <2> DEFINE handles == IF Reports(drv, c) THEN <<drv.name>> ELSE <<>>
             d == [Forward(c) EXCEPT !.answer = @ \o handles]
  <2>1. In(t, "get") /\ Proceed(t, "get", drv, d)
    BY <1>6 DEF Ask
  <2>2. /\ c.i \in DOMAIN zeDrivers /\ drv \in driver_t /\ c.end <= Len(zeDrivers)
        /\ Forward(c) \in Call /\ 1 <= Forward(c).i /\ Forward(c).end = c.end
    BY <2>1, Here
  <2>3. handles \in Seq(Driver)
    BY <2>2 DEF driver_t
  <2>4. d \in Call /\ d.i = Forward(c).i /\ d.end = Forward(c).end
    <3> HIDE DEF handles
    <3>1. Forward(c).answer \in Seq(Driver)
      BY <2>2 DEF Call
    <3>2. Forward(c).answer \o handles \in Seq(Driver)
      BY <2>3, <3>1
    <3>. QED  BY <2>2, <3>2 DEF Call
  <2> HIDE DEF d
  <2>5. TypeInv' /\ Wrote(t, "get", drv, d)
    BY <2>1, <2>2, <2>4, Proceeded DEF Stage
  <2>. QED  BY <2>5 DEF d
<1>. QED  BY <1>1, <1>2, <1>3, <1>4, <1>5, <1>6

\* A call begins, or its function goes on: every driver stays where it is.
Moves(t) ==
  \/ \E want \in InitFlags : zeInit(t, want)
  \/ \E want \in Descs : zeInitDrivers(t, want)
  \/ zeDriverGet(t) \/ Query(t) \/ Initialised(t) \/ Return(t)

LEMMA MoveStep ==
  ASSUME TypeInv, NEW t \in Thread, Moves(t)
  PROVE  /\ TypeInv' /\ UNCHANGED <<env, zeDrivers, driverEnvironmentQueried, coreDriverSortOnce>>
         /\ \A u \in Thread \ {t} : pc'[u] = pc[u] /\ call'[u] = call[u]
<1>0. /\ zeDrivers \in Seq(driver_t) /\ Len(zeDrivers) \in Nat /\ call[t] \in Call
      /\ InitFlags \cup Descs \subseteq SUBSET Class /\ Len(zeDrivers) <= Len(zeDrivers)
  BY RequestAssumption DEF TypeInv, TypeOK
<1>1. UNCHANGED <<env, zeDrivers, driverEnvironmentQueried, coreDriverSortOnce>>
  BY DEF Moves, zeInit, zeInitDrivers, zeDriverGet, Query, ContextReady, Initialised, Return, onceVars
<1>2. ASSUME NEW c \in Call PROVE [c EXCEPT !.i = 1, !.end = Len(zeDrivers)] \in Call
  BY <1>0 DEF Call
<1>8. NoCall \in Call
  <2>1. <<>> \in Seq(Driver) /\ {} \in SUBSET Class /\ 0 \in Nat /\ "zeInit" \in Api
    BY DEF Api
  <2>. QED  BY <2>1 DEF NoCall, Call
<1>3. [NoCall EXCEPT !.api = "zeDriverGet"] \in Call
  BY <1>8 DEF Call, Api
<1>9. ASSUME NEW want \in SUBSET Class, NEW api \in Api
      PROVE  [NoCall EXCEPT !.api = api, !.want = want] \in Call
  BY <1>8 DEF Call
<1>4. \/ \E stage \in {"idle", "query", "discover", "sort"}, c \in Call : Go(t, stage, c)
      \/ \E c \in Call : Go(t, "init", [c EXCEPT !.i = 1, !.end = Len(zeDrivers)])
  <2>1. CASE \E want \in InitFlags : zeInit(t, want)
    BY <1>0, <1>9, <2>1 DEF zeInit, Api
  <2>2. CASE \E want \in Descs : zeInitDrivers(t, want)
    <3>1. PICK want \in Descs : zeInitDrivers(t, want)
      BY <2>2
    <3>2. [NoCall EXCEPT !.api = "zeInitDrivers", !.want = want] \in Call
      BY <1>0, <1>9 DEF Api
    <3>. QED  BY <1>1, <3>1, <3>2 DEF zeInitDrivers, Loop
  <2>3. CASE zeDriverGet(t)
    BY <1>3, <2>3 DEF zeDriverGet
  <2>4. CASE Query(t)
    BY <1>0, <1>1, <2>4 DEF Query, ContextReady, Loop
  <2>5. CASE Initialised(t)
    BY <1>0, <1>8, <2>5 DEF Initialised
  <2>6. CASE Return(t)
    BY <1>8, <2>6 DEF Return
  <2>. QED  BY <2>1, <2>2, <2>3, <2>4, <2>5, <2>6 DEF Moves
<1> DEFINE Gone == /\ pc' \in [Thread -> Stage] /\ call' \in [Thread -> Call] /\ Bounds'
                   /\ \A u \in Thread \ {t} : pc'[u] = pc[u] /\ call'[u] = call[u]
<1>5. Gone
  <2>1. ASSUME NEW stage \in {"idle", "query", "discover", "sort"}, NEW c \in Call, Go(t, stage, c)
        PROVE  Gone
    BY <1>0, <1>1, <2>1, Moved DEF Stage
  <2>2. ASSUME NEW c \in Call, Go(t, "init", [c EXCEPT !.i = 1, !.end = Len(zeDrivers)])
        PROVE  Gone
    <3> DEFINE d == [c EXCEPT !.i = 1, !.end = Len(zeDrivers)]
    <3>1. d \in Call /\ d.i = 1 /\ d.end = Len(zeDrivers)
      BY <1>0 DEF Call
    <3>2. Go(t, "init", d)
      BY <2>2
    <3> HIDE DEF d
    <3>. QED  BY <1>0, <1>1, <3>1, <3>2, Moved DEF Stage
  <2>. QED  BY <1>4, <2>1, <2>2
<1>6. initOnce' \in {"no", "running", "done"} /\ initOnceDrivers' \in {"no", "running", "done"}
  BY DEF TypeInv, TypeOK, Moves, zeInit, zeInitDrivers, zeDriverGet, Query, ContextReady, Initialised, Return, onceVars
<1>7. given' \in [Request -> Seq(Driver) \cup {None}]
  <2>1. call[t].answer \in Seq(Driver)
    BY <1>0 DEF Call
  <2>2. CASE Return(t)
    BY <2>1, <2>2 DEF TypeInv, TypeOK, Return
  <2>3. CASE ~Return(t)
    BY <2>3 DEF TypeInv, TypeOK, Moves, zeInit, zeInitDrivers, zeDriverGet, Query, ContextReady, Initialised
  <2>. QED  BY <2>2, <2>3
<1>. QED  BY <1>1, <1>5, <1>6, <1>7 DEF TypeInv, TypeOK

\* What discovery adds to the vector.
Found ==
  [k \in DOMAIN env.discovered |->
     [name |-> env.discovered[k], driverType |-> Advertised[env.discovered[k]],
      handle |-> FALSE, ddiInitialized |-> FALSE, initStatus |-> TRUE, legacyInitAttempted |-> FALSE]]

LEMMA FoundIs ==
  ASSUME env \in Environments
  PROVE  /\ Found \in Seq(driver_t) /\ Len(Found) = Len(env.discovered) /\ DOMAIN Found = DOMAIN env.discovered
         /\ \A k \in DOMAIN Found :
              /\ env.discovered[k] \in Driver /\ Found[k].name = env.discovered[k]
              /\ Found[k].driverType = Advertised[env.discovered[k]]
              /\ Found[k].handle = FALSE /\ Found[k].ddiInitialized = FALSE
              /\ Found[k].initStatus = TRUE
<1>1. env.discovered \in Seq(Driver) /\ Len(env.discovered) \in Nat
  BY EnvironmentAssumption
<1>2. ASSUME NEW d \in Driver
      PROVE  [name |-> d, driverType |-> Advertised[d], handle |-> FALSE, ddiInitialized |-> FALSE,
              initStatus |-> TRUE, legacyInitAttempted |-> FALSE] \in driver_t
  BY AdvertisedAssumption DEF driver_t
<1>3. \A k \in DOMAIN env.discovered : env.discovered[k] \in Driver
  BY <1>1
<1>4. Found \in Seq(driver_t) /\ Len(Found) = Len(env.discovered) /\ DOMAIN Found = DOMAIN env.discovered
  BY <1>1, <1>2, <1>3 DEF Found
<1>. QED  BY <1>3, <1>4 DEF Found

LEMMA DiscoverStep ==
  ASSUME TypeInv, NEW t \in Thread, Discover(t)
  PROVE  /\ TypeInv' /\ zeDrivers' = zeDrivers \o Found /\ driverEnvironmentQueried'
         /\ UNCHANGED <<env, initOnce, coreDriverSortOnce, given>>
         /\ pc'[t] = "init" /\ call'[t] = [call[t] EXCEPT !.i = 1, !.end = Len(zeDrivers')]
         /\ \A u \in Thread \ {t} : pc'[u] = pc[u] /\ call'[u] = call[u]
<1> DEFINE c == [call[t] EXCEPT !.i = 1, !.end = Len(zeDrivers')]
<1>1. /\ zeDrivers' = zeDrivers \o Found /\ driverEnvironmentQueried' = TRUE
      /\ initOnceDrivers' = IF call[t].api = "zeInitDrivers" THEN "done" ELSE initOnceDrivers
      /\ Go(t, "init", c) /\ UNCHANGED <<env, initOnce, coreDriverSortOnce, given>>
  BY DEF Discover, ContextReady, Loop, Found
<1>2. zeDrivers \in Seq(driver_t) /\ Found \in Seq(driver_t) /\ call[t] \in Call
  BY FoundIs DEF TypeInv, TypeOK
<1>3. /\ zeDrivers' \in Seq(driver_t) /\ Len(zeDrivers') \in Nat
      /\ Len(zeDrivers) <= Len(zeDrivers')
  BY <1>1, <1>2, ConcatProperties
<1>4. c \in Call /\ c.i = 1 /\ c.end = Len(zeDrivers')
  BY <1>2, <1>3 DEF Call
<1> HIDE DEF c
<1>5. /\ pc' \in [Thread -> Stage] /\ call' \in [Thread -> Call] /\ Bounds'
      /\ pc'[t] = "init" /\ call'[t] = c
      /\ \A u \in Thread \ {t} : pc'[u] = pc[u] /\ call'[u] = call[u]
  BY <1>1, <1>3, <1>4, Moved DEF Stage
<1>6. TypeInv'
  BY <1>1, <1>3, <1>5 DEF TypeInv, TypeOK
<1>. QED  BY <1>1, <1>5, <1>6 DEF c

LEMMA SortStep ==
  ASSUME TypeInv, NEW t \in Thread, Sort(t)
  PROVE  /\ TypeInv' /\ Len(zeDrivers') = Len(zeDrivers) /\ DOMAIN zeDrivers' = DOMAIN zeDrivers
         /\ coreDriverSortOnce'
         /\ zeDrivers' = zeDrivers \/ (~coreDriverSortOnce /\ Shuffled(zeDrivers, zeDrivers'))
         /\ UNCHANGED <<env, driverEnvironmentQueried, initOnce, initOnceDrivers, given>>
         /\ pc'[t] = "get" /\ call'[t] = [call[t] EXCEPT !.i = 1, !.end = Len(zeDrivers)]
         /\ \A u \in Thread \ {t} : pc'[u] = pc[u] /\ call'[u] = call[u]
<1> DEFINE c == [call[t] EXCEPT !.i = 1, !.end = Len(zeDrivers')]
<1>1. /\ zeDrivers' = IF coreDriverSortOnce THEN zeDrivers ELSE driverSorting(call[t].api = "zeInitDrivers")
      /\ coreDriverSortOnce' = TRUE /\ Go(t, "get", c)
      /\ UNCHANGED <<env, driverEnvironmentQueried, initOnce, initOnceDrivers, given>>
  BY DEF Sort, Loop
<1>2. zeDrivers \in Seq(driver_t) /\ env \in Environments /\ call[t] \in Call
  BY DEF TypeInv, TypeOK
<1>3. zeDrivers' = zeDrivers \/ (~coreDriverSortOnce /\ Shuffled(zeDrivers, zeDrivers'))
  <2>1. CASE coreDriverSortOnce
    BY <1>1, <2>1
  <2>2. CASE ~coreDriverSortOnce
    <3>1. zeDrivers' = driverSorting(call[t].api = "zeInitDrivers")
      BY <1>1, <2>2
    <3>2. Shuffled(zeDrivers, driverSorting(call[t].api = "zeInitDrivers"))
      BY <1>2, SortingShuffles
    <3>3. Shuffled(zeDrivers, zeDrivers')
      BY <3>1, <3>2
    <3>. QED  BY <2>2, <3>3
  <2>. QED  BY <2>1, <2>2
<1>4. /\ zeDrivers' \in Seq(driver_t) /\ Len(zeDrivers') = Len(zeDrivers) /\ Len(zeDrivers') \in Nat
      /\ DOMAIN zeDrivers' = DOMAIN zeDrivers /\ Len(zeDrivers) <= Len(zeDrivers')
  BY <1>2, <1>3 DEF Shuffled
<1>5. c \in Call /\ c.i = 1 /\ c.end = Len(zeDrivers')
  BY <1>2, <1>4 DEF Call
<1> HIDE DEF c
<1>6. /\ pc' \in [Thread -> Stage] /\ call' \in [Thread -> Call] /\ Bounds'
      /\ pc'[t] = "get" /\ call'[t] = c
      /\ \A u \in Thread \ {t} : pc'[u] = pc[u] /\ call'[u] = call[u]
  BY <1>1, <1>4, <1>5, Moved DEF Stage
<1>7. TypeInv'
  BY <1>1, <1>4, <1>6 DEF TypeInv, TypeOK
<1>. QED  BY <1>1, <1>3, <1>4, <1>6, <1>7 DEF c

LEMMA TypeInit == Init => TypeInv
<1> SUFFICES ASSUME Init PROVE TypeInv
  OBVIOUS
<1>1. NoCall \in Call
  <2>1. <<>> \in Seq(Driver) /\ {} \in SUBSET Class /\ 0 \in Nat /\ "zeInit" \in Api
    BY DEF Api
  <2>. QED  BY <2>1 DEF NoCall, Call
<1>2. /\ zeDrivers \in Seq(driver_t) /\ pc \in [Thread -> Stage] /\ call \in [Thread -> Call]
      /\ given \in [Request -> Seq(Driver) \cup {None}]
  BY <1>1 DEF Init, Stage
<1>3. Bounds
  BY DEF Init, Bounds
<1>. QED  BY <1>2, <1>3 DEF Init, TypeInv, TypeOK

Loops(t) == NothingToDo(t) \/ AlreadyLoaded(t) \/ LoadLibrary(t) \/ InitTables(t) \/ PfnInit(t) \/ Ask(t)

LEMMA Steps ==
  Next => \E t \in Thread : Moves(t) \/ Discover(t) \/ Loops(t) \/ Sort(t)
BY DEF Next, Moves, Loops

LEMMA TypeStep == TypeInv /\ [Next]_vars => TypeInv'
<1> SUFFICES ASSUME TypeInv, [Next]_vars PROVE TypeInv'
  OBVIOUS
<1>1. ASSUME NEW t \in Thread, Moves(t) PROVE TypeInv'
  BY <1>1, MoveStep
<1>2. ASSUME NEW t \in Thread, Discover(t) PROVE TypeInv'
  BY <1>2, DiscoverStep
<1>3. ASSUME NEW t \in Thread, Loops(t) PROVE TypeInv'
  BY <1>3, LoopStep DEF Loops
<1>4. ASSUME NEW t \in Thread, Sort(t) PROVE TypeInv'
  BY <1>4, SortStep
<1>5. CASE UNCHANGED vars
  BY <1>5 DEF vars, onceVars, TypeInv, TypeOK, Bounds
<1>. QED  BY <1>1, <1>2, <1>3, <1>4, <1>5, Steps

(* Types: the loops of initialisation and of zeDriverGet and zeInitDrivers *)
(* stay inside the vector of drivers, however calls interleave.            *)
THEOREM TypeCorrect == Spec => []TypeOK
<1>1. Init => TypeInv
  BY TypeInit
<1>2. TypeInv /\ [Next]_vars => TypeInv'
  BY TypeStep
<1>3. TypeInv => TypeOK
  BY DEF TypeInv
<1>. QED  BY <1>1, <1>2, <1>3, PTL DEF Spec

-----------------------------------------------------------------------------
(* The drivers discovered, each once *)

LEMMA AloneStep ==
  ASSUME TypeInv, Alone, ~Together, NEW t \in Thread, Moves(t) \/ Discover(t) \/ Loops(t) \/ Sort(t),
         coreDriverSortOnce => coreDriverSortOnce', \A u \in Thread \ {t} : pc'[u] = pc[u]
  PROVE  Alone'
<1>1. pc[t] # "idle" \/ MayBegin(t)
  BY DEF Moves, zeInit, zeInitDrivers, zeDriverGet, Query, Initialised, Return, Discover, Loops, NothingToDo,
         AlreadyLoaded, LoadLibrary, InitTables, PfnInit, Ask, Sort, In, Ended
<1>2. ~coreDriverSortOnce => \A u \in Thread \ {t} : pc[u] = "idle"
  BY <1>1 DEF Alone, MayBegin
<1>. QED  BY <1>2 DEF Alone

SameCall(c, d) == c.api = d.api /\ c.want = d.want /\ c.end = d.end

\* The loops write to a driver, but for its name and the type it has.
LEMMA LoopsKeep ==
  ASSUME TypeInv, NEW t \in Thread, Loops(t)
  PROVE  /\ TypeInv' /\ pc[t] \in {"init", "tables", "pfnInit", "get"}
         /\ pc'[t] \in {"init", "tables", "pfnInit", "get"}
         /\ pc'[t] = "get" <=> pc[t] = "get"
         /\ pc'[t] = "pfnInit" => Legacy(t)
         /\ SameCall(call'[t], call[t])
         /\ \A u \in Thread \ {t} : pc'[u] = pc[u] /\ call'[u] = call[u]
         /\ Len(zeDrivers') = Len(zeDrivers) /\ DOMAIN zeDrivers' = DOMAIN zeDrivers
         /\ call[t].i \in DOMAIN zeDrivers
         /\ \A k \in DOMAIN zeDrivers : zeDrivers'[k].name = zeDrivers[k].name
         /\ \A k \in DOMAIN zeDrivers : zeDrivers'[k].driverType = zeDrivers[k].driverType
         /\ \A k \in DOMAIN zeDrivers : k # call[t].i => zeDrivers'[k] = zeDrivers[k]
         /\ UNCHANGED <<env, driverEnvironmentQueried, initOnce, initOnceDrivers, coreDriverSortOnce, given>>
<1> DEFINE Kept(drv) == drv.name = Drv(t).name /\ drv.driverType = Drv(t).driverType
           At(stage) == /\ stage \in {"init", "tables", "pfnInit", "get"}
                        /\ stage = "get" <=> pc[t] = "get"
                        /\ stage = "pfnInit" => Legacy(t)
           W(stage, drv, c) == TypeInv' /\ Wrote(t, stage, drv, c)
           OneOf == \E stage, drv, c : W(stage, drv, c) /\ At(stage) /\ Kept(drv) /\ SameCall(c, call[t])
<1>2. pc[t] \in {"init", "tables", "pfnInit", "get"}
  BY DEF Loops, NothingToDo, AlreadyLoaded, LoadLibrary, InitTables, PfnInit, Ask, In
<1>1. OneOf
  <2>0. In(t, "init") \/ pc[t] = "tables" \/ pc[t] = "pfnInit" \/ In(t, "get")
    BY DEF Loops, NothingToDo, AlreadyLoaded, LoadLibrary, InitTables, PfnInit, Ask
  <2>1. /\ call[t] \in Call /\ Forward(call[t]) \in Call /\ Drv(t) \in driver_t
        /\ SameCall(Forward(call[t]), call[t]) /\ SameCall(call[t], call[t])
    BY <2>0, Here DEF SameCall
  <2>9. Kept(Drv(t))
    OBVIOUS
  <2> HIDE DEF Kept
  <2>2. CASE NothingToDo(t)
    <3>1. At("init")
      BY <2>2 DEF NothingToDo, In
    <3>2. W("init", Drv(t), Forward(call[t]))
      BY <2>2, LoopStep
    <3> HIDE DEF At, W
    <3>. QED  BY <2>1, <2>9, <3>1, <3>2
  <2>3. CASE AlreadyLoaded(t)
    <3>1. At("pfnInit")
      BY <2>3 DEF AlreadyLoaded, In
    <3>2. W("pfnInit", Drv(t), call[t])
      BY <2>3, LoopStep
    <3> HIDE DEF At, W
    <3>. QED  BY <2>1, <2>9, <3>1, <3>2
  <2>4. CASE LoadLibrary(t)
    <3>1. /\ Kept([Drv(t) EXCEPT !.handle = TRUE])
          /\ Kept([Drv(t) EXCEPT !.ddiInitialized = FALSE])
      BY <2>1 DEF driver_t, Kept
    <3>2. At("init") /\ At("tables")
      BY <2>4 DEF LoadLibrary, In
    <3>3. \/ W("tables", [Drv(t) EXCEPT !.handle = TRUE], call[t])
          \/ W("init", [Drv(t) EXCEPT !.ddiInitialized = FALSE], Forward(call[t]))
      BY <2>4, LoopStep
    <3> HIDE DEF At, W
    <3>. QED  BY <2>1, <3>1, <3>2, <3>3
  <2>5. CASE InitTables(t)
    <3> DEFINE new == [Drv(t) EXCEPT !.ddiInitialized = Drv(t).handle]
    <3>1. Kept(new)
      BY <2>1 DEF driver_t, Kept
    <3>2. At("init") /\ (Legacy(t) => At("pfnInit"))
      BY <2>5 DEF InitTables
    <3>3. (Legacy(t) /\ W("pfnInit", new, call[t])) \/ W("init", new, Forward(call[t]))
      BY <2>5, LoopStep
    <3> HIDE DEF At, W, new
    <3>. QED  BY <2>1, <3>1, <3>2, <3>3
  <2>6. CASE PfnInit(t)
    <3> DEFINE new == [Drv(t) EXCEPT !.initStatus = Usable(Drv(t)) /\ Matches(Drv(t).name, call[t].want),
                                     !.legacyInitAttempted = @ \/ Usable(Drv(t))]
    <3>1. Kept(new)
      BY <2>1 DEF driver_t, Kept
    <3>2. At("init")
      BY <2>6 DEF PfnInit
    <3>3. W("init", new, Forward(call[t]))
      BY <2>6, LoopStep
    <3> HIDE DEF At, W, new
    <3>. QED  BY <2>1, <3>1, <3>2, <3>3
  <2>7. CASE Ask(t)
    <3> DEFINE handles == IF Reports(Drv(t), call[t]) THEN <<Drv(t).name>> ELSE <<>>
               c == [Forward(call[t]) EXCEPT !.answer = @ \o handles]
    <3>1. SameCall(c, call[t])
      BY <2>1 DEF SameCall, Call
    <3>2. At("get")
      BY <2>7 DEF Ask, In
    <3>3. W("get", Drv(t), c)
      BY <2>7, LoopStep
    <3> HIDE DEF At, W, c
    <3>. QED  BY <2>9, <3>1, <3>2, <3>3
  <2>. QED  BY <2>2, <2>3, <2>4, <2>5, <2>6, <2>7 DEF Loops
<1>3. PICK stage, drv, c : W(stage, drv, c) /\ At(stage) /\ Kept(drv) /\ SameCall(c, call[t])
  BY <1>1
<1>4. TypeInv' /\ Wrote(t, stage, drv, c) /\ Kept(drv) /\ At(stage) /\ SameCall(c, call[t])
  BY <1>3
<1>5. Drv(t) = zeDrivers[call[t].i]
  BY DEF Drv
<1>. QED  BY <1>2, <1>4, <1>5 DEF Wrote

LEMMA KeptStep ==
  ASSUME KeptInv, ~Together, [Next]_vars
  PROVE  KeptInv'
<1>0. TypeInv /\ Alone /\ Queried
  BY DEF KeptInv
<1>1. ASSUME NEW t \in Thread, Moves(t) PROVE KeptInv'
  <2>1. /\ TypeInv' /\ UNCHANGED <<env, zeDrivers, driverEnvironmentQueried, coreDriverSortOnce>>
        /\ \A u \in Thread \ {t} : pc'[u] = pc[u] /\ call'[u] = call[u]
    BY <1>0, <1>1, MoveStep
  <2>2. Alone'
    BY <1>0, <1>1, <2>1, AloneStep
  <2>3. pc \in [Thread -> Stage] /\ pc' \in [Thread -> Stage]
    BY <1>0, <2>1 DEF TypeInv, TypeOK
  <2>4. pc'[t] = "discover" => ~driverEnvironmentQueried
    BY <1>1, <2>3 DEF Moves, zeInit, zeInitDrivers, zeDriverGet, Query, ContextReady, Loop, Go, Initialised, Return
  <2>5. ~driverEnvironmentQueried =>
          /\ initOnce' # "done" /\ initOnceDrivers' # "done"
          /\ pc'[t] \in {"idle", "query", "discover"}
    <3> SUFFICES ASSUME ~driverEnvironmentQueried
                 PROVE  /\ initOnce' # "done" /\ initOnceDrivers' # "done"
                        /\ pc'[t] \in {"idle", "query", "discover"}
      OBVIOUS
    <3>1. initOnce # "done" /\ initOnceDrivers # "done" /\ pc[t] \in {"idle", "query", "discover"}
      BY <1>0 DEF Queried
    <3>2. CASE \E want \in InitFlags : zeInit(t, want)
      BY <2>3, <3>1, <3>2 DEF zeInit, Go
    <3>3. CASE \E want \in Descs : zeInitDrivers(t, want)
      BY <2>3, <3>1, <3>3 DEF zeInitDrivers, Go
    <3>4. CASE Query(t)
      BY <2>3, <3>1, <3>4 DEF Query, Go, onceVars
    <3>5. ~zeDriverGet(t) /\ ~Initialised(t) /\ ~Return(t)
      BY <3>1 DEF zeDriverGet, Initialised, Return, Ended
    <3>. QED  BY <1>1, <3>2, <3>3, <3>4, <3>5 DEF Moves
  <2>6. Queried'
    BY <1>0, <2>1, <2>4, <2>5 DEF Queried
  <2>. QED  BY <2>1, <2>2, <2>6 DEF KeptInv
<1>2. ASSUME NEW t \in Thread, Discover(t) PROVE KeptInv'
  <2>1. /\ TypeInv' /\ zeDrivers' = zeDrivers \o Found /\ driverEnvironmentQueried'
        /\ UNCHANGED <<env, initOnce, coreDriverSortOnce, given>>
        /\ pc'[t] = "init" /\ \A u \in Thread \ {t} : pc'[u] = pc[u]
    BY <1>0, <1>2, DiscoverStep
  <2>2. Alone'
    BY <1>0, <1>2, <2>1, AloneStep
  <2>3. zeDrivers = <<>> /\ ~coreDriverSortOnce
    BY <1>0, <1>2 DEF Discover, Queried
  <2>4. env \in Environments
    BY <1>0 DEF TypeInv, TypeOK
  <2>5. Found \in Seq(driver_t)
    BY <2>4, FoundIs
  <2>6. zeDrivers' = Found
    BY <2>1, <2>3, <2>5, ConcatEmptySeq
  <2>7. /\ Len(zeDrivers') = Len(env.discovered) /\ DOMAIN zeDrivers' = DOMAIN env.discovered
        /\ \A k \in DOMAIN env.discovered : zeDrivers'[k].name = env.discovered[k]
    BY <2>4, <2>6, FoundIs
  <2>8. IsInjective(env.discovered)
    BY <2>4, EnvironmentAssumption
  <2>9. \A j, k \in DOMAIN env.discovered : env.discovered[j] = env.discovered[k] => j = k
    BY <2>8 DEF IsInjective
  <2>10. \A u \in Thread : pc'[u] # "discover"
    <3>1. \A u \in Thread : u # t => pc[u] = "idle"
      BY <1>0, <1>2, <2>3 DEF Alone, Discover
    <3>. QED  BY <2>1, <3>1
  <2>11. Queried'
    <3>1. \A j, k \in DOMAIN zeDrivers' : zeDrivers'[j].name = zeDrivers'[k].name => j = k
      BY <2>7, <2>9
    <3>2. \A n \in DOMAIN env.discovered : \E k \in DOMAIN zeDrivers' : zeDrivers'[k].name = env.discovered[n]
      BY <2>7
    <3>3. \A k \in DOMAIN zeDrivers' : \E n \in DOMAIN env.discovered : zeDrivers'[k].name = env.discovered[n]
      BY <2>7
    <3>4. env' = env /\ Len(zeDrivers') = Len(env.discovered) /\ driverEnvironmentQueried'
      BY <2>1, <2>7
    <3>5. /\ Len(zeDrivers') = Len(env'.discovered)
          /\ \A n \in DOMAIN env'.discovered : \E k \in DOMAIN zeDrivers' : zeDrivers'[k].name = env'.discovered[n]
          /\ \A k \in DOMAIN zeDrivers' : \E n \in DOMAIN env'.discovered : zeDrivers'[k].name = env'.discovered[n]
      BY <3>2, <3>3, <3>4
    <3>6. driverEnvironmentQueried'
      BY <3>4
    <3> QED  BY <2>10, <3>1, <3>5, <3>6, Zenon DEF Queried
  <2>. QED  BY <2>1, <2>2, <2>11 DEF KeptInv
<1>3. ASSUME NEW t \in Thread, Loops(t) PROVE KeptInv'
  <2>1. /\ TypeInv' /\ pc[t] \in {"init", "tables", "pfnInit", "get"}
        /\ pc'[t] \in {"init", "tables", "pfnInit", "get"}
        /\ \A u \in Thread \ {t} : pc'[u] = pc[u]
        /\ Len(zeDrivers') = Len(zeDrivers) /\ DOMAIN zeDrivers' = DOMAIN zeDrivers
        /\ \A k \in DOMAIN zeDrivers : zeDrivers'[k].name = zeDrivers[k].name
        /\ UNCHANGED <<env, driverEnvironmentQueried, initOnce, initOnceDrivers, coreDriverSortOnce, given>>
    BY <1>0, <1>3, LoopsKeep
  <2>2. Alone'
    BY <1>0, <1>3, <2>1, AloneStep
  <2>3. driverEnvironmentQueried
    BY <1>0, <2>1 DEF Queried
  <2>4. Queried'
    BY <1>0, <2>1, <2>3 DEF Queried
  <2>. QED  BY <2>1, <2>2, <2>4 DEF KeptInv
<1>4. ASSUME NEW t \in Thread, Sort(t) PROVE KeptInv'
  <2>1. /\ TypeInv' /\ Len(zeDrivers') = Len(zeDrivers) /\ DOMAIN zeDrivers' = DOMAIN zeDrivers
        /\ coreDriverSortOnce'
        /\ zeDrivers' = zeDrivers \/ Shuffled(zeDrivers, zeDrivers')
        /\ UNCHANGED <<env, driverEnvironmentQueried, initOnce, initOnceDrivers, given>>
        /\ pc'[t] = "get" /\ \A u \in Thread \ {t} : pc'[u] = pc[u]
    BY <1>0, <1>4, SortStep
  <2>2. Alone'
    BY <1>0, <1>4, <2>1, AloneStep
  <2>3. driverEnvironmentQueried
    BY <1>0, <1>4 DEF Queried, Sort
  <2>4. /\ \A j, k \in DOMAIN zeDrivers : zeDrivers'[j].name = zeDrivers'[k].name => j = k
        /\ \A k \in DOMAIN zeDrivers : \E j \in DOMAIN zeDrivers : zeDrivers'[k].name = zeDrivers[j].name
        /\ \A j \in DOMAIN zeDrivers : \E k \in DOMAIN zeDrivers : zeDrivers'[k].name = zeDrivers[j].name
    <3>0. \A j, k \in DOMAIN zeDrivers : zeDrivers[j].name = zeDrivers[k].name => j = k
      BY <1>0, <2>3 DEF Queried
    <3>1. CASE zeDrivers' = zeDrivers
      BY <3>0, <3>1
    <3>2. CASE Shuffled(zeDrivers, zeDrivers')
      <4>1. /\ DOMAIN zeDrivers' = DOMAIN zeDrivers
            /\ \A k \in DOMAIN zeDrivers : \E j \in DOMAIN zeDrivers : Retyped(zeDrivers[j], zeDrivers'[k])
            /\ \A j \in DOMAIN zeDrivers : \E k \in DOMAIN zeDrivers : Retyped(zeDrivers[j], zeDrivers'[k])
            /\ \A j, k \in DOMAIN zeDrivers : zeDrivers'[j].name = zeDrivers'[k].name => j = k
        BY <3>0, <3>2 DEF Shuffled
      <4>2. \A j, k \in DOMAIN zeDrivers :
              Retyped(zeDrivers[j], zeDrivers'[k]) => zeDrivers'[k].name = zeDrivers[j].name
        BY DEF Retyped
      <4>. QED  BY <4>1, <4>2
    <3>. QED  BY <2>1, <3>1, <3>2
  <2>5. /\ \A n \in DOMAIN env.discovered : \E k \in DOMAIN zeDrivers : zeDrivers'[k].name = env.discovered[n]
        /\ \A k \in DOMAIN zeDrivers : \E n \in DOMAIN env.discovered : zeDrivers'[k].name = env.discovered[n]
    <3>1. /\ \A n \in DOMAIN env.discovered : \E k \in DOMAIN zeDrivers : zeDrivers[k].name = env.discovered[n]
          /\ \A k \in DOMAIN zeDrivers : \E n \in DOMAIN env.discovered : zeDrivers[k].name = env.discovered[n]
      BY <1>0, <2>3 DEF Queried
    <3>2. ASSUME NEW n \in DOMAIN env.discovered
          PROVE  \E k \in DOMAIN zeDrivers : zeDrivers'[k].name = env.discovered[n]
      <4>1. PICK j \in DOMAIN zeDrivers : zeDrivers[j].name = env.discovered[n]
        BY <3>1
      <4>2. PICK k \in DOMAIN zeDrivers : zeDrivers'[k].name = zeDrivers[j].name
        BY <2>4
      <4>. QED  BY <4>1, <4>2
    <3>3. ASSUME NEW k \in DOMAIN zeDrivers
          PROVE  \E n \in DOMAIN env.discovered : zeDrivers'[k].name = env.discovered[n]
      <4>1. PICK j \in DOMAIN zeDrivers : zeDrivers'[k].name = zeDrivers[j].name
        BY <2>4
      <4>. QED  BY <3>1, <4>1
    <3>. QED  BY <3>2, <3>3
  <2>6. Len(zeDrivers') = Len(env.discovered)
    BY <1>0, <2>1, <2>3 DEF Queried
  <2>7. \A u \in Thread : pc'[u] # "discover"
    BY <1>0, <2>1, <2>3 DEF Queried
  <2>8. Queried'
    BY <2>1, <2>3, <2>4, <2>5, <2>6, <2>7 DEF Queried
  <2>. QED  BY <2>1, <2>2, <2>8 DEF KeptInv
<1>5. CASE UNCHANGED vars
  BY <1>5 DEF vars, onceVars, KeptInv, TypeInv, TypeOK, Bounds, Alone, Queried
<1>. QED  BY <1>1, <1>2, <1>3, <1>4, <1>5, Steps

LEMMA KeptInit == Init => KeptInv
BY TypeInit DEF Init, KeptInv, Alone, Queried

(* Whatever calls load, and whatever the sort and ZEL_DRIVERS_ORDER make of *)
(* the vector, it has each driver discovered once, when no call overlaps    *)
(* the one that sorts.                                                      *)
THEOREM DriversAreKept ==
  ASSUME ~Together
  PROVE  Spec => []DriversKept
<1>1. Init => KeptInv
  BY KeptInit
<1>2. KeptInv /\ [Next]_vars => KeptInv'
  BY KeptStep
<1>3. KeptInv => DriversKept
  <2> SUFFICES ASSUME KeptInv, driverEnvironmentQueried, NEW d \in ToSet(env.discovered)
               PROVE  Cardinality({k \in DOMAIN zeDrivers : zeDrivers[k].name = d}) = 1
    BY DEF DriversKept
  <2>1. PICK n \in DOMAIN env.discovered : env.discovered[n] = d
    BY DEF ToSet
  <2>2. PICK k \in DOMAIN zeDrivers : zeDrivers[k].name = d
    BY <2>1 DEF KeptInv, Queried
  <2>3. {j \in DOMAIN zeDrivers : zeDrivers[j].name = d} = {k}
    BY <2>2 DEF KeptInv, Queried
  <2>4. Cardinality({k}) = 1
    BY FS_Singleton
  <2>. QED  BY <2>3, <2>4
<1>. QED  BY <1>1, <1>2, <1>3, PTL DEF Spec

-----------------------------------------------------------------------------
(* Drivers are loaded *)

\* A call is at a stage of its function.
Stages ==
  \A t \in Thread :
    LET c == call[t] IN
    /\ pc[t] \in {"query", "discover", "init", "tables"} => c.api \in {"zeInit", "zeInitDrivers"}
    /\ pc[t] = "pfnInit" => c.api = "zeInit"
    /\ pc[t] \in {"sort", "get"} => c.api \in {"zeInitDrivers", "zeDriverGet"}
    /\ pc[t] # "idle" /\ c.api = "zeInit" => c.want \in InitFlags
    /\ pc[t] # "idle" /\ c.api = "zeDriverGet" => c.want = {}

\* A driver is selected, by the type discovery gives it.
Selects(d, want) ==
  \/ Advertised[d] = FORCE_UINT32
  \/ "GPU" \in want /\ Advertised[d] \in {GPU, DISCRETE_GPU, INTEGRATED_GPU}
  \/ "NPU" \in want /\ Advertised[d] \in {NPU, OTHER_TYPE}

Loadable(d, want) == d \notin env.broken /\ Selects(d, want)

\* What is loaded can be, and what is not has the type of its library.
SoundDriver(drv) ==
  /\ drv.ddiInitialized => drv.handle
  /\ drv.handle => Loadable(drv.name, Class)
  /\ ~drv.handle => drv.driverType = Advertised[drv.name]

Sound == \A k \in DOMAIN zeDrivers : SoundDriver(zeDrivers[k])

\* A loop that wants these classes has been past this driver.
Passed(drv, want) == Loadable(drv.name, want) => Usable(drv)

Loading ==
  \A t \in Thread :
    LET c == call[t] IN
    /\ pc[t] = "tables" => zeDrivers[c.i].handle
    /\ pc[t] = "pfnInit" => Usable(zeDrivers[c.i])
    /\ pc[t] \in {"init", "tables", "pfnInit"} => c.end = Len(zeDrivers)
    /\ pc[t] \in {"init", "tables"} /\ c.api = "zeInitDrivers" =>
         \A k \in DOMAIN zeDrivers : k < c.i => Passed(zeDrivers[k], c.want)
    /\ pc[t] \in {"sort", "get"} /\ c.api = "zeInitDrivers" =>
         \A k \in DOMAIN zeDrivers : Passed(zeDrivers[k], c.want)

LoadInv == KeptInv /\ Stages /\ Sound /\ Loading

LEMMA SelectsMore ==
  ASSUME NEW d, NEW want \in SUBSET Class, Loadable(d, want)
  PROVE  Loadable(d, Class)
BY DEF Loadable, Selects, Class

LEMMA SelectedIs ==
  ASSUME NEW drv \in driver_t, NEW want, drv.driverType = Advertised[drv.name]
  PROVE  Selected(drv, want) <=> Selects(drv.name, want)
BY DEF Selected, Selects, Custom

\* What a loop writes to its driver.
LEMMA LoopsLoad ==
  ASSUME LoadInv, NEW t \in Thread, Loops(t)
  PROVE  LET old == zeDrivers[call[t].i]
             new == zeDrivers'[call[t].i]
         IN  /\ SoundDriver(new) /\ new.name = old.name
             /\ old.handle => new.handle
             /\ Usable(old) => Usable(new)
             /\ ~PfnInit(t) => new.initStatus = old.initStatus
             /\ LoadLibrary(t) \/ InitTables(t) \/ new.ddiInitialized = old.ddiInitialized
<1> DEFINE i == call[t].i
           old == zeDrivers[i]
           new == zeDrivers'[i]
           want == call[t].want
<1>1. TypeInv /\ Stages /\ Sound /\ Loading
  BY DEF LoadInv, KeptInv
<1>2. /\ i \in DOMAIN zeDrivers /\ Drv(t) = old /\ old \in driver_t /\ want \in SUBSET Class
  <2>1. In(t, "init") \/ pc[t] = "tables" \/ pc[t] = "pfnInit" \/ In(t, "get")
    BY DEF Loops, NothingToDo, AlreadyLoaded, LoadLibrary, InitTables, PfnInit, Ask
  <2>. QED  BY <1>1, <2>1, Here DEF Call
<1>3. SoundDriver(old)
  BY <1>1, <1>2 DEF Sound
<1> DEFINE Goal == /\ SoundDriver(new) /\ new.name = old.name
                   /\ old.handle => new.handle
                   /\ Usable(old) => Usable(new)
                   /\ ~PfnInit(t) => new.initStatus = old.initStatus
                   /\ LoadLibrary(t) \/ InitTables(t) \/ new.ddiInitialized = old.ddiInitialized
<1> HIDE DEF new
<1>4. ASSUME NothingToDo(t) \/ AlreadyLoaded(t) \/ Ask(t) PROVE Goal
  <2>1. new = old
    BY <1>1, <1>2, <1>4, LoopStep DEF Wrote, new
  <2>. QED  BY <1>3, <2>1
<1>5. ASSUME LoadLibrary(t) PROVE Goal
  <2>0. ~Usable(old)
    BY <1>2, <1>5 DEF LoadLibrary
  <2>1. CASE CanLoad(old, want) /\ new = [old EXCEPT !.handle = TRUE]
    <3>1. /\ new.name = old.name /\ new.handle = TRUE /\ new.ddiInitialized = old.ddiInitialized
          /\ new.initStatus = old.initStatus
      BY <1>2, <2>1 DEF driver_t
    <3>2. Loadable(old.name, Class)
      <4>1. CASE old.handle
        BY <1>3, <4>1 DEF SoundDriver
      <4>2. CASE ~old.handle
        <5>1. Selected(old, want) /\ old.name \notin env.broken
          BY <2>1, <4>2 DEF CanLoad
        <5>2. Selects(old.name, want)
          BY <1>2, <1>3, <4>2, <5>1, SelectedIs DEF SoundDriver
        <5>. QED  BY <1>2, <5>1, <5>2, SelectsMore DEF Loadable
      <4>. QED  BY <4>1, <4>2
    <3>. QED  BY <1>5, <2>0, <3>1, <3>2 DEF SoundDriver
  <2>2. CASE ~CanLoad(old, want) /\ new = [old EXCEPT !.ddiInitialized = FALSE]
    <3>1. /\ new.name = old.name /\ new.handle = old.handle /\ new.ddiInitialized = FALSE
          /\ new.initStatus = old.initStatus /\ new.driverType = old.driverType
      BY <1>2, <2>2 DEF driver_t
    <3>. QED  BY <1>3, <1>5, <2>0, <3>1 DEF SoundDriver
  <2>. QED  BY <1>1, <1>2, <1>5, <2>1, <2>2, LoopStep DEF Wrote, new
<1>6. ASSUME InitTables(t) PROVE Goal
  <2>1. new = [old EXCEPT !.ddiInitialized = old.handle]
    BY <1>1, <1>2, <1>6, LoopStep DEF Wrote, new
  <2>2. /\ new.name = old.name /\ new.handle = old.handle /\ new.ddiInitialized = old.handle
        /\ new.initStatus = old.initStatus /\ new.driverType = old.driverType
    BY <1>2, <2>1 DEF driver_t
  <2>. QED  BY <1>3, <1>6, <2>2 DEF SoundDriver, Usable
<1>7. ASSUME PfnInit(t) PROVE Goal
  <2> DEFINE ok == Usable(old) /\ Matches(old.name, want)
             tried == old.legacyInitAttempted \/ Usable(old)
  <2>1. new = [old EXCEPT !.initStatus = ok, !.legacyInitAttempted = tried]
    BY <1>1, <1>2, <1>7, LoopStep DEF Wrote, new
  <2> HIDE DEF ok, tried
  <2>2. /\ new.name = old.name /\ new.handle = old.handle /\ new.ddiInitialized = old.ddiInitialized
        /\ new.driverType = old.driverType
    BY <1>2, <2>1 DEF driver_t
  <2>. QED  BY <1>3, <1>7, <2>2 DEF SoundDriver, Usable
<1>8. Goal
  BY <1>4, <1>5, <1>6, <1>7 DEF Loops
<1>. QED  BY <1>8 DEF new

LEMMA MoveTo ==
  ASSUME TypeInv, Stages, NEW t \in Thread, Moves(t)
  PROVE  LET c == call'[t] IN
         /\ pc'[t] \in {"idle", "query", "discover", "init", "sort"}
         /\ pc'[t] # "idle" =>
              \/ c.api = "zeInit" /\ c.want \in InitFlags /\ pc'[t] \in {"query", "discover", "init"}
              \/ c.api = "zeInitDrivers"
              \/ c.api = "zeDriverGet" /\ c.want = {} /\ pc'[t] = "sort"
         /\ pc'[t] = "init" => c.i = 1 /\ c.end = Len(zeDrivers)
         /\ pc'[t] = "sort" /\ c.api = "zeInitDrivers" => Ended(t, "init") /\ c = call[t]
<1>0. /\ pc \in [Thread -> Stage] /\ call \in [Thread -> Call] /\ call[t] \in Call
      /\ UNCHANGED zeDrivers
  BY MoveStep DEF TypeInv, TypeOK
<1>1. CASE \E want \in InitFlags : zeInit(t, want)
  <2>1. PICK want \in InitFlags : zeInit(t, want)
    BY <1>1
  <2>2. pc'[t] = "query" /\ call'[t] = [NoCall EXCEPT !.api = "zeInit", !.want = want]
    BY <1>0, <2>1 DEF zeInit, Go
  <2>. QED  BY <2>2 DEF NoCall
<1>2. CASE \E want \in Descs : zeInitDrivers(t, want)
  <2>1. PICK want \in Descs : zeInitDrivers(t, want)
    BY <1>2
  <2> DEFINE c == [NoCall EXCEPT !.api = "zeInitDrivers", !.want = want]
  <2>2. \/ pc'[t] = "query" /\ call'[t] = c
        \/ pc'[t] = "init" /\ call'[t] = [c EXCEPT !.i = 1, !.end = Len(zeDrivers)]
    BY <1>0, <2>1 DEF zeInitDrivers, Loop, Go
  <2>3. /\ c.api = "zeInitDrivers"
        /\ [c EXCEPT !.i = 1, !.end = Len(zeDrivers)].api = "zeInitDrivers"
        /\ [c EXCEPT !.i = 1, !.end = Len(zeDrivers)].i = 1
        /\ [c EXCEPT !.i = 1, !.end = Len(zeDrivers)].end = Len(zeDrivers)
    BY DEF NoCall
  <2> HIDE DEF c
  <2>. QED  BY <2>2, <2>3
<1>3. CASE zeDriverGet(t)
  <2>1. pc'[t] = "sort" /\ call'[t] = [NoCall EXCEPT !.api = "zeDriverGet"]
    BY <1>0, <1>3 DEF zeDriverGet, Go
  <2>. QED  BY <2>1 DEF NoCall
<1>4. CASE Query(t)
  <2>1. pc[t] = "query" /\ (call[t].api = "zeInit" => call[t].want \in InitFlags)
        /\ call[t].api \in {"zeInit", "zeInitDrivers"}
    BY <1>4 DEF Query, Stages
  <2>2. \/ pc'[t] = "discover" /\ call'[t] = call[t]
        \/ pc'[t] = "init" /\ call'[t] = [call[t] EXCEPT !.i = 1, !.end = Len(zeDrivers)]
    BY <1>0, <1>4 DEF Query, ContextReady, Loop, Go
  <2>3. LET d == [call[t] EXCEPT !.i = 1, !.end = Len(zeDrivers)]
        IN  d.api = call[t].api /\ d.want = call[t].want /\ d.i = 1 /\ d.end = Len(zeDrivers)
    BY <1>0 DEF Call
  <2>. QED  BY <2>1, <2>2, <2>3
<1>5. CASE Initialised(t)
  <2>1. Ended(t, "init") /\ pc[t] = "init" /\ call[t].api \in {"zeInit", "zeInitDrivers"}
    BY <1>5 DEF Initialised, Stages, Ended
  <2>2. IF call[t].api = "zeInit" THEN pc'[t] = "idle" ELSE pc'[t] = "sort" /\ call'[t] = call[t]
    BY <1>0, <1>5 DEF Initialised, Go, Legacy
  <2>. QED  BY <2>1, <2>2
<1>6. CASE Return(t)
  BY <1>0, <1>6 DEF Return, Go
<1>. QED  BY <1>1, <1>2, <1>3, <1>4, <1>5, <1>6 DEF Moves

LEMMA StagesStep ==
  ASSUME TypeInv, Stages, [Next]_vars
  PROVE  Stages'
<1> DEFINE S(p, c) == /\ p \in {"query", "discover", "init", "tables"} => c.api \in {"zeInit", "zeInitDrivers"}
                      /\ p = "pfnInit" => c.api = "zeInit"
                      /\ p \in {"sort", "get"} => c.api \in {"zeInitDrivers", "zeDriverGet"}
                      /\ p # "idle" /\ c.api = "zeInit" => c.want \in InitFlags
                      /\ p # "idle" /\ c.api = "zeDriverGet" => c.want = {}
<1>0. \A u \in Thread : S(pc[u], call[u])
  BY DEF Stages
<1>1. ASSUME NEW t \in Thread, S(pc'[t], call'[t]), \A u \in Thread \ {t} : pc'[u] = pc[u] /\ call'[u] = call[u]
      PROVE  Stages'
  <2>1. \A u \in Thread : S(pc'[u], call'[u])
    <3> HIDE DEF S
    <3>. QED  BY <1>0, <1>1
  <2>. QED  BY <2>1 DEF Stages
<1>2. ASSUME NEW t \in Thread, Moves(t) PROVE Stages'
  <2>1. \A u \in Thread \ {t} : pc'[u] = pc[u] /\ call'[u] = call[u]
    BY <1>2, MoveStep
  <2>2. S(pc'[t], call'[t])
    BY <1>2, MoveTo
  <2> HIDE DEF S
  <2>. QED  BY <1>1, <2>1, <2>2
<1>3. ASSUME NEW t \in Thread, Discover(t) PROVE Stages'
  <2>1. /\ pc'[t] = "init" /\ call'[t] = [call[t] EXCEPT !.i = 1, !.end = Len(zeDrivers')]
        /\ \A u \in Thread \ {t} : pc'[u] = pc[u] /\ call'[u] = call[u]
    BY <1>3, DiscoverStep
  <2>2. pc[t] = "discover" /\ call[t] \in Call
    BY <1>3 DEF Discover, TypeInv, TypeOK
  <2>3. call'[t].api = call[t].api /\ call'[t].want = call[t].want
    BY <2>1, <2>2 DEF Call
  <2>4. S(pc'[t], call'[t])
    BY <1>0, <2>1, <2>2, <2>3
  <2> HIDE DEF S
  <2>. QED  BY <1>1, <2>1, <2>4
<1>4. ASSUME NEW t \in Thread, Loops(t) PROVE Stages'
  <2>1. /\ pc[t] \in {"init", "tables", "pfnInit", "get"}
        /\ pc'[t] \in {"init", "tables", "pfnInit", "get"}
        /\ pc'[t] = "get" <=> pc[t] = "get"
        /\ pc'[t] = "pfnInit" => call[t].api = "zeInit"
        /\ call'[t].api = call[t].api /\ call'[t].want = call[t].want
        /\ \A u \in Thread \ {t} : pc'[u] = pc[u] /\ call'[u] = call[u]
    BY <1>4, LoopsKeep DEF SameCall, Legacy
  <2>2. S(pc'[t], call'[t])
    BY <1>0, <2>1
  <2> HIDE DEF S
  <2>. QED  BY <1>1, <2>1, <2>2
<1>5. ASSUME NEW t \in Thread, Sort(t) PROVE Stages'
  <2>1. /\ pc'[t] = "get" /\ call'[t] = [call[t] EXCEPT !.i = 1, !.end = Len(zeDrivers)]
        /\ \A u \in Thread \ {t} : pc'[u] = pc[u] /\ call'[u] = call[u]
    BY <1>5, SortStep
  <2>2. pc[t] = "sort" /\ call[t] \in Call
    BY <1>5 DEF Sort, TypeInv, TypeOK
  <2>3. call'[t].api = call[t].api /\ call'[t].want = call[t].want
    BY <2>1, <2>2 DEF Call
  <2>4. S(pc'[t], call'[t])
    BY <1>0, <2>1, <2>2, <2>3
  <2> HIDE DEF S
  <2>. QED  BY <1>1, <2>1, <2>4
<1>6. CASE UNCHANGED vars
  BY <1>6 DEF vars, Stages
<1>. QED  BY <1>2, <1>3, <1>4, <1>5, <1>6, Steps

LEMMA RetypedSound ==
  ASSUME NEW a, NEW b, SoundDriver(a), Retyped(a, b)
  PROVE  SoundDriver(b) /\ (Usable(a) <=> Usable(b))
<1>1. /\ b.name = a.name /\ b.handle = a.handle /\ b.ddiInitialized = a.ddiInitialized
      /\ b.driverType = a.driverType \/ a.ddiInitialized
  BY DEF Retyped
<1>. QED  BY <1>1 DEF SoundDriver, Usable

\* Every driver keeps its name, and what is loaded is loaded still.
Grown(old, new) ==
  /\ Len(new) = Len(old) /\ DOMAIN new = DOMAIN old
  /\ \A k \in DOMAIN old :
       /\ new[k].name = old[k].name
       /\ old[k].handle => new[k].handle
       /\ Usable(old[k]) => Usable(new[k])

LEMMA LoopsGrow ==
  ASSUME LoadInv, NEW t \in Thread, Loops(t)
  PROVE  Grown(zeDrivers, zeDrivers') /\ \A k \in DOMAIN zeDrivers : SoundDriver(zeDrivers'[k])
<1>1. TypeInv /\ Sound
  BY DEF LoadInv, KeptInv
<1>2. /\ Len(zeDrivers') = Len(zeDrivers) /\ DOMAIN zeDrivers' = DOMAIN zeDrivers
      /\ \A k \in DOMAIN zeDrivers : k # call[t].i => zeDrivers'[k] = zeDrivers[k]
  BY <1>1, LoopsKeep
<1>3. ASSUME NEW k \in DOMAIN zeDrivers
      PROVE  /\ SoundDriver(zeDrivers'[k]) /\ zeDrivers'[k].name = zeDrivers[k].name
             /\ zeDrivers[k].handle => zeDrivers'[k].handle
             /\ Usable(zeDrivers[k]) => Usable(zeDrivers'[k])
  <2>1. CASE k = call[t].i
    BY <2>1, LoopsLoad
  <2>2. CASE k # call[t].i
    BY <1>1, <1>2, <2>2 DEF Sound
  <2>. QED  BY <2>1, <2>2
<1>. QED  BY <1>2, <1>3 DEF Grown

LEMMA SoundStep ==
  ASSUME LoadInv, ~Together, [Next]_vars
  PROVE  Sound'
<1>0. TypeInv /\ Alone /\ Queried /\ Sound
  BY DEF LoadInv, KeptInv
<1>1. ASSUME env' = env, \A k \in DOMAIN zeDrivers' : SoundDriver(zeDrivers'[k])
      PROVE  Sound'
  BY <1>1 DEF Sound, SoundDriver, Loadable
<1>2. ASSUME NEW t \in Thread, Moves(t) PROVE Sound'
  BY <1>0, <1>2, MoveStep DEF Sound, SoundDriver, Loadable
<1>3. ASSUME NEW t \in Thread, Discover(t) PROVE Sound'
  <2>1. zeDrivers' = zeDrivers \o Found /\ env' = env
    BY <1>0, <1>3, DiscoverStep
  <2>2. zeDrivers = <<>> /\ env \in Environments
    BY <1>0, <1>3 DEF Discover, Queried, TypeInv, TypeOK
  <2>3. /\ Found \in Seq(driver_t)
        /\ \A k \in DOMAIN Found :
             /\ Found[k].driverType = Advertised[Found[k].name]
             /\ Found[k].handle = FALSE /\ Found[k].ddiInitialized = FALSE
    BY <2>2, FoundIs
  <2>4. zeDrivers' = Found
    BY <2>1, <2>2, <2>3, ConcatEmptySeq
  <2>5. \A k \in DOMAIN Found : SoundDriver(Found[k])
    BY <2>3 DEF SoundDriver
  <2>. QED  BY <1>1, <2>1, <2>4, <2>5
<1>4. ASSUME NEW t \in Thread, Loops(t) PROVE Sound'
  <2>1. env' = env /\ DOMAIN zeDrivers' = DOMAIN zeDrivers
    BY <1>0, <1>4, LoopsKeep
  <2>. QED  BY <1>1, <1>4, <2>1, LoopsGrow
<1>5. ASSUME NEW t \in Thread, Sort(t) PROVE Sound'
  <2>1. /\ env' = env /\ DOMAIN zeDrivers' = DOMAIN zeDrivers
        /\ zeDrivers' = zeDrivers \/ Shuffled(zeDrivers, zeDrivers')
    BY <1>0, <1>5, SortStep
  <2>2. CASE zeDrivers' = zeDrivers
    BY <1>0, <1>1, <2>1, <2>2 DEF Sound
  <2>3. CASE Shuffled(zeDrivers, zeDrivers')
    <3>1. ASSUME NEW k \in DOMAIN zeDrivers PROVE SoundDriver(zeDrivers'[k])
      <4>1. PICK j \in DOMAIN zeDrivers : Retyped(zeDrivers[j], zeDrivers'[k])
        BY <2>3 DEF Shuffled
      <4>2. SoundDriver(zeDrivers[j])
        BY <1>0 DEF Sound
      <4>. QED  BY <4>1, <4>2, RetypedSound
    <3>. QED  BY <1>1, <2>1, <3>1
  <2>. QED  BY <2>1, <2>2, <2>3
<1>6. CASE UNCHANGED vars
  BY <1>0, <1>6 DEF vars, Sound, SoundDriver, Loadable
<1>. QED  BY <1>2, <1>3, <1>4, <1>5, <1>6, Steps

\* Loading, of a call at a place.
LoadingAt(p, c, drivers) ==
  /\ p = "tables" => drivers[c.i].handle
  /\ p = "pfnInit" => Usable(drivers[c.i])
  /\ p \in {"init", "tables", "pfnInit"} => c.end = Len(drivers)
  /\ p \in {"init", "tables"} /\ c.api = "zeInitDrivers" =>
       \A k \in DOMAIN drivers : k < c.i => Passed(drivers[k], c.want)
  /\ p \in {"sort", "get"} /\ c.api = "zeInitDrivers" =>
       \A k \in DOMAIN drivers : Passed(drivers[k], c.want)

LEMMA LoadingGrows ==
  ASSUME NEW p, NEW c, NEW old, NEW new, LoadingAt(p, c, old), Grown(old, new),
         p \in {"tables", "pfnInit"} => c.i \in DOMAIN old
  PROVE  LoadingAt(p, c, new)
<1>1. Len(new) = Len(old) /\ DOMAIN new = DOMAIN old
  BY DEF Grown
<1>2. \A k \in DOMAIN old : /\ old[k].handle => new[k].handle
                            /\ Usable(old[k]) => Usable(new[k])
  BY DEF Grown
<1>3. \A k \in DOMAIN old : Passed(old[k], c.want) => Passed(new[k], c.want)
  BY <1>2 DEF Passed, Grown
<1>4. /\ p = "tables" => new[c.i].handle
      /\ p = "pfnInit" => Usable(new[c.i])
  BY <1>2 DEF LoadingAt
<1>5. p \in {"init", "tables"} /\ c.api = "zeInitDrivers" =>
        \A k \in DOMAIN new : k < c.i => Passed(new[k], c.want)
  BY <1>1, <1>3 DEF LoadingAt
<1>6. p \in {"sort", "get"} /\ c.api = "zeInitDrivers" =>
        \A k \in DOMAIN new : Passed(new[k], c.want)
  BY <1>1, <1>3 DEF LoadingAt
<1>7. p \in {"init", "tables", "pfnInit"} => c.end = Len(new)
  BY <1>1 DEF LoadingAt
<1>. QED  BY <1>4, <1>5, <1>6, <1>7 DEF LoadingAt

LEMMA LoopsLoading ==
  ASSUME LoadInv, NEW t \in Thread, Loops(t)
  PROVE  LoadingAt(pc'[t], call'[t], zeDrivers')
<1> DEFINE c == call[t]
           i == c.i
           old == zeDrivers[i]
           ds == zeDrivers'
           Want == c.api = "zeInitDrivers"
           Upto(n) == \A k \in DOMAIN ds : k < n => Passed(ds[k], c.want)
<1>0. TypeInv /\ Stages /\ Sound
  BY DEF LoadInv, KeptInv
<1>1. LoadingAt(pc[t], c, zeDrivers)
  BY DEF LoadInv, Loading, LoadingAt
<1>2. /\ i \in DOMAIN zeDrivers /\ Drv(t) = old /\ old \in driver_t
      /\ zeDrivers \in Seq(driver_t) /\ i \in Nat
      /\ Forward(c).i = i + 1 /\ Forward(c) \in Call
  <2>1. In(t, "init") \/ pc[t] = "tables" \/ pc[t] = "pfnInit" \/ In(t, "get")
    BY DEF Loops, NothingToDo, AlreadyLoaded, LoadLibrary, InitTables, PfnInit, Ask
  <2>. QED  BY <1>0, <2>1, Here DEF TypeInv, TypeOK
<1>3. /\ Grown(zeDrivers, ds) /\ DOMAIN ds = DOMAIN zeDrivers
      /\ c.api = call'[t].api /\ c.want = call'[t].want /\ c.end = call'[t].end
  BY <1>0, LoopsGrow, LoopsKeep DEF SameCall
<1>4. pc[t] \in {"init", "tables", "pfnInit", "get"}
  BY <1>0, LoopsKeep
<1>5. LoadingAt(pc[t], c, ds)
  BY <1>1, <1>2, <1>3, LoadingGrows
<1>6. c.end = Len(ds) \/ pc[t] = "get"
  BY <1>4, <1>5 DEF LoadingAt
<1> HIDE DEF ds
<1>7. ASSUME pc[t] \in {"init", "tables"}, Want => Passed(ds[i], c.want), call'[t].i = i + 1, pc'[t] = "init"
      PROVE  LoadingAt(pc'[t], call'[t], ds)
  <2>1. Want => \A k \in DOMAIN ds : k < i => Passed(ds[k], c.want)
    BY <1>5, <1>7 DEF LoadingAt
  <2>2. Want => \A k \in DOMAIN ds : k < i + 1 => Passed(ds[k], c.want)
    <3>1. \A k \in DOMAIN ds : k < i + 1 => k < i \/ k = i
      BY <1>2, <1>3
    <3>. QED  BY <1>7, <2>1, <3>1
  <2>. QED  BY <1>3, <1>6, <1>7, <2>2 DEF LoadingAt
<1>8. CASE NothingToDo(t)
  <2>1. Wrote(t, "init", old, Forward(c)) /\ pc[t] = "init"
    BY <1>0, <1>2, <1>8, LoopStep DEF NothingToDo, In
  <2>2. Want => Usable(old)
    BY <1>2, <1>8 DEF NothingToDo, Legacy
  <2>3. ds[i] = old /\ call'[t].i = i + 1 /\ pc'[t] = "init"
    BY <1>2, <2>1 DEF Wrote, ds
  <2>. QED  BY <1>7, <2>1, <2>2, <2>3 DEF Passed, ds
<1>9. CASE AlreadyLoaded(t)
  <2>1. Wrote(t, "pfnInit", old, c) /\ pc[t] = "init" /\ Usable(old)
    BY <1>0, <1>2, <1>9, LoopStep DEF AlreadyLoaded, In
  <2>2. ds[i] = old /\ call'[t] = c /\ pc'[t] = "pfnInit"
    BY <2>1 DEF Wrote, ds
  <2>. QED  BY <1>6, <2>1, <2>2 DEF LoadingAt, ds
<1>10. CASE LoadLibrary(t)
  <2>0. pc[t] = "init" /\ SoundDriver(old)
    BY <1>0, <1>2, <1>10 DEF LoadLibrary, In, Sound
  <2>1. CASE Wrote(t, "tables", [old EXCEPT !.handle = TRUE], c)
    <3>1. ds[i].handle /\ call'[t] = c /\ pc'[t] = "tables"
      BY <1>2, <2>1 DEF Wrote, ds, driver_t
    <3>. QED  BY <1>5, <2>0, <3>1 DEF LoadingAt, ds
  <2>2. CASE /\ ~CanLoad(old, c.want)
             /\ Wrote(t, "init", [old EXCEPT !.ddiInitialized = FALSE], Forward(c))
    <3>1. ds[i].name = old.name /\ call'[t].i = i + 1 /\ pc'[t] = "init"
      BY <1>2, <2>2 DEF Wrote, ds, driver_t
    <3>2. ~Loadable(old.name, c.want)
      <4>1. old.driverType = Advertised[old.name]
        BY <2>0, <2>2 DEF CanLoad, SoundDriver
      <4>2. Selected(old, c.want) <=> Selects(old.name, c.want)
        BY <1>2, <4>1, SelectedIs
      <4>. QED  BY <2>2, <4>2 DEF CanLoad, Loadable
    <3>. QED  BY <1>7, <2>0, <3>1, <3>2 DEF Passed, ds
  <2>. QED  BY <1>0, <1>2, <1>10, <2>1, <2>2, LoopStep
<1>11. CASE InitTables(t)
  <2> DEFINE new == [old EXCEPT !.ddiInitialized = old.handle]
  <2>0. pc[t] = "tables" /\ old.handle
    BY <1>1, <1>11 DEF InitTables, LoadingAt
  <2>1. Usable(new)
    BY <1>2, <2>0 DEF Usable, driver_t
  <2>2. Wrote(t, "pfnInit", new, c) \/ Wrote(t, "init", new, Forward(c))
    BY <1>0, <1>2, <1>11, LoopStep
  <2> HIDE DEF new
  <2>3. CASE Wrote(t, "pfnInit", new, c)
    <3>1. ds[i] = new /\ call'[t] = c /\ pc'[t] = "pfnInit"
      BY <2>3 DEF Wrote, ds
    <3>. QED  BY <1>6, <2>0, <2>1, <3>1 DEF LoadingAt, ds
  <2>4. CASE Wrote(t, "init", new, Forward(c))
    <3>1. ds[i] = new /\ call'[t].i = i + 1 /\ pc'[t] = "init"
      BY <1>2, <2>4 DEF Wrote, ds
    <3>. QED  BY <1>7, <2>0, <2>1, <3>1 DEF Passed, ds
  <2>. QED  BY <2>2, <2>3, <2>4
<1>12. CASE PfnInit(t)
  <2>1. pc[t] = "pfnInit" /\ pc'[t] = "init"
    BY <1>0, <1>12, LoopStep DEF PfnInit, Wrote
  <2>2. c.api = "zeInit"
    BY <1>0, <2>1 DEF Stages
  <2>. QED  BY <1>3, <1>6, <2>1, <2>2 DEF LoadingAt, ds
<1>13. CASE Ask(t)
  <2>1. pc[t] = "get" /\ pc'[t] = "get"
    BY <1>0, <1>13, LoopsKeep DEF Ask, In
  <2>. QED  BY <1>3, <1>5, <2>1 DEF LoadingAt, ds
<1>. QED  BY <1>8, <1>9, <1>10, <1>11, <1>12, <1>13 DEF Loops

LEMMA LoadingStep ==
  ASSUME LoadInv, ~Together, [Next]_vars
  PROVE  Loading'
<1>0. /\ TypeInv /\ Alone /\ Queried /\ Sound /\ Stages
      /\ zeDrivers \in Seq(driver_t) /\ Len(zeDrivers) \in Nat
  BY DEF LoadInv, KeptInv, TypeInv, TypeOK
<1>1. \A u \in Thread : LoadingAt(pc[u], call[u], zeDrivers)
  BY DEF LoadInv, Loading, LoadingAt
<1>2. ASSUME env' = env, \A u \in Thread : LoadingAt(pc'[u], call'[u], zeDrivers')
      PROVE  Loading'
  BY <1>2 DEF Loading, LoadingAt, Passed, Loadable
<1>3. ASSUME NEW t \in Thread, Moves(t) PROVE Loading'
  <2>1. /\ UNCHANGED <<env, zeDrivers>>
        /\ \A u \in Thread \ {t} : pc'[u] = pc[u] /\ call'[u] = call[u]
    BY <1>0, <1>3, MoveStep
  <2>2. /\ pc'[t] \in {"idle", "query", "discover", "init", "sort"}
        /\ pc'[t] = "init" => call'[t].i = 1 /\ call'[t].end = Len(zeDrivers)
        /\ pc'[t] = "sort" /\ call'[t].api = "zeInitDrivers" => Ended(t, "init") /\ call'[t] = call[t]
    BY <1>0, <1>3, MoveTo
  <2>3. pc'[t] = "sort" /\ call'[t].api = "zeInitDrivers" =>
          \A k \in DOMAIN zeDrivers : Passed(zeDrivers[k], call'[t].want)
    <3> SUFFICES ASSUME pc'[t] = "sort", call'[t].api = "zeInitDrivers", NEW k \in DOMAIN zeDrivers
                 PROVE  Passed(zeDrivers[k], call[t].want)
      BY <2>2
    <3>1. pc[t] = "init" /\ call[t].i > call[t].end /\ call[t].api = "zeInitDrivers"
      BY <2>2 DEF Ended
    <3>2. call[t].end = Len(zeDrivers) /\ call[t].i \in Nat
      BY <1>0, <1>1, <3>1 DEF LoadingAt, TypeInv, TypeOK, Call
    <3>3. k < call[t].i
      BY <1>0, <3>1, <3>2
    <3>. QED  BY <1>1, <3>1, <3>3 DEF LoadingAt
  <2>4. \A k \in DOMAIN zeDrivers : ~(k < 1)
    BY <1>0
  <2>5. LoadingAt(pc'[t], call'[t], zeDrivers)
    BY <2>2, <2>3, <2>4 DEF LoadingAt
  <2>6. \A u \in Thread : LoadingAt(pc'[u], call'[u], zeDrivers)
    BY <1>1, <2>1, <2>5
  <2>. QED  BY <1>2, <2>1, <2>6
<1>4. ASSUME NEW t \in Thread, Discover(t) PROVE Loading'
  <2>1. /\ env' = env /\ pc'[t] = "init"
        /\ call'[t] = [call[t] EXCEPT !.i = 1, !.end = Len(zeDrivers')]
        /\ \A u \in Thread \ {t} : pc'[u] = pc[u] /\ call'[u] = call[u]
        /\ TypeInv'
    BY <1>0, <1>4, DiscoverStep
  <2>2. call'[t].i = 1 /\ call'[t].end = Len(zeDrivers')
    BY <1>0, <2>1 DEF TypeInv, TypeOK, Call
  <2>3. \A k \in DOMAIN zeDrivers' : ~(k < 1)
    <3>1. zeDrivers' \in Seq(driver_t)
      BY <2>1 DEF TypeInv, TypeOK
    <3>. QED  BY <3>1
  <2>4. LoadingAt(pc'[t], call'[t], zeDrivers')
    BY <2>1, <2>2, <2>3 DEF LoadingAt
  <2>5. \A u \in Thread \ {t} : pc'[u] = "idle"
    BY <1>0, <1>4, <2>1 DEF Discover, Queried, Alone
  <2>6. \A u \in Thread \ {t} : LoadingAt(pc'[u], call'[u], zeDrivers')
    BY <2>5 DEF LoadingAt
  <2>. QED  BY <1>2, <2>1, <2>4, <2>6
<1>5. ASSUME NEW t \in Thread, Loops(t) PROVE Loading'
  <2>1. /\ env' = env /\ \A u \in Thread \ {t} : pc'[u] = pc[u] /\ call'[u] = call[u]
    BY <1>0, <1>5, LoopsKeep
  <2>2. ASSUME NEW u \in Thread \ {t} PROVE LoadingAt(pc'[u], call'[u], zeDrivers')
    <3>1. pc[u] \in {"tables", "pfnInit"} => call[u].i \in DOMAIN zeDrivers
      BY <1>0, Here
    <3>2. Grown(zeDrivers, zeDrivers')
      BY <1>5, LoopsGrow
    <3>3. LoadingAt(pc[u], call[u], zeDrivers')
      BY <1>1, <3>1, <3>2, LoadingGrows
    <3>. QED  BY <2>1, <3>3
  <2>3. LoadingAt(pc'[t], call'[t], zeDrivers')
    BY <1>5, LoopsLoading
  <2>. QED  BY <1>2, <2>1, <2>2, <2>3
<1>6. ASSUME NEW t \in Thread, Sort(t) PROVE Loading'
  <2>1. /\ env' = env /\ pc'[t] = "get" /\ DOMAIN zeDrivers' = DOMAIN zeDrivers
        /\ call'[t] = [call[t] EXCEPT !.i = 1, !.end = Len(zeDrivers)]
        /\ \A u \in Thread \ {t} : pc'[u] = pc[u] /\ call'[u] = call[u]
        /\ zeDrivers' = zeDrivers \/ (~coreDriverSortOnce /\ Shuffled(zeDrivers, zeDrivers'))
    BY <1>0, <1>6, SortStep
  <2>2. pc[t] = "sort" /\ call'[t].api = call[t].api /\ call'[t].want = call[t].want
    BY <1>0, <1>6, <2>1 DEF Sort, TypeInv, TypeOK, Call
  <2>3. CASE zeDrivers' = zeDrivers
    <3>1. LoadingAt(pc'[t], call'[t], zeDrivers)
      BY <1>1, <2>1, <2>2 DEF LoadingAt
    <3>2. \A u \in Thread : LoadingAt(pc'[u], call'[u], zeDrivers')
      BY <1>1, <2>1, <2>3, <3>1
    <3>. QED  BY <1>2, <2>1, <3>2
  <2>4. CASE ~coreDriverSortOnce /\ Shuffled(zeDrivers, zeDrivers')
    <3>1. \A u \in Thread \ {t} : pc'[u] = "idle"
      BY <1>0, <2>1, <2>2, <2>4 DEF Alone
    <3>2. \A u \in Thread \ {t} : LoadingAt(pc'[u], call'[u], zeDrivers')
      BY <3>1 DEF LoadingAt
    <3>3. ASSUME call[t].api = "zeInitDrivers", NEW k \in DOMAIN zeDrivers
          PROVE  Passed(zeDrivers'[k], call[t].want)
      <4>1. PICK j \in DOMAIN zeDrivers : Retyped(zeDrivers[j], zeDrivers'[k])
        BY <2>4 DEF Shuffled
      <4>2. Passed(zeDrivers[j], call[t].want)
        BY <1>1, <2>2, <3>3 DEF LoadingAt
      <4>3. zeDrivers'[k].name = zeDrivers[j].name
        BY <4>1 DEF Retyped
      <4>4. SoundDriver(zeDrivers[j])
        BY <1>0 DEF Sound
      <4>5. Usable(zeDrivers[j]) => Usable(zeDrivers'[k])
        BY <4>1, <4>4, RetypedSound
      <4>. QED  BY <4>2, <4>3, <4>5 DEF Passed
    <3>4. LoadingAt(pc'[t], call'[t], zeDrivers')
      BY <2>1, <2>2, <3>3 DEF LoadingAt
    <3>. QED  BY <1>2, <2>1, <3>2, <3>4
  <2>. QED  BY <2>1, <2>3, <2>4
<1>7. CASE UNCHANGED vars
  BY <1>1, <1>7 DEF vars, Loading, LoadingAt, Passed, Loadable
<1>. QED  BY <1>3, <1>4, <1>5, <1>6, <1>7, Steps

LEMMA LoadStep == LoadInv /\ ~Together /\ [Next]_vars => LoadInv'
<1> SUFFICES ASSUME LoadInv, ~Together, [Next]_vars PROVE LoadInv'
  OBVIOUS
<1>1. KeptInv' /\ Stages'
  BY KeptStep, StagesStep DEF LoadInv, KeptInv
<1>. QED  BY <1>1, SoundStep, LoadingStep DEF LoadInv

LEMMA LoadInit == Init => LoadInv
BY KeptInit DEF Init, LoadInv, Stages, Sound, Loading

-----------------------------------------------------------------------------
(* Calls are answered *)

Names == [k \in DOMAIN zeDrivers |-> zeDrivers[k].name]

With(chosen, name, D) == chosen \o IF name \in D THEN <<name>> ELSE <<>>

\* Those of the first n names that are in D, in their order.
Chosen(names, D) ==
  LET chosen[n \in 0 .. Len(names)] == IF n = 0 THEN <<>> ELSE With(chosen[n - 1], names[n], D)
  IN chosen

LEMMA ChosenIs ==
  ASSUME NEW names \in Seq(Driver), NEW D
  PROVE  /\ Chosen(names, D)[0] = <<>>
         /\ \A n \in 1 .. Len(names) : Chosen(names, D)[n] = With(Chosen(names, D)[n - 1], names[n], D)
<1> DEFINE Step(g, n) == IF n = 0 THEN <<>> ELSE With(g[n - 1], names[n], D)
           Is(g, N) == g = [n \in 0 .. N |-> Step(g, n)]
           T == {N \in Nat : \E g : Is(g, N)}
<1>1. 0 \in T
  <2> DEFINE g == [n \in 0 .. 0 |-> <<>>]
  <2>1. g = [n \in 0 .. 0 |-> Step(g, n)]
    OBVIOUS
  <2>2. Is(g, 0)
    BY <2>1
  <2> HIDE DEF Is
  <2>. QED  BY <2>2
<1>2. ASSUME NEW N \in Nat, N \in T PROVE N + 1 \in T
  <2>1. PICK g : Is(g, N)
    BY <1>2
  <2> DEFINE h == [n \in 0 .. N + 1 |-> IF n = N + 1 THEN Step(g, n) ELSE g[n]]
  <2>2. ASSUME NEW n \in 0 .. N + 1 PROVE h[n] = Step(h, n)
    <3>1. n # 0 => h[n - 1] = g[n - 1]
      OBVIOUS
    <3>2. Step(h, n) = Step(g, n)
      BY <3>1
    <3>3. n # N + 1 => g[n] = Step(g, n)
      BY <2>1
    <3> HIDE DEF Step
    <3>. QED  BY <3>2, <3>3
  <2>3. h = [n \in 0 .. N + 1 |-> h[n]]
    OBVIOUS
  <2>4. Is(h, N + 1)
    <3> HIDE DEF h, Step
    <3>. QED  BY <2>2, <2>3
  <2> HIDE DEF Is
  <2>. QED  BY <2>4
<1>3. Len(names) \in Nat /\ \A N \in Nat : N \in T
  <2> HIDE DEF T
  <2>. QED  BY <1>1, <1>2, SetInduction
<1> DEFINE f == CHOOSE g : Is(g, Len(names))
<1>4. Is(f, Len(names))
  <2> HIDE DEF Is
  <2>. QED  BY <1>3
<1>5. Chosen(names, D) = f
  BY DEF Chosen
<1> HIDE DEF f
<1>6. \A n \in 0 .. Len(names) : f[n] = Step(f, n)
  BY <1>4
<1>7. f[0] = <<>>
  BY <1>3, <1>6
<1>8. \A n \in 1 .. Len(names) : f[n] = With(f[n - 1], names[n], D)
  BY <1>3, <1>6
<1>. QED  BY <1>5, <1>7, <1>8

\* c is of some of the first n names, in their order; f has their places.
Placed(names, n, c, f) ==
  /\ c \in Seq(Driver)
  /\ f \in [1 .. Len(c) -> 1 .. n]
  /\ \A j, k \in 1 .. Len(c) : j < k => f[j] < f[k]
  /\ \A j \in 1 .. Len(c) : c[j] = names[f[j]]

\* Those are the ones in D.
Picks(names, D, n, c, f) ==
  /\ Placed(names, n, c, f)
  /\ \A j \in 1 .. Len(c) : c[j] \in D
  /\ \A k \in 1 .. n : names[k] \in D => \E j \in 1 .. Len(c) : f[j] = k

LEMMA Joined ==
  ASSUME NEW a \in Seq(Driver), NEW b \in Seq(Driver)
  PROVE  /\ a \o b \in Seq(Driver) /\ Len(a \o b) = Len(a) + Len(b)
         /\ \A j \in 1 .. Len(a) + Len(b) : (a \o b)[j] = IF j <= Len(a) THEN a[j] ELSE b[j - Len(a)]
BY ConcatProperties

LEMMA PlacedLater ==
  ASSUME NEW names, NEW n \in Nat, NEW c, NEW f, Placed(names, n, c, f)
  PROVE  Placed(names, n + 1, c, f)
<1>1. f \in [1 .. Len(c) -> 1 .. n]
  BY DEF Placed
<1>2. \A j \in 1 .. Len(c) : f[j] \in 1 .. n + 1
  BY <1>1
<1>3. f \in [1 .. Len(c) -> 1 .. n + 1]
  BY <1>1, <1>2
<1>. QED  BY <1>3 DEF Placed

LEMMA PlacedNext ==
  ASSUME NEW names \in Seq(Driver), NEW n \in Nat, n + 1 <= Len(names), NEW c, NEW f,
         Placed(names, n, c, f)
  PROVE  \E g : /\ Placed(names, n + 1, c \o <<names[n + 1]>>, g)
                /\ Len(c \o <<names[n + 1]>>) = Len(c) + 1 /\ Len(c) \in Nat
                /\ \A j \in 1 .. Len(c) : g[j] = f[j] /\ (c \o <<names[n + 1]>>)[j] = c[j]
                /\ g[Len(c) + 1] = n + 1 /\ (c \o <<names[n + 1]>>)[Len(c) + 1] = names[n + 1]
<1>1. /\ c \in Seq(Driver) /\ Len(c) \in Nat
      /\ f \in [1 .. Len(c) -> 1 .. n]
      /\ \A j, k \in 1 .. Len(c) : j < k => f[j] < f[k]
      /\ \A j \in 1 .. Len(c) : c[j] = names[f[j]]
  BY DEF Placed
<1>2. names[n + 1] \in Driver /\ Len(names) \in Nat
  OBVIOUS
<1>3. \A j \in 1 .. Len(c) : f[j] \in 1 .. n /\ f[j] \in 1 .. n + 1
  BY <1>1
<1> DEFINE one == <<names[n + 1]>>
<1>4. one \in Seq(Driver) /\ Len(one) = 1 /\ one[1] = names[n + 1]
  BY <1>2
<1> HIDE DEF one
<1> DEFINE d == c \o one
<1>5. /\ d \in Seq(Driver) /\ Len(d) = Len(c) + Len(one)
      /\ \A j \in 1 .. Len(c) + Len(one) : d[j] = IF j <= Len(c) THEN c[j] ELSE one[j - Len(c)]
  <2>1. c \in Seq(Driver)
    BY <1>1
  <2>. QED  BY <1>4, <2>1, Joined
<1> HIDE DEF d
<1> DEFINE g == [j \in 1 .. Len(c) + 1 |-> IF j = Len(c) + 1 THEN n + 1 ELSE f[j]]
<1>6. \A j \in 1 .. Len(c) + 1 : j \in 1 .. Len(c) \/ j = Len(c) + 1
  BY <1>1
<1>7. /\ \A j \in 1 .. Len(c) : d[j] = c[j] /\ g[j] = f[j]
      /\ d[Len(c) + 1] = names[n + 1] /\ g[Len(c) + 1] = n + 1
      /\ Len(d) = Len(c) + 1
  <2>1. Len(d) = Len(c) + 1 /\ Len(c) \in Nat
    BY <1>1, <1>4, <1>5
  <2>2. \A j \in 1 .. Len(c) : j # Len(c) + 1 /\ j \in 1 .. Len(c) + 1
    BY <2>1
  <2>3. \A j \in 1 .. Len(c) : d[j] = c[j] /\ g[j] = f[j]
    BY <1>4, <1>5, <2>1, <2>2
  <2>4. g[Len(c) + 1] = n + 1
    BY <2>1
  <2>5. d[Len(c) + 1] = names[n + 1]
    <3>1. Len(c) + 1 \in 1 .. Len(c) + Len(one) /\ ~(Len(c) + 1 <= Len(c)) /\ (Len(c) + 1) - Len(c) = 1
      BY <1>4, <2>1
    <3>. QED  BY <1>4, <1>5, <3>1
  <2>. QED  BY <2>1, <2>3, <2>4, <2>5
<1>8. g \in [1 .. Len(c) + 1 -> 1 .. n + 1]
  <2>1. \A j \in 1 .. Len(c) + 1 : g[j] \in 1 .. n + 1
    BY <1>3, <1>6, <1>7
  <2>. QED  BY <2>1
<1> HIDE DEF g
<1>9. \A j, k \in 1 .. Len(c) + 1 : j < k => g[j] < g[k]
  <2> SUFFICES ASSUME NEW j \in 1 .. Len(c) + 1, NEW k \in 1 .. Len(c) + 1, j < k PROVE g[j] < g[k]
    OBVIOUS
  <2>1. j \in 1 .. Len(c)
    BY <1>1
  <2>2. CASE k = Len(c) + 1
    BY <1>3, <1>7, <2>1, <2>2
  <2>3. CASE k # Len(c) + 1
    <3>1. k \in 1 .. Len(c)
      BY <1>6, <2>3
    <3>. QED  BY <1>1, <1>7, <2>1, <3>1
  <2>. QED  BY <2>2, <2>3
<1>10. \A j \in 1 .. Len(c) + 1 : d[j] = names[g[j]]
  BY <1>1, <1>6, <1>7
<1>11. Placed(names, n + 1, d, g)
  BY <1>5, <1>7, <1>8, <1>9, <1>10 DEF Placed
<1>. QED  BY <1>1, <1>7, <1>11 DEF d, one

LEMMA PicksNext ==
  ASSUME NEW names \in Seq(Driver), NEW D, NEW n \in Nat, n + 1 <= Len(names), NEW c, NEW f,
         Picks(names, D, n, c, f)
  PROVE  \E g : Picks(names, D, n + 1, With(c, names[n + 1], D), g)
<1>1. /\ Placed(names, n, c, f)
      /\ \A j \in 1 .. Len(c) : c[j] \in D
      /\ \A k \in 1 .. n : names[k] \in D => \E j \in 1 .. Len(c) : f[j] = k
  BY DEF Picks
<1>2. CASE names[n + 1] \notin D
  <2>1. c \in Seq(Driver)
    BY <1>1 DEF Placed
  <2>2. With(c, names[n + 1], D) = c
    BY <1>2, <2>1, ConcatEmptySeq DEF With
  <2>3. \A k \in 1 .. n + 1 : names[k] \in D => \E j \in 1 .. Len(c) : f[j] = k
    BY <1>1, <1>2
  <2>4. Picks(names, D, n + 1, c, f)
    BY <1>1, <2>3, PlacedLater DEF Picks
  <2>. QED  BY <2>2, <2>4
<1>3. CASE names[n + 1] \in D
  <2> DEFINE d == c \o <<names[n + 1]>>
  <2>1. PICK g : /\ Placed(names, n + 1, d, g) /\ Len(d) = Len(c) + 1 /\ Len(c) \in Nat
                 /\ \A j \in 1 .. Len(c) : g[j] = f[j] /\ d[j] = c[j]
                 /\ g[Len(c) + 1] = n + 1 /\ d[Len(c) + 1] = names[n + 1]
    BY <1>1, PlacedNext
  <2>2. With(c, names[n + 1], D) = d
    BY <1>3 DEF With
  <2> HIDE DEF d
  <2>3. \A j \in 1 .. Len(d) : j \in 1 .. Len(c) \/ j = Len(c) + 1
    BY <2>1
  <2>4. \A j \in 1 .. Len(d) : d[j] \in D
    BY <1>1, <1>3, <2>1, <2>3
  <2>5. \A k \in 1 .. n + 1 : names[k] \in D => \E j \in 1 .. Len(d) : g[j] = k
    <3> SUFFICES ASSUME NEW k \in 1 .. n + 1, names[k] \in D PROVE \E j \in 1 .. Len(d) : g[j] = k
      OBVIOUS
    <3>1. CASE k = n + 1
      BY <2>1, <3>1
    <3>2. CASE k # n + 1
      <4>1. PICK j \in 1 .. Len(c) : f[j] = k
        BY <1>1, <3>2
      <4>2. j \in 1 .. Len(d)
        BY <2>1
      <4>. QED  BY <2>1, <4>1, <4>2
    <3>. QED  BY <3>1, <3>2
  <2>6. Picks(names, D, n + 1, d, g)
    BY <2>1, <2>4, <2>5 DEF Picks
  <2>. QED  BY <2>2, <2>6
<1>. QED  BY <1>2, <1>3

LEMMA ChosenPicks ==
  ASSUME NEW names \in Seq(Driver), NEW D
  PROVE  \E f : Picks(names, D, Len(names), Chosen(names, D)[Len(names)], f)
<1> DEFINE C == Chosen(names, D)
           T == {n \in Nat : n <= Len(names) => \E f : Picks(names, D, n, C[n], f)}
<1>1. C[0] = <<>> /\ \A n \in 1 .. Len(names) : C[n] = With(C[n - 1], names[n], D)
  BY ChosenIs
<1> HIDE DEF C
<1>2. 0 \in T
  <2>1. Picks(names, D, 0, <<>>, [j \in 1 .. 0 |-> 0])
    BY DEF Picks, Placed
  <2>. QED  BY <1>1, <2>1
<1>3. ASSUME NEW n \in Nat, n \in T PROVE n + 1 \in T
  <2> SUFFICES ASSUME n + 1 <= Len(names) PROVE \E f : Picks(names, D, n + 1, C[n + 1], f)
    OBVIOUS
  <2>1. PICK f : Picks(names, D, n, C[n], f)
    BY <1>3
  <2>2. C[n + 1] = With(C[n], names[n + 1], D)
    BY <1>1
  <2>. QED  BY <2>1, <2>2, PicksNext
<1>4. \A n \in Nat : n \in T
  <2> HIDE DEF T
  <2>. QED  BY <1>2, <1>3, SetInduction
<1>5. Len(names) \in Nat
  OBVIOUS
<1>. QED  BY <1>4, <1>5 DEF C

\* The drivers that a request is answered with.
Due(r) == {d \in Driver : d \notin env.broken /\ Matches(d, IF r[1] = "zeInitDrivers" THEN r[2] ELSE Class)}

\* The answer of a call, as far as it is, to one of these functions.
AnswerAt(apis, p, c, names) ==
  /\ p # "get" => c.answer = <<>>
  /\ p = "get" =>
       /\ c.i <= c.end + 1 /\ c.end = Len(names)
       /\ c.api \in apis => c.answer = Chosen(names, Due(RequestOf(c)))[c.i - 1]

Answers(apis) ==
  /\ \A t \in Thread : AnswerAt(apis, pc[t], call[t], Names)
  /\ \A t \in Thread : pc[t] = "get" => coreDriverSortOnce
  /\ \A r \in Request : r[1] \in apis /\ given[r] # None =>
       coreDriverSortOnce /\ given[r] = Chosen(Names, Due(r))[Len(Names)]

\* Who is due an answer gives one.
Reporting(apis) ==
  \A t \in Thread : pc[t] = "get" /\ call[t].api \in apis =>
    \A k \in DOMAIN zeDrivers :
      Reports(zeDrivers[k], call[t]) <=> zeDrivers[k].name \in Due(RequestOf(call[t]))

LEMMA NamesAre ==
  ASSUME zeDrivers \in Seq(driver_t)
  PROVE  /\ Names \in Seq(Driver) /\ Len(Names) = Len(zeDrivers) /\ DOMAIN Names = DOMAIN zeDrivers
         /\ Len(Names) \in Nat /\ \A k \in DOMAIN zeDrivers : Names[k] = zeDrivers[k].name
<1>1. \A k \in DOMAIN zeDrivers : zeDrivers[k] \in driver_t
  OBVIOUS
<1>2. \A drv \in driver_t : drv.name \in Driver
  BY DEF driver_t
<1>3. Len(zeDrivers) \in Nat /\ DOMAIN zeDrivers = 1 .. Len(zeDrivers)
  OBVIOUS
<1>4. \A k \in DOMAIN zeDrivers : zeDrivers[k].name \in Driver
  BY <1>1, <1>2
<1>5. Names \in Seq(Driver) /\ Len(Names) = Len(zeDrivers) /\ DOMAIN Names = DOMAIN zeDrivers
  BY <1>3, <1>4 DEF Names
<1>. QED  BY <1>3, <1>5 DEF Names

LEMMA MoveAnswer ==
  ASSUME TypeInv, NEW t \in Thread, Moves(t), pc[t] # "get" => call[t].answer = <<>>
  PROVE  call'[t].answer = <<>> /\ pc'[t] # "get" /\ (Return(t) \/ given' = given)
<1>0. /\ pc \in [Thread -> Stage] /\ call \in [Thread -> Call] /\ call[t] \in Call /\ UNCHANGED zeDrivers
  BY MoveStep DEF TypeInv, TypeOK
<1>1. NoCall.answer = <<>>
  BY DEF NoCall
<1>2. CASE \E want \in InitFlags : zeInit(t, want)
  <2>1. PICK want \in InitFlags : zeInit(t, want)
    BY <1>2
  <2>2. pc'[t] = "query" /\ given' = given /\ call'[t] = [NoCall EXCEPT !.api = "zeInit", !.want = want]
    BY <1>0, <2>1 DEF zeInit, Go
  <2>. QED  BY <2>2 DEF NoCall
<1>3. CASE \E want \in Descs : zeInitDrivers(t, want)
  <2>1. PICK want \in Descs : zeInitDrivers(t, want)
    BY <1>3
  <2> DEFINE c == [NoCall EXCEPT !.api = "zeInitDrivers", !.want = want]
             d == [c EXCEPT !.i = 1, !.end = Len(zeDrivers)]
  <2>2. /\ given' = given
        /\ \/ pc'[t] = "query" /\ call'[t] = c
           \/ pc'[t] = "init" /\ call'[t] = d
    BY <1>0, <2>1 DEF zeInitDrivers, Loop, Go
  <2>3. c.answer = <<>> /\ d.answer = <<>>
    BY DEF NoCall
  <2> HIDE DEF c, d
  <2>. QED  BY <2>2, <2>3
<1>4. CASE zeDriverGet(t)
  <2>1. pc'[t] = "sort" /\ given' = given /\ call'[t] = [NoCall EXCEPT !.api = "zeDriverGet"]
    BY <1>0, <1>4 DEF zeDriverGet, Go
  <2>. QED  BY <2>1 DEF NoCall
<1>5. CASE Query(t)
  <2> DEFINE d == [call[t] EXCEPT !.i = 1, !.end = Len(zeDrivers)]
  <2>1. call[t].answer = <<>> /\ d.answer = call[t].answer
    BY <1>0, <1>5 DEF Query, Call
  <2>2. /\ given' = given
        /\ \/ pc'[t] = "discover" /\ call'[t] = call[t]
           \/ pc'[t] = "init" /\ call'[t] = d
    BY <1>0, <1>5 DEF Query, ContextReady, Loop, Go
  <2> HIDE DEF d
  <2>. QED  BY <2>1, <2>2
<1>6. CASE Initialised(t)
  BY <1>0, <1>1, <1>6 DEF Initialised, Ended, Go
<1>7. CASE Return(t)
  BY <1>0, <1>1, <1>7 DEF Return, Go
<1>. QED  BY <1>2, <1>3, <1>4, <1>5, <1>6, <1>7 DEF Moves

LEMMA LoopsAnswer ==
  ASSUME TypeInv, NEW t \in Thread, Loops(t), pc[t] # "get" => call[t].answer = <<>>
  PROVE  /\ pc[t] # "get" => call'[t].answer = <<>>
         /\ pc[t] = "get" =>
              /\ call[t].i <= call[t].end /\ call'[t].i = call[t].i + 1
              /\ call'[t].answer = call[t].answer \o
                   IF Reports(zeDrivers[call[t].i], call[t]) THEN <<zeDrivers[call[t].i].name>> ELSE <<>>
<1>0. In(t, "init") \/ pc[t] = "tables" \/ pc[t] = "pfnInit" \/ In(t, "get")
  BY DEF Loops, NothingToDo, AlreadyLoaded, LoadLibrary, InitTables, PfnInit, Ask
<1>1. /\ Drv(t) = zeDrivers[call[t].i] /\ call[t].i <= call[t].end
      /\ Forward(call[t]) \in Call /\ Forward(call[t]).i = call[t].i + 1
      /\ Forward(call[t]).answer = call[t].answer
  BY <1>0, Here
<1>2. CASE pc[t] # "get"
  <2>1. ~Ask(t)
    BY <1>2 DEF Ask, In
  <2>2. call'[t] \in {call[t], Forward(call[t])}
    BY <2>1, LoopStep DEF Loops, Wrote
  <2>. QED  BY <1>1, <1>2, <2>2
<1>3. CASE pc[t] = "get"
  <2> DEFINE more == IF Reports(Drv(t), call[t]) THEN <<Drv(t).name>> ELSE <<>>
  <2>1. Ask(t)
    BY <1>3 DEF Loops, NothingToDo, AlreadyLoaded, LoadLibrary, InitTables, PfnInit, In
  <2>2. call'[t] = [Forward(call[t]) EXCEPT !.answer = @ \o more]
    BY <2>1, LoopStep DEF Wrote
  <2>3. call'[t].i = call[t].i + 1 /\ call'[t].answer = call[t].answer \o more
    <3> HIDE DEF more
    <3>. QED  BY <1>1, <2>2 DEF Call
  <2>. QED  BY <1>1, <1>3, <2>3
<1>. QED  BY <1>2, <1>3

LEMMA AnswersStep ==
  ASSUME LoadInv, ~Together, NEW apis, Answers(apis), Reporting(apis), [Next]_vars
  PROVE  Answers(apis)'
<1>0. /\ TypeInv /\ Alone /\ Queried /\ zeDrivers \in Seq(driver_t)
      /\ call \in [Thread -> Call] /\ given \in [Request -> Seq(Driver) \cup {None}]
  BY DEF LoadInv, KeptInv, TypeInv, TypeOK
<1>1. /\ \A u \in Thread : AnswerAt(apis, pc[u], call[u], Names)
      /\ \A u \in Thread : pc[u] = "get" => coreDriverSortOnce
      /\ \A r \in Request : r[1] \in apis /\ given[r] # None =>
           coreDriverSortOnce /\ given[r] = Chosen(Names, Due(r))[Len(Names)]
  BY DEF Answers
<1>2. \A u \in Thread : pc[u] # "get" => call[u].answer = <<>>
  BY <1>1 DEF AnswerAt
<1>3. ASSUME env' = env, \A u \in Thread : AnswerAt(apis, pc'[u], call'[u], Names'),
             \A u \in Thread : pc'[u] = "get" => coreDriverSortOnce',
             \A r \in Request : r[1] \in apis /\ given'[r] # None =>
               coreDriverSortOnce' /\ given'[r] = Chosen(Names', Due(r))[Len(Names')]
      PROVE  Answers(apis)'
  <2>1. \A r : Due(r)' = Due(r)
    BY <1>3 DEF Due, Matches
  <2>. QED  BY <1>3, <2>1 DEF Answers, AnswerAt, RequestOf
<1>4. /\ Names \in Seq(Driver) /\ Len(Names) = Len(zeDrivers) /\ DOMAIN Names = DOMAIN zeDrivers
      /\ Len(Names) \in Nat /\ \A k \in DOMAIN zeDrivers : Names[k] = zeDrivers[k].name
  BY <1>0, NamesAre
<1>5. ASSUME NEW t \in Thread, Moves(t) PROVE Answers(apis)'
  <2>1. /\ UNCHANGED <<env, zeDrivers, coreDriverSortOnce>>
        /\ \A u \in Thread \ {t} : pc'[u] = pc[u] /\ call'[u] = call[u]
    BY <1>0, <1>5, MoveStep
  <2>2. call'[t].answer = <<>> /\ pc'[t] # "get" /\ (Return(t) \/ given' = given)
    BY <1>0, <1>2, <1>5, MoveAnswer
  <2>3. Names' = Names
    BY <2>1 DEF Names
  <2>4. \A u \in Thread : AnswerAt(apis, pc'[u], call'[u], Names')
    <3>1. AnswerAt(apis, pc'[t], call'[t], Names')
      BY <2>2 DEF AnswerAt
    <3>. QED  BY <1>1, <2>1, <2>3, <3>1
  <2>5. ASSUME NEW r \in Request, r[1] \in apis, given'[r] # None
        PROVE  coreDriverSortOnce' /\ given'[r] = Chosen(Names', Due(r))[Len(Names')]
    <3>1. CASE given'[r] = given[r]
      BY <1>1, <2>1, <2>3, <2>5, <3>1
    <3>2. CASE given'[r] # given[r]
      <4>1. Return(t)
        BY <2>2, <3>2
      <4>2. Ended(t, "get") /\ given' = [given EXCEPT ![RequestOf(call[t])] = IF @ = None THEN call[t].answer ELSE @]
        BY <4>1 DEF Return
      <4>3. r = RequestOf(call[t]) /\ given'[r] = call[t].answer
        BY <1>0, <3>2, <4>2
      <4>4. pc[t] = "get" /\ call[t].i > call[t].end
        BY <4>2 DEF Ended
      <4>5. call[t].api \in apis
        BY <2>5, <4>3 DEF RequestOf
      <4>6. /\ call[t].i <= call[t].end + 1 /\ call[t].end = Len(Names)
            /\ call[t].answer = Chosen(Names, Due(r))[call[t].i - 1]
        BY <1>1, <4>3, <4>4, <4>5 DEF AnswerAt
      <4>7. call[t].i \in Nat
        BY <1>0 DEF Call
      <4>8. call[t].i - 1 = Len(Names)
        BY <1>4, <4>4, <4>6, <4>7
      <4>. QED  BY <1>1, <2>1, <2>3, <4>3, <4>4, <4>6, <4>8
    <3>. QED  BY <3>1, <3>2
  <2>6. \A u \in Thread : pc'[u] = "get" => coreDriverSortOnce'
    BY <1>1, <2>1, <2>2
  <2>. QED  BY <1>3, <2>1, <2>4, <2>5, <2>6
<1>6. ASSUME NEW t \in Thread, Discover(t) PROVE Answers(apis)'
  <2>1. /\ UNCHANGED <<env, coreDriverSortOnce, given>>
        /\ pc'[t] = "init" /\ call'[t] = [call[t] EXCEPT !.i = 1, !.end = Len(zeDrivers')]
        /\ \A u \in Thread \ {t} : pc'[u] = pc[u] /\ call'[u] = call[u]
    BY <1>0, <1>6, DiscoverStep
  <2>2. ~coreDriverSortOnce /\ pc[t] # "get"
    BY <1>0, <1>6 DEF Discover, Queried
  <2>3. call'[t].answer = <<>>
    BY <1>0, <1>2, <2>1, <2>2 DEF Call
  <2>4. \A u \in Thread : pc'[u] # "get" /\ call'[u].answer = <<>>
    BY <1>1, <1>2, <2>1, <2>2, <2>3
  <2>5. \A u \in Thread : AnswerAt(apis, pc'[u], call'[u], Names')
    BY <2>4 DEF AnswerAt
  <2>6. \A r \in Request : r[1] \in apis => given'[r] = None
    BY <1>1, <2>1, <2>2
  <2>. QED  BY <1>3, <2>1, <2>4, <2>5, <2>6
<1>7. ASSUME NEW t \in Thread, Loops(t) PROVE Answers(apis)'
  <2>1. /\ UNCHANGED <<env, coreDriverSortOnce, given>>
        /\ pc'[t] = "get" <=> pc[t] = "get"
        /\ SameCall(call'[t], call[t])
        /\ \A u \in Thread \ {t} : pc'[u] = pc[u] /\ call'[u] = call[u]
        /\ DOMAIN zeDrivers' = DOMAIN zeDrivers /\ call[t].i \in DOMAIN zeDrivers
        /\ \A k \in DOMAIN zeDrivers : zeDrivers'[k].name = zeDrivers[k].name
    BY <1>0, <1>7, LoopsKeep
  <2>2. Names' = Names
    BY <2>1 DEF Names
  <2>3. /\ pc[t] # "get" => call'[t].answer = <<>>
        /\ pc[t] = "get" =>
             /\ call[t].i <= call[t].end /\ call'[t].i = call[t].i + 1
             /\ call'[t].answer = call[t].answer \o
                  IF Reports(zeDrivers[call[t].i], call[t]) THEN <<zeDrivers[call[t].i].name>> ELSE <<>>
    BY <1>0, <1>2, <1>7, LoopsAnswer
  <2>4. CASE pc[t] # "get"
    <3>1. AnswerAt(apis, pc'[t], call'[t], Names')
      BY <2>1, <2>3, <2>4 DEF AnswerAt
    <3>2. \A u \in Thread : AnswerAt(apis, pc'[u], call'[u], Names')
      BY <1>1, <2>1, <2>2, <3>1
    <3>. QED  BY <1>1, <1>3, <2>1, <2>2, <2>4, <3>2
  <2>5. CASE pc[t] = "get"
    <3> DEFINE i == call[t].i
               D == Due(RequestOf(call[t]))
    <3>1. i \in Nat /\ call[t].end = Len(Names) /\ i \in 1 .. Len(Names)
      <4>1. i \in Nat
        BY <1>0 DEF Call
      <4>. QED  BY <1>0, <1>1, <1>4, <2>1, <2>5, <4>1 DEF AnswerAt
    <3>2. call'[t].i <= call'[t].end + 1 /\ call'[t].end = Len(Names) /\ call'[t].i - 1 = i
      BY <1>4, <2>1, <2>3, <2>5, <3>1 DEF SameCall
    <3>3. ASSUME call[t].api \in apis
          PROVE  call'[t].answer = Chosen(Names, D)[i]
      <4>1. call[t].answer = Chosen(Names, D)[i - 1]
        BY <1>1, <2>5, <3>3 DEF AnswerAt
      <4>2. Reports(zeDrivers[i], call[t]) <=> Names[i] \in D
        BY <1>4, <2>1, <2>5, <3>3 DEF Reporting
      <4>3. Names[i] = zeDrivers[i].name
        BY <1>4, <2>1
      <4>4. call'[t].answer = With(call[t].answer, Names[i], D)
        BY <2>3, <2>5, <4>2, <4>3 DEF With
      <4>5. Chosen(Names, D)[i] = With(Chosen(Names, D)[i - 1], Names[i], D)
        BY <1>4, <3>1, ChosenIs
      <4>. QED  BY <4>1, <4>4, <4>5
    <3>4. RequestOf(call'[t]) = RequestOf(call[t]) /\ call'[t].api = call[t].api
      BY <2>1 DEF SameCall, RequestOf
    <3>5. AnswerAt(apis, pc'[t], call'[t], Names)
      BY <2>1, <2>5, <3>2, <3>3, <3>4 DEF AnswerAt
    <3>6. \A u \in Thread : AnswerAt(apis, pc'[u], call'[u], Names')
      BY <1>1, <2>1, <2>2, <3>5
    <3>. QED  BY <1>1, <1>3, <2>1, <2>2, <2>5, <3>6
  <2>. QED  BY <2>4, <2>5
<1>8. ASSUME NEW t \in Thread, Sort(t) PROVE Answers(apis)'
  <2>1. /\ TypeInv' /\ UNCHANGED <<env, given>> /\ coreDriverSortOnce'
        /\ Len(zeDrivers') = Len(zeDrivers)
        /\ zeDrivers' = zeDrivers \/ ~coreDriverSortOnce
        /\ pc'[t] = "get" /\ call'[t] = [call[t] EXCEPT !.i = 1, !.end = Len(zeDrivers)]
        /\ \A u \in Thread \ {t} : pc'[u] = pc[u] /\ call'[u] = call[u]
    BY <1>0, <1>8, SortStep
  <2>2. pc[t] = "sort" /\ call[t].answer = <<>>
    BY <1>2, <1>8 DEF Sort
  <2>3. call'[t].i = 1 /\ call'[t].end = Len(zeDrivers) /\ call'[t].answer = <<>>
    BY <1>0, <2>1, <2>2 DEF Call
  <2>4. zeDrivers' \in Seq(driver_t)
    BY <2>1 DEF TypeInv, TypeOK
  <2>5. Names' \in Seq(Driver) /\ Len(Names') = Len(zeDrivers')
    <3> DEFINE names == [k \in DOMAIN zeDrivers' |-> zeDrivers'[k].name]
    <3>1. \A k \in DOMAIN zeDrivers' : zeDrivers'[k] \in driver_t
      BY <2>4
    <3>2. \A drv \in driver_t : drv.name \in Driver
      BY DEF driver_t
    <3>3. names \in Seq(Driver) /\ Len(names) = Len(zeDrivers')
      BY <2>4, <3>1, <3>2
    <3>4. Names' = names
      BY DEF Names
    <3>. QED  BY <3>3, <3>4
  <2>6. AnswerAt(apis, pc'[t], call'[t], Names')
    <3>1. Chosen(Names', Due(RequestOf(call'[t])))[1 - 1] = <<>>
      BY <2>5, ChosenIs
    <3>. QED  BY <1>4, <2>1, <2>3, <2>5, <3>1 DEF AnswerAt
  <2>7. CASE zeDrivers' = zeDrivers
    <3>1. Names' = Names
      BY <2>7 DEF Names
    <3>2. \A u \in Thread : AnswerAt(apis, pc'[u], call'[u], Names')
      BY <1>1, <2>1, <2>6, <3>1
    <3>. QED  BY <1>1, <1>3, <2>1, <3>1, <3>2
  <2>8. CASE ~coreDriverSortOnce
    <3>1. \A u \in Thread \ {t} : pc'[u] # "get" /\ call'[u].answer = <<>>
      BY <1>1, <1>2, <2>1, <2>8
    <3>2. \A u \in Thread : AnswerAt(apis, pc'[u], call'[u], Names')
      BY <2>6, <3>1 DEF AnswerAt
    <3>3. \A r \in Request : r[1] \in apis => given'[r] = None
      BY <1>1, <2>1, <2>8
    <3>. QED  BY <1>3, <2>1, <3>2, <3>3
  <2>. QED  BY <2>1, <2>7, <2>8
<1>9. CASE UNCHANGED vars
  <2>1. Names' = Names
    BY <1>9 DEF vars, Names
  <2>2. UNCHANGED <<env, pc, call, given, coreDriverSortOnce>>
    BY <1>9 DEF vars, onceVars
  <2>. QED  BY <1>1, <1>3, <2>1, <2>2
<1>. QED  BY <1>5, <1>6, <1>7, <1>8, <1>9, Steps

LEMMA AnswersInit ==
  ASSUME NEW apis, Init
  PROVE  Answers(apis)
<1>1. NoCall.answer = <<>>
  BY DEF NoCall
<1>2. \A t \in Thread : pc[t] = "idle" /\ call[t].answer = <<>>
  BY <1>1 DEF Init
<1>3. \A r \in Request : given[r] = None
  BY DEF Init
<1>. QED  BY <1>2, <1>3 DEF Answers, AnswerAt

\* The type that a library's name advertises selects it for the classes of its devices.
NamesFit == \A d \in Driver, want \in SUBSET Class : Matches(d, want) => Selects(d, want)

LEMMA RequestedReport ==
  ASSUME LoadInv, NamesFit
  PROVE  Reporting({"zeInitDrivers"})
<1> SUFFICES ASSUME NEW t \in Thread, pc[t] = "get", call[t].api = "zeInitDrivers",
                    NEW k \in DOMAIN zeDrivers
             PROVE  Reports(zeDrivers[k], call[t]) <=> zeDrivers[k].name \in Due(RequestOf(call[t]))
  BY DEF Reporting
<1> DEFINE drv == zeDrivers[k]
           want == call[t].want
<1>1. drv.name \in Driver /\ want \in SUBSET Class
  <2>1. zeDrivers \in Seq(driver_t) /\ call[t] \in Call
    BY DEF LoadInv, KeptInv, TypeInv, TypeOK
  <2>2. drv \in driver_t
    BY <2>1
  <2>. QED  BY <2>1, <2>2 DEF driver_t, Call
<1>2. SoundDriver(drv) /\ Passed(drv, want)
  BY DEF LoadInv, Sound, Loading
<1>3. Reports(drv, call[t]) <=> drv.ddiInitialized /\ Matches(drv.name, want)
  BY DEF Reports
<1>4. drv.name \in Due(RequestOf(call[t])) <=> drv.name \notin env.broken /\ Matches(drv.name, want)
  BY <1>1 DEF Due, RequestOf
<1>5. ASSUME drv.ddiInitialized PROVE drv.name \notin env.broken
  BY <1>2, <1>5 DEF SoundDriver, Loadable
<1>6. ASSUME drv.name \notin env.broken, Matches(drv.name, want) PROVE drv.ddiInitialized
  BY <1>1, <1>2, <1>6 DEF NamesFit, Passed, Loadable, Usable
<1>. QED  BY <1>3, <1>4, <1>5, <1>6

\* What an answer in full consists of.
LEMMA AnsweredIs ==
  ASSUME LoadInv, NEW apis, Answers(apis), NEW t \in Thread, Answered(t), call[t].api \in apis
  PROVE  \E f : Picks(Names, Due(RequestOf(call[t])), Len(Names), call[t].answer, f)
<1>1. zeDrivers \in Seq(driver_t) /\ call[t] \in Call
  BY DEF LoadInv, KeptInv, TypeInv, TypeOK
<1>2. pc[t] = "get" /\ call[t].i > call[t].end
  BY DEF Answered, Ended
<1>3. /\ call[t].i <= call[t].end + 1 /\ call[t].end = Len(Names)
      /\ call[t].answer = Chosen(Names, Due(RequestOf(call[t])))[call[t].i - 1]
  BY <1>2 DEF Answers, AnswerAt
<1>4. Names \in Seq(Driver) /\ Len(Names) \in Nat
  BY <1>1, NamesAre
<1>5. call[t].i - 1 = Len(Names)
  BY <1>1, <1>2, <1>3, <1>4 DEF Call
<1>. QED  BY <1>3, <1>4, <1>5, ChosenPicks

LEMMA RequestedReturned ==
  ASSUME LoadInv, Answers({"zeInitDrivers"})
  PROVE  RequestedDriversReturned
<1> SUFFICES ASSUME NEW t \in Thread, Answered(t), call[t].api = "zeInitDrivers"
             PROVE  /\ ToSet(call[t].answer) =
                         {d \in ToSet(env.discovered) \ env.broken : Matches(d, call[t].want)}
                    /\ IsInjective(call[t].answer)
  BY DEF RequestedDriversReturned
<1> DEFINE answer == call[t].answer
           D == Due(RequestOf(call[t]))
<1>1. PICK f : Picks(Names, D, Len(Names), answer, f)
  BY AnsweredIs
<1>2. /\ answer \in Seq(Driver) /\ f \in [1 .. Len(answer) -> 1 .. Len(Names)]
      /\ \A j, k \in 1 .. Len(answer) : j < k => f[j] < f[k]
      /\ \A j \in 1 .. Len(answer) : answer[j] = Names[f[j]] /\ answer[j] \in D
      /\ \A k \in 1 .. Len(Names) : Names[k] \in D => \E j \in 1 .. Len(answer) : f[j] = k
  BY <1>1 DEF Picks, Placed
<1>3. /\ zeDrivers \in Seq(driver_t) /\ env \in Environments /\ Queried
  BY DEF LoadInv, KeptInv, TypeInv, TypeOK
<1>4. /\ Names \in Seq(Driver) /\ DOMAIN Names = DOMAIN zeDrivers /\ Len(Names) \in Nat
      /\ DOMAIN Names = 1 .. Len(Names)
      /\ \A k \in DOMAIN zeDrivers : Names[k] = zeDrivers[k].name
  BY <1>3, NamesAre
<1>5. driverEnvironmentQueried
  BY <1>3 DEF Queried, Answered, Ended
<1>6. /\ \A j, k \in DOMAIN Names : Names[j] = Names[k] => j = k
      /\ \A n \in DOMAIN env.discovered : \E k \in DOMAIN Names : Names[k] = env.discovered[n]
      /\ \A k \in DOMAIN Names : \E n \in DOMAIN env.discovered : Names[k] = env.discovered[n]
  <2>1. /\ \A j, k \in DOMAIN zeDrivers : zeDrivers[j].name = zeDrivers[k].name => j = k
        /\ \A n \in DOMAIN env.discovered : \E k \in DOMAIN zeDrivers : zeDrivers[k].name = env.discovered[n]
        /\ \A k \in DOMAIN zeDrivers : \E n \in DOMAIN env.discovered : zeDrivers[k].name = env.discovered[n]
    BY <1>3, <1>5 DEF Queried
  <2>2. DOMAIN Names = DOMAIN zeDrivers /\ \A k \in DOMAIN zeDrivers : Names[k] = zeDrivers[k].name
    BY <1>4
  <2>. QED  BY <2>1, <2>2
<1>7. \A d : d \in D <=> d \in Driver /\ d \notin env.broken /\ Matches(d, call[t].want)
  BY DEF Due, RequestOf
<1>8. DOMAIN answer = 1 .. Len(answer) /\ Len(answer) \in Nat
  BY <1>2
<1>9. ASSUME NEW d \in ToSet(answer)
      PROVE  d \in ToSet(env.discovered) \ env.broken /\ Matches(d, call[t].want)
  <2>1. PICK j \in 1 .. Len(answer) : answer[j] = d
    BY <1>8 DEF ToSet
  <2>2. d = Names[f[j]] /\ d \in D /\ f[j] \in DOMAIN Names
    BY <1>2, <1>4, <2>1
  <2>3. d \in ToSet(env.discovered)
    BY <1>6, <2>2 DEF ToSet
  <2>. QED  BY <1>7, <2>2, <2>3
<1>10. ASSUME NEW d \in ToSet(env.discovered) \ env.broken, Matches(d, call[t].want)
       PROVE  d \in ToSet(answer)
  <2>1. PICK n \in DOMAIN env.discovered : env.discovered[n] = d
    BY DEF ToSet
  <2>2. PICK k \in DOMAIN Names : Names[k] = d
    BY <1>6, <2>1
  <2>3. d \in D
    BY <1>4, <1>7, <1>10, <2>2
  <2>4. PICK j \in 1 .. Len(answer) : f[j] = k
    BY <1>2, <1>4, <2>2, <2>3
  <2>5. answer[j] = d
    BY <1>2, <2>2, <2>4
  <2>. QED  BY <1>8, <2>5 DEF ToSet
<1>11. IsInjective(answer)
  <2> SUFFICES ASSUME NEW j \in 1 .. Len(answer), NEW k \in 1 .. Len(answer), answer[j] = answer[k], j < k
               PROVE  FALSE
    <3>1. \A j, k \in DOMAIN answer : answer[j] = answer[k] => j = k
      BY <1>8
    <3>. QED  BY <3>1 DEF IsInjective
  <2>1. f[j] \in DOMAIN Names /\ f[k] \in DOMAIN Names /\ f[j] < f[k] /\ Names[f[j]] = Names[f[k]]
    BY <1>2, <1>4
  <2>2. f[j] = f[k]
    BY <1>6, <2>1
  <2>. QED  BY <1>4, <2>1, <2>2
<1>. QED  BY <1>9, <1>10, <1>11

(* zeInitDrivers returns the drivers of the classes asked for, each once,   *)
(* whatever is loaded by other calls before or meanwhile.                   *)
THEOREM RequestsAreAnswered ==
  ASSUME ~Together, NamesFit
  PROVE  Spec => []RequestedDriversReturned
<1> DEFINE Inv == LoadInv /\ Answers({"zeInitDrivers"})
<1>1. Init => Inv
  BY LoadInit, AnswersInit
<1>2. Inv /\ [Next]_vars => Inv'
  BY LoadStep, RequestedReport, AnswersStep
<1>3. Inv => RequestedDriversReturned
  BY RequestedReturned
<1>. QED  BY <1>1, <1>2, <1>3, PTL DEF Spec

-----------------------------------------------------------------------------
(* zeInit's results *)

\* zeInit has been past this driver, which has answered for itself if it is loaded.
Told(drv) ==
  /\ Passed(drv, Class)
  /\ drv.initStatus <=> (Usable(drv) => Matches(drv.name, Class))

\* A call of zeInit comes to drivers that have not failed; zeDriverGet comes after it.
LegacyAt(p, c, once, drivers) ==
  /\ p # "idle" /\ c.api = "zeInit" =>
       /\ once = "running"
       /\ p \in {"query", "discover"} => \A k \in DOMAIN drivers : drivers[k].initStatus
       /\ p \in {"init", "tables", "pfnInit"} =>
            \A k \in DOMAIN drivers : IF k < c.i THEN Told(drivers[k]) ELSE drivers[k].initStatus
  /\ p \in {"sort", "get"} /\ c.api = "zeDriverGet" => once = "done"

Status(once, drivers) ==
  /\ once = "no" => \A k \in DOMAIN drivers : drivers[k].initStatus
  /\ once = "done" => \A k \in DOMAIN drivers : Told(drivers[k])

Legacies ==
  /\ \A t, u \in Thread : pc[t] # "idle" /\ Legacy(t) /\ pc[u] # "idle" /\ Legacy(u) => t = u
  /\ \A t \in Thread : LegacyAt(pc[t], call[t], initOnce, zeDrivers)
  /\ Status(initOnce, zeDrivers)

LEMMA ToldStays ==
  ASSUME NEW old, NEW new, Told(old), SoundDriver(new), new.name = old.name,
         Usable(old) => Usable(new), new.initStatus = old.initStatus
  PROVE  Told(new)
<1>1. Passed(new, Class)
  BY DEF Told, Passed
<1>2. Usable(new) <=> Usable(old)
  <2>1. Usable(new) => Loadable(new.name, Class)
    BY DEF SoundDriver, Usable
  <2>. QED  BY <2>1 DEF Told, Passed
<1>3. new.initStatus <=> (Usable(new) => Matches(new.name, Class))
  BY <1>2 DEF Told
<1>. QED  BY <1>1, <1>3 DEF Told

LEMMA RetypedTold ==
  ASSUME NEW a, NEW b, SoundDriver(a), Retyped(a, b)
  PROVE  /\ a.initStatus => b.initStatus
         /\ Told(a) => Told(b)
<1>1. SoundDriver(b) /\ (Usable(a) <=> Usable(b))
  BY RetypedSound
<1>2. b.name = a.name /\ b.initStatus = a.initStatus
  BY DEF Retyped
<1>. QED  BY <1>1, <1>2, ToldStays

\* What loops that are not zeInit's do to another's results.
LEMMA OthersTold ==
  ASSUME LoadInv, NEW t \in Thread, Loops(t), ~PfnInit(t)
  PROVE  \A k \in DOMAIN zeDrivers :
           /\ zeDrivers'[k].initStatus = zeDrivers[k].initStatus
           /\ Told(zeDrivers[k]) => Told(zeDrivers'[k])
<1> SUFFICES ASSUME NEW k \in DOMAIN zeDrivers
             PROVE  /\ zeDrivers'[k].initStatus = zeDrivers[k].initStatus
                    /\ Told(zeDrivers[k]) => Told(zeDrivers'[k])
  OBVIOUS
<1>1. zeDrivers'[k].initStatus = zeDrivers[k].initStatus
  <2>1. CASE k = call[t].i
    BY <2>1, LoopsLoad
  <2>2. CASE k # call[t].i
    BY <2>2, LoopsKeep DEF LoadInv, KeptInv
  <2>. QED  BY <2>1, <2>2
<1>2. /\ SoundDriver(zeDrivers'[k]) /\ zeDrivers'[k].name = zeDrivers[k].name
      /\ Usable(zeDrivers[k]) => Usable(zeDrivers'[k])
  BY LoopsGrow DEF Grown
<1>. QED  BY <1>1, <1>2, ToldStays

\* zeInit's loop.
LEMMA LegacyLoops ==
  ASSUME LoadInv, InitFlags \subseteq {Class}, NEW t \in Thread, Loops(t), Legacy(t),
         LegacyAt(pc[t], call[t], initOnce, zeDrivers)
  PROVE  LegacyAt(pc'[t], call'[t], initOnce', zeDrivers')
<1> DEFINE c == call[t]
           i == c.i
           old == zeDrivers[i]
           ds == zeDrivers'
<1>0. TypeInv /\ Stages /\ Sound
  BY DEF LoadInv, KeptInv
<1>1. /\ i \in DOMAIN zeDrivers /\ Drv(t) = old /\ old \in driver_t
      /\ zeDrivers \in Seq(driver_t) /\ i \in Nat
      /\ Forward(c).i = i + 1
  <2>1. In(t, "init") \/ pc[t] = "tables" \/ pc[t] = "pfnInit" \/ In(t, "get")
    BY DEF Loops, NothingToDo, AlreadyLoaded, LoadLibrary, InitTables, PfnInit, Ask
  <2>. QED  BY <1>0, <2>1, Here DEF TypeInv, TypeOK
<1>2. /\ pc[t] \in {"init", "tables", "pfnInit", "get"} /\ pc'[t] \in {"init", "tables", "pfnInit", "get"}
      /\ pc'[t] = "get" <=> pc[t] = "get"
      /\ call'[t].api = c.api /\ initOnce' = initOnce /\ DOMAIN ds = DOMAIN zeDrivers
      /\ \A k \in DOMAIN zeDrivers : k # i => ds[k] = zeDrivers[k]
  BY <1>0, LoopsKeep DEF SameCall
<1>3. pc[t] # "get" /\ c.want = Class /\ c.api = "zeInit"
  BY <1>0, <1>2 DEF Stages, Legacy
<1>4. pc[t] \in {"init", "tables", "pfnInit"} /\ pc'[t] \in {"init", "tables", "pfnInit"}
  BY <1>2, <1>3
<1>5. /\ initOnce = "running"
      /\ \A k \in DOMAIN zeDrivers : IF k < i THEN Told(zeDrivers[k]) ELSE zeDrivers[k].initStatus
  BY <1>3, <1>4 DEF LegacyAt
<1>6. old.initStatus
  BY <1>1, <1>5
<1>7. LoadingAt(pc[t], c, zeDrivers) /\ SoundDriver(old)
  BY <1>0, <1>1 DEF LoadInv, Loading, LoadingAt, Sound
<1> HIDE DEF ds
<1>8. ASSUME \A k \in DOMAIN zeDrivers : IF k < call'[t].i THEN Told(ds[k]) ELSE ds[k].initStatus
      PROVE  LegacyAt(pc'[t], call'[t], initOnce', zeDrivers')
  BY <1>2, <1>3, <1>4, <1>5, <1>8 DEF LegacyAt, ds
\* at the same driver
<1>9. ASSUME call'[t].i = i, ds[i].initStatus
      PROVE  LegacyAt(pc'[t], call'[t], initOnce', zeDrivers')
  <2>1. ASSUME NEW k \in DOMAIN zeDrivers
        PROVE  IF k < i THEN Told(ds[k]) ELSE ds[k].initStatus
    <3>1. CASE k = i
      BY <1>1, <1>9, <3>1
    <3>2. CASE k # i
      BY <1>2, <1>5, <3>2
    <3>. QED  BY <3>1, <3>2
  <2>. QED  BY <1>8, <1>9, <2>1
\* at the next
<1>10. ASSUME call'[t].i = i + 1, Told(ds[i])
       PROVE  LegacyAt(pc'[t], call'[t], initOnce', zeDrivers')
  <2>1. ASSUME NEW k \in DOMAIN zeDrivers
        PROVE  IF k < i + 1 THEN Told(ds[k]) ELSE ds[k].initStatus
    <3>0. k \in Nat
      BY <1>1
    <3>1. CASE k = i
      BY <1>1, <1>10, <3>1
    <3>2. CASE k # i
      <4>1. k < i + 1 <=> k < i
        BY <1>1, <3>0, <3>2
      <4>. QED  BY <1>2, <1>5, <3>2, <4>1
    <3>. QED  BY <3>1, <3>2
  <2>. QED  BY <1>8, <1>10, <2>1
<1>11. ~NothingToDo(t) /\ ~Ask(t)
  BY <1>1, <1>3, <1>6 DEF NothingToDo, Ask, In
<1>12. CASE AlreadyLoaded(t)
  <2>1. call'[t] = c /\ ds[i] = old
    BY <1>0, <1>1, <1>12, LoopStep DEF Wrote, ds
  <2>. QED  BY <1>6, <1>9, <2>1
<1>13. CASE LoadLibrary(t)
  <2>1. CASE Wrote(t, "tables", [old EXCEPT !.handle = TRUE], c)
    <3>1. call'[t] = c /\ ds[i] = [old EXCEPT !.handle = TRUE]
      BY <2>1 DEF Wrote, ds
    <3>2. ds[i].initStatus
      BY <1>1, <1>6, <3>1 DEF driver_t
    <3>. QED  BY <1>9, <3>1, <3>2
  <2>2. CASE /\ ~CanLoad(old, c.want)
             /\ Wrote(t, "init", [old EXCEPT !.ddiInitialized = FALSE], Forward(c))
    <3>1. call'[t].i = i + 1 /\ ds[i] = [old EXCEPT !.ddiInitialized = FALSE]
      BY <1>1, <2>2 DEF Wrote, ds
    <3>2. ds[i].name = old.name /\ ds[i].ddiInitialized = FALSE /\ ds[i].initStatus = old.initStatus
      BY <1>1, <3>1 DEF driver_t
    <3>3. ~Loadable(old.name, Class)
      <4>1. old.driverType = Advertised[old.name]
        BY <1>7, <2>2 DEF CanLoad, SoundDriver
      <4>2. Selected(old, Class) <=> Selects(old.name, Class)
        BY <1>1, <4>1, SelectedIs
      <4>. QED  BY <1>3, <2>2, <4>2 DEF CanLoad, Loadable
    <3>4. Told(ds[i])
      BY <1>6, <3>2, <3>3 DEF Told, Passed, Usable
    <3>. QED  BY <1>10, <3>1, <3>4
  <2>. QED  BY <1>0, <1>1, <1>13, <2>1, <2>2, LoopStep
<1>14. CASE InitTables(t)
  <2>1. old.handle
    BY <1>7, <1>14 DEF InitTables, LoadingAt
  <2>2. call'[t] = c /\ ds[i] = [old EXCEPT !.ddiInitialized = old.handle]
    BY <1>0, <1>1, <1>14, <2>1, LoopStep DEF Wrote, ds
  <2>3. ds[i].initStatus
    BY <1>1, <1>6, <2>2 DEF driver_t
  <2>. QED  BY <1>9, <2>2, <2>3
<1>15. CASE PfnInit(t)
  <2> DEFINE ok == Usable(old) /\ Matches(old.name, c.want)
             tried == old.legacyInitAttempted \/ Usable(old)
  <2>1. Usable(old)
    BY <1>7, <1>15 DEF PfnInit, LoadingAt
  <2>2. call'[t].i = i + 1 /\ ds[i] = [old EXCEPT !.initStatus = ok, !.legacyInitAttempted = tried]
    BY <1>0, <1>1, <1>15, LoopStep DEF Wrote, ds
  <2>3. ok <=> Matches(old.name, Class)
    BY <1>3, <2>1
  <2> HIDE DEF ok, tried
  <2>4. ds[i].initStatus = ok /\ ds[i].name = old.name /\ Usable(ds[i])
    BY <1>1, <2>1, <2>2 DEF driver_t, Usable
  <2>5. Told(ds[i])
    BY <2>3, <2>4 DEF Told, Passed
  <2>. QED  BY <1>10, <2>2, <2>5
<1>. QED  BY <1>11, <1>12, <1>13, <1>14, <1>15 DEF Loops

\* The calls but t go on as they were, with every driver told of as it was.
LEMMA LegacyOthers ==
  ASSUME NEW p, NEW c, NEW once, NEW old, NEW new, LegacyAt(p, c, once, old), DOMAIN new = DOMAIN old,
         \A k \in DOMAIN old : /\ old[k].initStatus => new[k].initStatus
                               /\ Told(old[k]) => Told(new[k])
  PROVE  LegacyAt(p, c, once, new)
<1>1. p \in {"query", "discover"} /\ c.api = "zeInit" => \A k \in DOMAIN new : new[k].initStatus
  BY DEF LegacyAt
<1>2. p \in {"init", "tables", "pfnInit"} /\ c.api = "zeInit" =>
        \A k \in DOMAIN new : IF k < c.i THEN Told(new[k]) ELSE new[k].initStatus
  BY DEF LegacyAt
<1>. QED  BY <1>1, <1>2 DEF LegacyAt

LEMMA LegacyStep ==
  ASSUME LoadInv, ~Together, InitFlags \subseteq {Class}, Legacies, [Next]_vars
  PROVE  Legacies'
<1>0. /\ TypeInv /\ Alone /\ Queried /\ Sound /\ Stages /\ zeDrivers \in Seq(driver_t)
      /\ pc \in [Thread -> Stage] /\ call \in [Thread -> Call]
      /\ initOnce \in {"no", "running", "done"} /\ Len(zeDrivers) \in Nat
  BY DEF LoadInv, KeptInv, TypeInv, TypeOK
<1>1. /\ \A t, u \in Thread : pc[t] # "idle" /\ Legacy(t) /\ pc[u] # "idle" /\ Legacy(u) => t = u
      /\ \A t \in Thread : LegacyAt(pc[t], call[t], initOnce, zeDrivers)
      /\ Status(initOnce, zeDrivers)
  BY DEF Legacies
<1> DEFINE Active(p, c) == p # "idle" /\ c.api = "zeInit"
\* One call of zeInit at most, if t is none or there was none.
<1>2. ASSUME NEW t \in Thread, env' = env,
             \A u \in Thread \ {t} : pc'[u] = pc[u] /\ call'[u] = call[u],
             Active(pc'[t], call'[t]) => Active(pc[t], call[t]) \/ initOnce # "running",
             \A u \in Thread \ {t} : LegacyAt(pc[u], call[u], initOnce', zeDrivers'),
             LegacyAt(pc'[t], call'[t], initOnce', zeDrivers'),
             Status(initOnce', zeDrivers')
      PROVE  Legacies'
  <2>1. \A u \in Thread : Active(pc[u], call[u]) => initOnce = "running"
    BY <1>1 DEF LegacyAt
  <2>2. \A u, v \in Thread : Active(pc[u], call[u]) /\ Active(pc[v], call[v]) => u = v
    BY <1>1 DEF Legacy
  <2>3. \A u, v \in Thread : Active(pc'[u], call'[u]) /\ Active(pc'[v], call'[v]) => u = v
    <3> SUFFICES ASSUME NEW u \in Thread, NEW v \in Thread,
                        Active(pc'[u], call'[u]), Active(pc'[v], call'[v]), u # v
                 PROVE  FALSE
      OBVIOUS
    <3> HIDE DEF Active
    <3>1. CASE u = t
      BY <1>2, <2>1, <2>2, <3>1
    <3>2. CASE v = t
      BY <1>2, <2>1, <2>2, <3>2
    <3>3. CASE u # t /\ v # t
      BY <1>2, <2>2, <3>3
    <3>. QED  BY <3>1, <3>2, <3>3
  <2>4. \A u \in Thread : LegacyAt(pc'[u], call'[u], initOnce', zeDrivers')
    BY <1>2
  <2>. QED  BY <1>2, <2>3, <2>4 DEF Legacies, Legacy, LegacyAt, Status, Told, Passed, Loadable
<1>3. ASSUME NEW t \in Thread, Moves(t) PROVE Legacies'
  <2>1. /\ env' = env /\ zeDrivers' = zeDrivers
        /\ \A u \in Thread \ {t} : pc'[u] = pc[u] /\ call'[u] = call[u]
    BY <1>0, <1>3, MoveStep
  <2>2. CASE \E want \in InitFlags : zeInit(t, want)
    <3>1. PICK want \in InitFlags : zeInit(t, want)
      BY <2>2
    <3>2. initOnce = "no" /\ initOnce' = "running" /\ pc'[t] = "query"
      BY <1>0, <3>1 DEF zeInit, Go
    <3>3. \A k \in DOMAIN zeDrivers : zeDrivers[k].initStatus
      BY <1>1, <3>2 DEF Status
    <3>4. \A u \in Thread \ {t} : LegacyAt(pc[u], call[u], initOnce', zeDrivers)
      BY <1>1, <3>2 DEF LegacyAt
    <3>5. LegacyAt(pc'[t], call'[t], initOnce', zeDrivers)
      BY <3>2, <3>3 DEF LegacyAt
    <3>6. Status(initOnce', zeDrivers)
      BY <3>2 DEF Status
    <3>. QED  BY <1>2, <2>1, <3>2, <3>4, <3>5, <3>6
  <2>3. CASE \E want \in Descs : zeInitDrivers(t, want)
    <3>1. PICK want \in Descs : zeInitDrivers(t, want)
      BY <2>3
    <3> DEFINE c == [NoCall EXCEPT !.api = "zeInitDrivers", !.want = want]
               d == [c EXCEPT !.i = 1, !.end = Len(zeDrivers)]
    <3>2. initOnce' = initOnce /\ (call'[t] = c \/ call'[t] = d)
      BY <1>0, <2>1, <3>1 DEF zeInitDrivers, Loop, Go
    <3>3. c.api = "zeInitDrivers" /\ d.api = "zeInitDrivers"
      BY DEF NoCall
    <3> HIDE DEF c, d
    <3>4. call'[t].api = "zeInitDrivers"
      BY <3>2, <3>3
    <3>5. LegacyAt(pc'[t], call'[t], initOnce', zeDrivers)
      BY <3>4 DEF LegacyAt
    <3>6. \A u \in Thread \ {t} : LegacyAt(pc[u], call[u], initOnce', zeDrivers)
      BY <1>1, <3>2
    <3>. QED  BY <1>1, <1>2, <2>1, <3>2, <3>4, <3>5, <3>6
  <2>4. CASE zeDriverGet(t)
    <3>1. initOnce = "done" /\ initOnce' = initOnce /\ call'[t] = [NoCall EXCEPT !.api = "zeDriverGet"]
      BY <1>0, <2>4 DEF zeDriverGet, Go, onceVars
    <3>2. call'[t].api = "zeDriverGet"
      BY <3>1 DEF NoCall
    <3>3. LegacyAt(pc'[t], call'[t], initOnce', zeDrivers)
      BY <3>1, <3>2 DEF LegacyAt
    <3>4. \A u \in Thread \ {t} : LegacyAt(pc[u], call[u], initOnce', zeDrivers)
      BY <1>1, <3>1
    <3>. QED  BY <1>1, <1>2, <2>1, <3>1, <3>2, <3>3, <3>4
  <2>5. CASE Query(t)
    <3> DEFINE d == [call[t] EXCEPT !.i = 1, !.end = Len(zeDrivers)]
    <3>1. /\ pc[t] = "query" /\ initOnce' = initOnce
          /\ \/ pc'[t] = "discover" /\ call'[t] = call[t]
             \/ pc'[t] = "init" /\ call'[t] = d
      BY <1>0, <2>1, <2>5 DEF Query, ContextReady, Loop, Go, onceVars
    <3>2. d.api = call[t].api /\ d.i = 1
      BY <1>0 DEF Call
    <3>3. LegacyAt(pc[t], call[t], initOnce, zeDrivers)
      BY <1>1
    <3>4. \A k \in DOMAIN zeDrivers : ~(k < 1)
      BY <1>0
    <3> HIDE DEF d
    <3>5. LegacyAt(pc'[t], call'[t], initOnce', zeDrivers)
      BY <3>1, <3>2, <3>3, <3>4 DEF LegacyAt
    <3>6. \A u \in Thread \ {t} : LegacyAt(pc[u], call[u], initOnce', zeDrivers)
      BY <1>1, <3>1
    <3>7. call'[t].api = call[t].api
      BY <3>1, <3>2
    <3>. QED  BY <1>1, <1>2, <2>1, <3>1, <3>5, <3>6, <3>7
  <2>6. CASE Initialised(t) /\ Legacy(t)
    <3>1. pc[t] = "init" /\ call[t].i > call[t].end /\ pc'[t] = "idle" /\ initOnce' = "done"
      BY <1>0, <2>6 DEF Initialised, Ended, Go
    <3>2. call[t].end = Len(zeDrivers) /\ call[t].i \in Nat
      BY <1>0, <3>1 DEF LoadInv, Loading, Call
    <3>3. \A k \in DOMAIN zeDrivers : k < call[t].i
      BY <1>0, <3>1, <3>2
    <3>4. LegacyAt(pc[t], call[t], initOnce, zeDrivers) /\ call[t].api = "zeInit"
      BY <1>1, <2>6 DEF Legacy
    <3>5. Status(initOnce', zeDrivers)
      BY <3>1, <3>3, <3>4 DEF Status, LegacyAt
    <3>6. LegacyAt(pc'[t], call'[t], initOnce', zeDrivers)
      BY <3>1 DEF LegacyAt
    <3>7. \A u \in Thread \ {t} : ~Active(pc[u], call[u])
      BY <1>1, <3>1, <3>4 DEF Legacy
    <3>8. \A u \in Thread \ {t} : LegacyAt(pc[u], call[u], initOnce', zeDrivers)
      BY <3>1, <3>7 DEF LegacyAt
    <3>. QED  BY <1>2, <2>1, <3>1, <3>5, <3>6, <3>8
  <2>7. CASE Initialised(t) /\ ~Legacy(t)
    <3>1. pc[t] = "init" /\ pc'[t] = "sort" /\ call'[t] = call[t] /\ initOnce' = initOnce
      BY <1>0, <2>7 DEF Initialised, Ended, Go
    <3>2. call[t].api = "zeInitDrivers"
      BY <1>0, <2>7, <3>1 DEF Stages, Legacy
    <3>3. LegacyAt(pc'[t], call'[t], initOnce', zeDrivers)
      BY <3>1, <3>2 DEF LegacyAt
    <3>4. \A u \in Thread \ {t} : LegacyAt(pc[u], call[u], initOnce', zeDrivers)
      BY <1>1, <3>1
    <3>. QED  BY <1>1, <1>2, <2>1, <3>1, <3>2, <3>3, <3>4
  <2>8. CASE Return(t)
    <3>1. pc'[t] = "idle" /\ initOnce' = initOnce
      BY <1>0, <2>8 DEF Return, Go, onceVars
    <3>2. LegacyAt(pc'[t], call'[t], initOnce', zeDrivers)
      BY <3>1 DEF LegacyAt
    <3>3. \A u \in Thread \ {t} : LegacyAt(pc[u], call[u], initOnce', zeDrivers)
      BY <1>1, <3>1
    <3>. QED  BY <1>1, <1>2, <2>1, <3>1, <3>2, <3>3
  <2>. QED  BY <1>3, <2>2, <2>3, <2>4, <2>5, <2>6, <2>7, <2>8 DEF Moves
<1>4. ASSUME NEW t \in Thread, Discover(t) PROVE Legacies'
  <2>1. /\ UNCHANGED <<env, initOnce>> /\ zeDrivers' = zeDrivers \o Found
        /\ pc'[t] = "init" /\ call'[t] = [call[t] EXCEPT !.i = 1, !.end = Len(zeDrivers')]
        /\ \A u \in Thread \ {t} : pc'[u] = pc[u] /\ call'[u] = call[u]
    BY <1>0, <1>4, DiscoverStep
  <2>2. zeDrivers = <<>> /\ pc[t] = "discover" /\ env \in Environments /\ initOnce # "done"
        /\ ~coreDriverSortOnce
    BY <1>0, <1>4 DEF Discover, Queried, TypeInv, TypeOK
  <2>3. Found \in Seq(driver_t) /\ \A k \in DOMAIN Found : Found[k].initStatus = TRUE
    BY <2>2, FoundIs
  <2>4. zeDrivers' = Found
    BY <2>1, <2>2, <2>3, ConcatEmptySeq
  <2>5. \A k \in DOMAIN zeDrivers' : zeDrivers'[k].initStatus /\ ~(k < 1)
    BY <2>3, <2>4
  <2>6. call'[t].api = call[t].api /\ call'[t].i = 1
    BY <1>0, <2>1 DEF Call
  <2>7. LegacyAt(pc'[t], call'[t], initOnce', zeDrivers')
    <3>1. LegacyAt(pc[t], call[t], initOnce, zeDrivers)
      BY <1>1
    <3>. QED  BY <2>1, <2>2, <2>5, <2>6, <3>1 DEF LegacyAt
  <2>8. \A u \in Thread \ {t} : pc[u] = "idle"
    BY <1>0, <2>2 DEF Alone
  <2>9. \A u \in Thread \ {t} : LegacyAt(pc[u], call[u], initOnce', zeDrivers')
    BY <2>8 DEF LegacyAt
  <2>10. Status(initOnce', zeDrivers')
    BY <2>1, <2>2, <2>5 DEF Status
  <2>. QED  BY <1>2, <2>1, <2>2, <2>6, <2>7, <2>9, <2>10
<1>5. ASSUME NEW t \in Thread, Loops(t) PROVE Legacies'
  <2>1. /\ UNCHANGED <<env, initOnce>> /\ SameCall(call'[t], call[t])
        /\ pc[t] \in {"init", "tables", "pfnInit", "get"}
        /\ pc'[t] \in {"init", "tables", "pfnInit", "get"}
        /\ pc'[t] = "get" <=> pc[t] = "get"
        /\ DOMAIN zeDrivers' = DOMAIN zeDrivers
        /\ \A u \in Thread \ {t} : pc'[u] = pc[u] /\ call'[u] = call[u]
    BY <1>0, <1>5, LoopsKeep
  <2>2. Active(pc'[t], call'[t]) => Active(pc[t], call[t])
    BY <2>1 DEF SameCall
  <2>3. CASE Legacy(t)
    <3>1. initOnce = "running" /\ initOnce' = "running"
      BY <1>1, <2>1, <2>3 DEF Legacy, LegacyAt
    <3>2. LegacyAt(pc'[t], call'[t], initOnce', zeDrivers')
      BY <1>1, <1>5, <2>3, LegacyLoops
    <3>3. \A u \in Thread \ {t} : ~Active(pc[u], call[u])
      BY <1>1, <2>1, <2>3 DEF Legacy
    <3>4. \A u \in Thread \ {t} : LegacyAt(pc[u], call[u], initOnce', zeDrivers')
      <4>1. \A u \in Thread \ {t} : LegacyAt(pc[u], call[u], initOnce, zeDrivers)
        BY <1>1
      <4>. QED  BY <2>1, <3>3, <4>1 DEF LegacyAt
    <3>5. Status(initOnce', zeDrivers')
      BY <3>1 DEF Status
    <3>. QED  BY <1>2, <2>1, <2>2, <3>2, <3>4, <3>5
  <2>4. CASE ~Legacy(t)
    <3>1. ~PfnInit(t)
      BY <1>0, <2>4 DEF PfnInit, Stages, Legacy
    <3>2. \A k \in DOMAIN zeDrivers :
            /\ zeDrivers[k].initStatus => zeDrivers'[k].initStatus
            /\ Told(zeDrivers[k]) => Told(zeDrivers'[k])
      BY <1>5, <3>1, OthersTold
    <3>3. \A u \in Thread : LegacyAt(pc[u], call[u], initOnce', zeDrivers')
      BY <1>1, <2>1, <3>2, LegacyOthers
    <3>4. LegacyAt(pc'[t], call'[t], initOnce', zeDrivers')
      <4>1. call'[t].api # "zeInit" /\ (pc'[t] = "get" => pc[t] = "get") /\ call'[t].api = call[t].api
        BY <2>1, <2>4 DEF SameCall, Legacy
      <4>. QED  BY <2>1, <3>3, <4>1 DEF LegacyAt
    <3>5. Status(initOnce', zeDrivers')
      BY <1>1, <2>1, <3>2 DEF Status
    <3>. QED  BY <1>2, <2>1, <2>2, <3>3, <3>4, <3>5
  <2>. QED  BY <2>3, <2>4
<1>6. ASSUME NEW t \in Thread, Sort(t) PROVE Legacies'
  <2>1. /\ UNCHANGED <<env, initOnce>> /\ DOMAIN zeDrivers' = DOMAIN zeDrivers
        /\ zeDrivers' = zeDrivers \/ (~coreDriverSortOnce /\ Shuffled(zeDrivers, zeDrivers'))
        /\ pc'[t] = "get" /\ call'[t] = [call[t] EXCEPT !.i = 1, !.end = Len(zeDrivers)]
        /\ \A u \in Thread \ {t} : pc'[u] = pc[u] /\ call'[u] = call[u]
    BY <1>0, <1>6, SortStep
  <2>2. pc[t] = "sort" /\ call'[t].api = call[t].api
    BY <1>0, <1>6, <2>1 DEF Sort, Call
  <2>3. call[t].api \in {"zeInitDrivers", "zeDriverGet"}
    BY <1>0, <2>2 DEF Stages
  <2>4. LegacyAt(pc'[t], call'[t], initOnce', zeDrivers')
    <3>1. LegacyAt(pc[t], call[t], initOnce, zeDrivers)
      BY <1>1
    <3>. QED  BY <2>1, <2>2, <2>3, <3>1 DEF LegacyAt
  <2>5. CASE zeDrivers' = zeDrivers
    BY <1>1, <1>2, <2>1, <2>2, <2>4, <2>5
  <2>6. CASE ~coreDriverSortOnce /\ Shuffled(zeDrivers, zeDrivers')
    <3>1. \A u \in Thread \ {t} : LegacyAt(pc[u], call[u], initOnce', zeDrivers')
      BY <1>0, <2>2, <2>6 DEF Alone, LegacyAt
    <3>2. ASSUME NEW k \in DOMAIN zeDrivers
          PROVE  /\ initOnce = "no" => zeDrivers'[k].initStatus
                 /\ initOnce = "done" => Told(zeDrivers'[k])
      <4>1. PICK j \in DOMAIN zeDrivers : Retyped(zeDrivers[j], zeDrivers'[k])
        BY <2>6 DEF Shuffled
      <4>2. SoundDriver(zeDrivers[j])
        BY <1>0 DEF Sound
      <4>. QED  BY <1>1, <4>1, <4>2, RetypedTold DEF Status
    <3>3. Status(initOnce', zeDrivers')
      BY <2>1, <3>2 DEF Status
    <3>. QED  BY <1>2, <2>1, <2>2, <2>4, <3>1, <3>3
  <2>. QED  BY <2>1, <2>5, <2>6
<1>7. CASE UNCHANGED vars
  BY <1>1, <1>7 DEF vars, onceVars, Legacies, Legacy, LegacyAt, Status, Told, Passed, Loadable
<1>. QED  BY <1>3, <1>4, <1>5, <1>6, <1>7, Steps

LEMMA LegacyInit == Init => Legacies
BY DEF Init, Legacies, LegacyAt, Status

LEMMA LegacyReport ==
  ASSUME LoadInv, Legacies, NamesFit
  PROVE  Reporting(Api)
<1> SUFFICES ASSUME NEW t \in Thread, pc[t] = "get", call[t].api \in Api, NEW k \in DOMAIN zeDrivers
             PROVE  Reports(zeDrivers[k], call[t]) <=> zeDrivers[k].name \in Due(RequestOf(call[t]))
  BY DEF Reporting
<1> DEFINE drv == zeDrivers[k]
<1>1. CASE call[t].api = "zeInitDrivers"
  BY <1>1, RequestedReport DEF Reporting
<1>2. CASE call[t].api = "zeDriverGet"
  <2>1. drv.name \in Driver
    <3>1. zeDrivers \in Seq(driver_t)
      BY DEF LoadInv, KeptInv, TypeInv, TypeOK
    <3>2. drv \in driver_t
      BY <3>1
    <3>. QED  BY <3>2 DEF driver_t
  <2>2. initOnce = "done"
    BY <1>2 DEF Legacies, LegacyAt
  <2>3. Told(drv) /\ SoundDriver(drv)
    BY <2>2 DEF Legacies, Status, LoadInv, Sound
  <2>4. Reports(drv, call[t]) <=> drv.ddiInitialized /\ drv.initStatus
    BY <1>2 DEF Reports
  <2>5. drv.name \in Due(RequestOf(call[t])) <=> drv.name \notin env.broken /\ Matches(drv.name, Class)
    BY <1>2, <2>1 DEF Due, RequestOf
  <2>6. ASSUME drv.ddiInitialized, drv.initStatus
        PROVE  drv.name \notin env.broken /\ Matches(drv.name, Class)
    <3>1. Usable(drv) /\ drv.name \notin env.broken
      BY <2>3, <2>6 DEF SoundDriver, Loadable, Usable
    <3>. QED  BY <2>3, <2>6, <3>1 DEF Told
  <2>7. ASSUME drv.name \notin env.broken, Matches(drv.name, Class)
        PROVE  drv.ddiInitialized /\ drv.initStatus
    <3>1. Loadable(drv.name, Class)
      BY <2>1, <2>7 DEF NamesFit, Loadable
    <3>2. Usable(drv)
      BY <2>3, <3>1 DEF Told, Passed
    <3>. QED  BY <2>3, <2>7, <3>2 DEF Told, Usable
  <2>. QED  BY <2>4, <2>5, <2>6, <2>7
<1>3. call[t].api # "zeInit"
  BY DEF LoadInv, Stages
<1>. QED  BY <1>1, <1>2, <1>3 DEF Api

(* "Multiple calls to this function will return identical driver handles,   *)
(* in the same order", of zeInitDrivers and of zeDriverGet, when zeInit is  *)
(* called for both classes.                                                 *)
THEOREM SameAnswers ==
  ASSUME ~Together, NamesFit, InitFlags \subseteq {Class}
  PROVE  Spec => []IdenticalHandles
<1> DEFINE Inv == LoadInv /\ Legacies /\ Answers(Api)
<1>1. Init => Inv
  BY LoadInit, LegacyInit, AnswersInit
<1>2. Inv /\ [Next]_vars => Inv'
  BY LoadStep, LegacyStep, LegacyReport, AnswersStep
<1>3. Inv => IdenticalHandles
  <2> SUFFICES ASSUME Inv, NEW t \in Thread, Answered(t), given[RequestOf(call[t])] # None
               PROVE  given[RequestOf(call[t])] = call[t].answer
    BY DEF IdenticalHandles
  <2>1. call[t] \in Call /\ zeDrivers \in Seq(driver_t)
    BY DEF LoadInv, KeptInv, TypeInv, TypeOK
  <2> DEFINE r == RequestOf(call[t])
  <2>2. r \in Request /\ r[1] \in Api /\ call[t].api \in Api
    BY <2>1 DEF RequestOf, Request, Call
  <2>3. given[r] = Chosen(Names, Due(r))[Len(Names)]
    BY <2>2 DEF Answers
  <2>4. pc[t] = "get" /\ call[t].i > call[t].end
    BY DEF Answered, Ended
  <2>5. /\ call[t].i <= call[t].end + 1 /\ call[t].end = Len(Names)
        /\ call[t].answer = Chosen(Names, Due(r))[call[t].i - 1]
    BY <2>2, <2>4 DEF Answers, AnswerAt
  <2>6. call[t].i - 1 = Len(Names)
    BY <2>1, <2>4, <2>5, NamesAre DEF Call
  <2>. QED  BY <2>3, <2>5, <2>6
<1>. QED  BY <1>1, <1>2, <1>3, PTL DEF Spec

-----------------------------------------------------------------------------
(* The documented order *)

\* From the first in the vector to the last, but for ZEL_DRIVERS_ORDER.
InOrder(drivers) ==
  env.order = <<>> =>
    /\ ~env.pciOrderingRequested =>
         \A j, k \in DOMAIN drivers : j < k => drivers[j].driverType <= drivers[k].driverType
    /\ env.pciOrderingRequested /\ (\A k \in DOMAIN drivers : drivers[k].driverType \in DISCRETE_GPU .. INTEGRATED_GPU) =>
         \A j, k \in DOMAIN drivers : j < k => drivers[j].driverType >= drivers[k].driverType

\* An answer follows the vector.
AlongAt(p, c, names) ==
  /\ p # "get" => c.answer = <<>>
  /\ p = "get" => /\ c.i <= c.end + 1 /\ c.end = Len(names)
                  /\ \E f : Placed(names, c.i - 1, c.answer, f)

Along ==
  \A t \in Thread : AlongAt(pc[t], call[t], Names) /\ (pc[t] = "get" => coreDriverSortOnce)

OrderInv == KeptInv /\ Along /\ (coreDriverSortOnce => InOrder(zeDrivers))

\* Drivers of GPUs and other devices have both kinds of GPUs.
GpusApart ==
  \A d \in Driver :
    Devices[d] \cap {"npu", "other"} # {} /\ Devices[d] \cap {"discrete", "integrated"} # {}
      => {"discrete", "integrated"} \subseteq Devices[d]

\* ZE_ENABLE_PCI_ID_DEVICE_ORDER is for drivers of GPUs.
PciForGpus ==
  \A e \in Environments :
    e.pciOrderingRequested =>
      \A n \in DOMAIN e.discovered : Devices[e.discovered[n]] \subseteq {"discrete", "integrated"}

LEMMA TypeIsInt ==
  ASSUME NEW drv \in driver_t
  PROVE  drv.driverType \in Int
BY DEF driver_t, DriverType, DISCRETE_GPU, NPU, FORCE_UINT32

LEMMA SortingOrders ==
  ASSUME zeDrivers \in Seq(driver_t), env \in Environments, NEW desc
  PROVE  InOrder(driverSorting(desc))
<1> SUFFICES ASSUME env.order = <<>> PROVE InOrder(driverSorting(desc))
  BY DEF InOrder
<1> DEFINE s == TypedDrivers(desc)
           r == Sorted(s)
<1>1. s \in Seq(driver_t) /\ driverSorting(desc) = r
  BY SortingShuffles
<1> HIDE DEF s
<1>2. r \in Seq(driver_t) /\ Rearranged(s, r)
  BY <1>1, SortedRearranges
<1>3. /\ \A k \in DOMAIN s : s[k] \in driver_t
      /\ \A k \in DOMAIN r : r[k] \in driver_t
  BY <1>1, <1>2
<1>4. ASSUME ~env.pciOrderingRequested, NEW j \in DOMAIN r, NEW k \in DOMAIN r, j < k
      PROVE  r[j].driverType <= r[k].driverType
  <2> DEFINE key == [drv \in driver_t |-> drv.driverType]
  <2>1. key \in [driver_t -> Int] /\ \A drv \in driver_t : key[drv] = drv.driverType
    BY TypeIsInt
  <2> HIDE DEF key
  <2>2. \A m, n \in DOMAIN s : driverSortComparator(s[m], s[n]) <=> key[s[m]] < key[s[n]]
    BY <1>3, <1>4, <2>1 DEF driverSortComparator
  <2>3. Ascending(r, key)
    BY <1>1, <2>1, <2>2, SortedAscends DEF Keyed
  <2>4. key[r[j]] <= key[r[k]]
    BY <1>4, <2>3 DEF Ascending
  <2>. QED  BY <1>3, <2>1, <2>4
<1>5. ASSUME env.pciOrderingRequested,
             \A k \in DOMAIN r : r[k].driverType \in DISCRETE_GPU .. INTEGRATED_GPU,
             NEW j \in DOMAIN r, NEW k \in DOMAIN r, j < k
      PROVE  r[j].driverType >= r[k].driverType
  <2> DEFINE key == [drv \in driver_t |-> 0 - drv.driverType]
  <2>1. key \in [driver_t -> Int] /\ \A drv \in driver_t : key[drv] = 0 - drv.driverType
    BY TypeIsInt
  <2> HIDE DEF key
  <2>2. \A m \in DOMAIN s : s[m].driverType \in 0 .. 2
    <3>1. \A m \in DOMAIN s : \E n \in DOMAIN r : r[n] = s[m]
      BY <1>1, <1>2, RearrangedHas
    <3>. QED  BY <1>5, <3>1 DEF DISCRETE_GPU, INTEGRATED_GPU
  <2>3. ASSUME NEW m \in DOMAIN s, NEW n \in DOMAIN s
        PROVE  driverSortComparator(s[m], s[n]) <=> key[s[m]] < key[s[n]]
    <3>1. s[m].driverType \in 0 .. 2 /\ s[n].driverType \in 0 .. 2
      BY <2>2
    <3>2. driverSortComparator(s[m], s[n]) <=> s[m].driverType > s[n].driverType
      BY <1>5, <3>1 DEF driverSortComparator, OTHER_TYPE, MIXED
    <3>3. key[s[m]] = 0 - s[m].driverType /\ key[s[n]] = 0 - s[n].driverType
      BY <1>3, <2>1
    <3>. QED  BY <3>1, <3>2, <3>3
  <2>4. Ascending(r, key)
    BY <1>1, <2>1, <2>3, SortedAscends DEF Keyed
  <2>5. key[r[j]] <= key[r[k]]
    BY <1>5, <2>4 DEF Ascending
  <2>6. /\ key[r[j]] = 0 - r[j].driverType /\ key[r[k]] = 0 - r[k].driverType
        /\ r[j].driverType \in Int /\ r[k].driverType \in Int
    BY <1>3, <2>1, TypeIsInt
  <2>. QED  BY <2>5, <2>6
<1> HIDE DEF r
<1>6. InOrder(r)
  BY <1>4, <1>5 DEF InOrder
<1>. QED  BY <1>1, <1>6

\* The rank by the type that the drivers are sorted by.
LEMMA RankIs ==
  ASSUME GpusApart, NEW d \in Driver, Devices[d] # {}
  PROVE  /\ ~env.pciOrderingRequested =>
              /\ TypeOfDevices(Devices[d]) \in 0 .. 5
              /\ DocumentedRank(d) = IF TypeOfDevices(Devices[d]) = 5 THEN 5 ELSE TypeOfDevices(Devices[d]) + 1
         /\ env.pciOrderingRequested /\ Devices[d] \subseteq {"discrete", "integrated"} =>
              TypeOfDevices(Devices[d]) \in 0 .. 2 /\ DocumentedRank(d) = 3 - TypeOfDevices(Devices[d])
<1> DEFINE kinds == Devices[d]
           pci == env.pciOrderingRequested
           type == TypeOfDevices(kinds)
           rank == DocumentedRank(d)
           g == "discrete" \in kinds
           i == "integrated" \in kinds
           n == "npu" \in kinds
           o == "other" \in kinds
           Right == /\ ~pci => type \in 0 .. 5 /\ rank = IF type = 5 THEN 5 ELSE type + 1
                    /\ pci /\ kinds \subseteq {"discrete", "integrated"} => type \in 0 .. 2 /\ rank = 3 - type
<1>1. kinds \in SUBSET {"discrete", "integrated", "npu", "other"} /\ kinds # {}
  BY DevicesAssumption
<1>2. (n \/ o) /\ (g \/ i) => g /\ i
  BY DEF GpusApart
<1>3. rank = CASE kinds = {"discrete"} -> IF pci THEN 3 ELSE 1
               [] kinds = {"discrete", "integrated"} -> 2
               [] kinds = {"integrated"} -> IF pci THEN 1 ELSE 3
               [] kinds \cap {"discrete", "integrated"} = {} -> 5
               [] OTHER -> 4
  BY DEF DocumentedRank
<1> SUFFICES Right
  OBVIOUS
<1> HIDE DEF kinds, pci, rank
<1>4. CASE g /\ i /\ (n \/ o)
  <2>1. type = 3
    BY <1>4 DEF TypeOfDevices, MIXED
  <2>2. rank = 4
    BY <1>3, <1>4
  <2>3. ~(kinds \subseteq {"discrete", "integrated"})
    BY <1>4
  <2>. QED  BY <2>1, <2>2, <2>3
<1>5. CASE g /\ i /\ ~n /\ ~o
  <2>1. kinds = {"integrated", "discrete"} /\ kinds # {"discrete"} /\ kinds = {"discrete", "integrated"}
    BY <1>1, <1>5
  <2>2. type = 1
    BY <1>5, <2>1 DEF TypeOfDevices, GPU
  <2>3. rank = 2
    BY <1>3, <2>1
  <2>. QED  BY <2>2, <2>3
<1>6. CASE i /\ ~g
  <2>1. kinds = {"integrated"} /\ kinds # {"discrete"} /\ kinds # {"discrete", "integrated"}
    BY <1>1, <1>2, <1>6
  <2>2. type = 2
    BY <1>6 DEF TypeOfDevices, INTEGRATED_GPU
  <2>3. rank = IF pci THEN 1 ELSE 3
    BY <1>3, <2>1
  <2>. QED  BY <2>2, <2>3
<1>7. CASE g /\ ~i
  <2>1. kinds = {"discrete"}
    BY <1>1, <1>2, <1>7
  <2>2. type = 0
    BY <1>7 DEF TypeOfDevices, DISCRETE_GPU
  <2>3. rank = IF pci THEN 3 ELSE 1
    BY <1>3, <2>1
  <2>. QED  BY <2>2, <2>3
<1>8. CASE ~g /\ ~i
  <2>1. /\ kinds \cap {"discrete", "integrated"} = {} /\ kinds # {"discrete"}
        /\ kinds # {"discrete", "integrated"} /\ kinds # {"integrated"}
        /\ ~(kinds \subseteq {"discrete", "integrated"})
    BY <1>1, <1>8
  <2>2. rank = 5
    BY <1>3, <2>1
  <2>3. CASE n
    <3>1. type = 5
      BY <1>8, <2>3 DEF TypeOfDevices, NPU
    <3>. QED  BY <2>1, <2>2, <3>1
  <2>4. CASE ~n
    <3>1. kinds = {"other"}
      BY <1>1, <1>8, <2>4
    <3>2. type = 4
      BY <3>1 DEF TypeOfDevices, OTHER_TYPE
    <3>. QED  BY <2>1, <2>2, <3>2
  <2>. QED  BY <2>3, <2>4
<1>. QED  BY <1>4, <1>5, <1>6, <1>7, <1>8

LEMMA AlongStep ==
  ASSUME KeptInv, ~Together, Along, [Next]_vars
  PROVE  Along'
<1>0. /\ TypeInv /\ Alone /\ Queried /\ zeDrivers \in Seq(driver_t) /\ call \in [Thread -> Call]
  BY DEF KeptInv, TypeInv, TypeOK
<1>1. /\ \A u \in Thread : AlongAt(pc[u], call[u], Names)
      /\ \A u \in Thread : pc[u] = "get" => coreDriverSortOnce
  BY DEF Along
<1>2. \A u \in Thread : pc[u] # "get" => call[u].answer = <<>>
  BY <1>1 DEF AlongAt
<1>3. /\ Names \in Seq(Driver) /\ Len(Names) = Len(zeDrivers) /\ DOMAIN Names = DOMAIN zeDrivers
      /\ Len(Names) \in Nat /\ \A k \in DOMAIN zeDrivers : Names[k] = zeDrivers[k].name
  BY <1>0, NamesAre
<1>4. ASSUME NEW t \in Thread, Moves(t) PROVE Along'
  <2>1. /\ UNCHANGED <<zeDrivers, coreDriverSortOnce>>
        /\ \A u \in Thread \ {t} : pc'[u] = pc[u] /\ call'[u] = call[u]
    BY <1>0, <1>4, MoveStep
  <2>2. call'[t].answer = <<>> /\ pc'[t] # "get"
    BY <1>0, <1>2, <1>4, MoveAnswer
  <2>3. Names' = Names
    BY <2>1 DEF Names
  <2>4. AlongAt(pc'[t], call'[t], Names')
    BY <2>2 DEF AlongAt
  <2>. QED  BY <1>1, <2>1, <2>2, <2>3, <2>4 DEF Along
<1>5. ASSUME NEW t \in Thread, Discover(t) PROVE Along'
  <2>1. /\ pc'[t] = "init" /\ call'[t] = [call[t] EXCEPT !.i = 1, !.end = Len(zeDrivers')]
        /\ \A u \in Thread \ {t} : pc'[u] = pc[u] /\ call'[u] = call[u]
    BY <1>0, <1>5, DiscoverStep
  <2>2. ~coreDriverSortOnce /\ pc[t] # "get"
    BY <1>0, <1>5 DEF Discover, Queried
  <2>3. call'[t].answer = <<>>
    BY <1>0, <1>2, <2>1, <2>2 DEF Call
  <2>4. \A u \in Thread : pc'[u] # "get" /\ call'[u].answer = <<>>
    BY <1>1, <1>2, <2>1, <2>2, <2>3
  <2>. QED  BY <2>4 DEF Along, AlongAt
<1>6. ASSUME NEW t \in Thread, Loops(t) PROVE Along'
  <2>1. /\ UNCHANGED coreDriverSortOnce
        /\ pc'[t] = "get" <=> pc[t] = "get"
        /\ SameCall(call'[t], call[t])
        /\ \A u \in Thread \ {t} : pc'[u] = pc[u] /\ call'[u] = call[u]
        /\ DOMAIN zeDrivers' = DOMAIN zeDrivers /\ call[t].i \in DOMAIN zeDrivers
        /\ \A k \in DOMAIN zeDrivers : zeDrivers'[k].name = zeDrivers[k].name
    BY <1>0, <1>6, LoopsKeep
  <2>2. Names' = Names
    BY <2>1 DEF Names
  <2> DEFINE i == call[t].i
  <2>3. /\ pc[t] # "get" => call'[t].answer = <<>>
        /\ pc[t] = "get" =>
             /\ i <= call[t].end /\ call'[t].i = i + 1
             /\ call'[t].answer = call[t].answer \o
                  IF Reports(zeDrivers[i], call[t]) THEN <<zeDrivers[i].name>> ELSE <<>>
    BY <1>0, <1>2, <1>6, LoopsAnswer
  <2>4. AlongAt(pc'[t], call'[t], Names)
    <3>1. CASE pc[t] # "get"
      BY <2>1, <2>3, <3>1 DEF AlongAt
    <3>2. CASE pc[t] = "get"
      <4>1. i \in Nat
        BY <1>0 DEF Call
      <4>2. /\ call[t].end = Len(Names) /\ i \in 1 .. Len(Names) /\ Names[i] = zeDrivers[i].name
        BY <1>0, <1>1, <1>3, <2>1, <3>2, <4>1 DEF AlongAt
      <4>3. PICK f : Placed(Names, i - 1, call[t].answer, f)
        BY <1>1, <3>2 DEF AlongAt
      <4>4. i - 1 \in Nat /\ (i - 1) + 1 = i /\ i <= Len(Names)
        BY <1>3, <4>1, <4>2
      <4>5. call[t].answer \in Seq(Driver)
        BY <4>3 DEF Placed
      <4>6. \E g : Placed(Names, i, call'[t].answer, g)
        <5>1. CASE Reports(zeDrivers[i], call[t])
          <6>1. call'[t].answer = call[t].answer \o <<Names[i]>>
            BY <2>3, <3>2, <4>2, <5>1
          <6> DEFINE n == i - 1
          <6>2. n \in Nat /\ n + 1 = i /\ n + 1 <= Len(Names) /\ Placed(Names, n, call[t].answer, f)
            BY <4>3, <4>4
          <6> HIDE DEF n
          <6>3. \E g : Placed(Names, n + 1, call[t].answer \o <<Names[n + 1]>>, g)
            BY <1>3, <6>2, PlacedNext
          <6>. QED  BY <6>1, <6>2, <6>3
        <5>2. CASE ~Reports(zeDrivers[i], call[t])
          <6>1. call'[t].answer = call[t].answer
            BY <2>3, <3>2, <4>5, <5>2, ConcatEmptySeq
          <6>2. Placed(Names, i, call[t].answer, f)
            BY <4>3, <4>4, PlacedLater
          <6>. QED  BY <6>1, <6>2
        <5>. QED  BY <5>1, <5>2
      <4>7. call'[t].i <= call'[t].end + 1 /\ call'[t].end = Len(Names) /\ call'[t].i - 1 = i
        BY <1>3, <2>1, <2>3, <3>2, <4>1, <4>2 DEF SameCall
      <4>. QED  BY <2>1, <3>2, <4>6, <4>7 DEF AlongAt
    <3>. QED  BY <3>1, <3>2
  <2>. QED  BY <1>1, <2>1, <2>2, <2>4 DEF Along
<1>7. ASSUME NEW t \in Thread, Sort(t) PROVE Along'
  <2>1. /\ TypeInv' /\ coreDriverSortOnce'
        /\ Len(zeDrivers') = Len(zeDrivers)
        /\ zeDrivers' = zeDrivers \/ ~coreDriverSortOnce
        /\ pc'[t] = "get" /\ call'[t] = [call[t] EXCEPT !.i = 1, !.end = Len(zeDrivers)]
        /\ \A u \in Thread \ {t} : pc'[u] = pc[u] /\ call'[u] = call[u]
    BY <1>0, <1>7, SortStep
  <2>2. pc[t] = "sort" /\ call[t].answer = <<>>
    BY <1>2, <1>7 DEF Sort
  <2>3. call'[t].i = 1 /\ call'[t].end = Len(zeDrivers) /\ call'[t].answer = <<>>
    BY <1>0, <2>1, <2>2 DEF Call
  <2>4. Len(Names') = Len(zeDrivers')
    <3>1. zeDrivers' \in Seq(driver_t)
      BY <2>1 DEF TypeInv, TypeOK
    <3>2. Names' = [k \in DOMAIN zeDrivers' |-> zeDrivers'[k].name]
      BY DEF Names
    <3>. QED  BY <3>1, <3>2
  <2>5. AlongAt(pc'[t], call'[t], Names')
    <3>1. Placed(Names', 0, <<>>, [j \in 1 .. 0 |-> 0])
      BY DEF Placed
    <3>2. call'[t].i - 1 = 0 /\ call'[t].i <= call'[t].end + 1
      BY <1>3, <2>3
    <3>. QED  BY <2>1, <2>3, <2>4, <3>1, <3>2 DEF AlongAt
  <2>6. CASE zeDrivers' = zeDrivers
    <3>1. Names' = Names
      BY <2>6 DEF Names
    <3>. QED  BY <1>1, <2>1, <2>5, <3>1 DEF Along
  <2>7. CASE ~coreDriverSortOnce
    <3>1. \A u \in Thread \ {t} : pc'[u] # "get" /\ call'[u].answer = <<>>
      BY <1>1, <1>2, <2>1, <2>7
    <3>2. \A u \in Thread : AlongAt(pc'[u], call'[u], Names')
      BY <2>5, <3>1 DEF AlongAt
    <3>. QED  BY <2>1, <3>2 DEF Along
  <2>. QED  BY <2>1, <2>6, <2>7
<1>8. CASE UNCHANGED vars
  <2>1. Names' = Names
    BY <1>8 DEF vars, Names
  <2>2. UNCHANGED <<pc, call, coreDriverSortOnce>>
    BY <1>8 DEF vars, onceVars
  <2>. QED  BY <1>1, <2>1, <2>2 DEF Along
<1>. QED  BY <1>4, <1>5, <1>6, <1>7, <1>8, Steps

LEMMA OrderStep ==
  ASSUME OrderInv, ~Together, [Next]_vars
  PROVE  OrderInv'
<1>0. /\ KeptInv /\ TypeInv /\ Along /\ Queried /\ zeDrivers \in Seq(driver_t) /\ env \in Environments
      /\ coreDriverSortOnce => InOrder(zeDrivers)
  BY DEF OrderInv, KeptInv, TypeInv, TypeOK
<1>1. KeptInv' /\ Along'
  BY <1>0, KeptStep, AlongStep
<1> SUFFICES ASSUME coreDriverSortOnce' PROVE InOrder(zeDrivers)'
  BY <1>1 DEF OrderInv
<1>2. ASSUME env' = env, coreDriverSortOnce' = coreDriverSortOnce, DOMAIN zeDrivers' = DOMAIN zeDrivers,
             \A k \in DOMAIN zeDrivers : zeDrivers'[k].driverType = zeDrivers[k].driverType
      PROVE  InOrder(zeDrivers)'
  <2>1. InOrder(zeDrivers)
    BY <1>0, <1>2
  <2>. QED  BY <1>2, <2>1 DEF InOrder
<1>3. ASSUME NEW t \in Thread, Moves(t) PROVE InOrder(zeDrivers)'
  <2>1. UNCHANGED <<env, zeDrivers, coreDriverSortOnce>>
    BY <1>0, <1>3, MoveStep
  <2>. QED  BY <1>2, <2>1
<1>4. ASSUME NEW t \in Thread, Discover(t) PROVE FALSE
  <2>1. coreDriverSortOnce' = coreDriverSortOnce
    BY <1>0, <1>4, DiscoverStep
  <2>. QED  BY <1>0, <1>4, <2>1 DEF Discover, Queried
<1>5. ASSUME NEW t \in Thread, Loops(t) PROVE InOrder(zeDrivers)'
  <2>1. /\ UNCHANGED <<env, coreDriverSortOnce>> /\ DOMAIN zeDrivers' = DOMAIN zeDrivers
        /\ \A k \in DOMAIN zeDrivers : zeDrivers'[k].driverType = zeDrivers[k].driverType
    BY <1>0, <1>5, LoopsKeep
  <2>. QED  BY <1>2, <2>1
<1>6. ASSUME NEW t \in Thread, Sort(t) PROVE InOrder(zeDrivers)'
  <2> DEFINE sorted == driverSorting(call[t].api = "zeInitDrivers")
  <2>1. env' = env /\ zeDrivers' = IF coreDriverSortOnce THEN zeDrivers ELSE sorted
    BY <1>6 DEF Sort
  <2>2. InOrder(sorted)
    BY <1>0, SortingOrders
  <2> HIDE DEF sorted
  <2>3. InOrder(zeDrivers')
    BY <1>0, <2>1, <2>2
  <2>. QED  BY <2>1, <2>3 DEF InOrder
<1>7. CASE UNCHANGED vars
  <2>1. UNCHANGED <<env, zeDrivers, coreDriverSortOnce>>
    BY <1>7 DEF vars, onceVars
  <2>. QED  BY <1>2, <2>1
<1>. QED  BY <1>3, <1>4, <1>5, <1>6, <1>7, Steps

LEMMA OrderInit == Init => OrderInv
<1> SUFFICES ASSUME Init PROVE OrderInv
  OBVIOUS
<1>1. KeptInv
  BY KeptInit
<1>2. NoCall.answer = <<>>
  BY DEF NoCall
<1>3. \A t \in Thread : pc[t] = "idle" /\ call[t].answer = <<>>
  BY <1>2 DEF Init
<1>4. Along
  BY <1>3 DEF Along, AlongAt
<1>5. ~coreDriverSortOnce
  BY DEF Init
<1>. QED  BY <1>1, <1>4, <1>5 DEF OrderInv

LEMMA OrderDocumented ==
  ASSUME OrderInv, GpusApart, PciForGpus
  PROVE  DocumentedOrder
<1> SUFFICES ASSUME NEW t \in Thread, Answered(t), env.order = <<>>,
                    \A k \in DOMAIN zeDrivers :
                      /\ Devices[zeDrivers[k].name] # {}
                      /\ zeDrivers[k].driverType = TypeOfDevices(Devices[zeDrivers[k].name]),
                    NEW j \in DOMAIN call[t].answer, NEW k \in DOMAIN call[t].answer, j < k
             PROVE  DocumentedRank(call[t].answer[j]) <= DocumentedRank(call[t].answer[k])
  BY DEF DocumentedOrder
<1> DEFINE answer == call[t].answer
<1>1. /\ zeDrivers \in Seq(driver_t) /\ call[t] \in Call /\ env \in Environments /\ Queried
  BY DEF OrderInv, KeptInv, TypeInv, TypeOK
<1>2. pc[t] = "get" /\ call[t].i > call[t].end
  BY DEF Answered, Ended
<1>3. /\ AlongAt(pc[t], call[t], Names) /\ coreDriverSortOnce /\ InOrder(zeDrivers)
  BY <1>2 DEF OrderInv, Along
<1>4. /\ Names \in Seq(Driver) /\ Len(Names) \in Nat /\ DOMAIN Names = DOMAIN zeDrivers
      /\ DOMAIN Names = 1 .. Len(Names)
      /\ \A m \in DOMAIN zeDrivers : Names[m] = zeDrivers[m].name
  BY <1>1, NamesAre
<1>5. call[t].i - 1 = Len(Names)
  BY <1>1, <1>2, <1>3, <1>4 DEF AlongAt, Call
<1>6. PICK f : Placed(Names, Len(Names), answer, f)
  BY <1>2, <1>3, <1>5 DEF AlongAt
<1>7. /\ answer \in Seq(Driver) /\ f \in [1 .. Len(answer) -> 1 .. Len(Names)]
      /\ \A m, n \in 1 .. Len(answer) : m < n => f[m] < f[n]
      /\ \A m \in 1 .. Len(answer) : answer[m] = Names[f[m]]
  BY <1>6 DEF Placed
<1>8. j \in 1 .. Len(answer) /\ k \in 1 .. Len(answer)
  BY <1>7
<1>9. /\ f[j] \in DOMAIN zeDrivers /\ f[k] \in DOMAIN zeDrivers /\ f[j] < f[k]
      /\ answer[j] = zeDrivers[f[j]].name /\ answer[k] = zeDrivers[f[k]].name
      /\ answer[j] \in Driver /\ answer[k] \in Driver
  BY <1>4, <1>7, <1>8
<1> DEFINE T(d) == TypeOfDevices(Devices[d])
<1>10. /\ zeDrivers[f[j]].driverType = T(answer[j]) /\ zeDrivers[f[k]].driverType = T(answer[k])
       /\ Devices[answer[j]] # {} /\ Devices[answer[k]] # {}
  BY <1>9
<1>11. CASE ~env.pciOrderingRequested
  <2>1. T(answer[j]) <= T(answer[k])
    BY <1>3, <1>9, <1>10, <1>11 DEF InOrder
  <2>2. \A d \in {answer[j], answer[k]} :
           T(d) \in 0 .. 5 /\ DocumentedRank(d) = IF T(d) = 5 THEN 5 ELSE T(d) + 1
    BY <1>9, <1>10, <1>11, RankIs
  <2> HIDE DEF answer, T
  <2>. QED  BY <2>1, <2>2 DEF answer
<1>12. CASE env.pciOrderingRequested
  <2>1. driverEnvironmentQueried
    BY <1>1, <1>2 DEF Queried
  <2>2. \A m \in DOMAIN zeDrivers :
          zeDrivers[m].name \in Driver /\ Devices[zeDrivers[m].name] \subseteq {"discrete", "integrated"}
    <3>1. \A m \in DOMAIN zeDrivers : \E n \in DOMAIN env.discovered : zeDrivers[m].name = env.discovered[n]
      BY <1>1, <2>1 DEF Queried
    <3>2. \A m \in DOMAIN zeDrivers : Names[m] \in Driver
      BY <1>4
    <3>. QED  BY <1>1, <1>4, <1>12, <3>1, <3>2 DEF PciForGpus
  <2>3. \A m \in DOMAIN zeDrivers :
          /\ T(zeDrivers[m].name) \in 0 .. 2
          /\ DocumentedRank(zeDrivers[m].name) = 3 - T(zeDrivers[m].name)
    BY <1>12, <2>2, RankIs
  <2>4. \A m \in DOMAIN zeDrivers : zeDrivers[m].driverType \in DISCRETE_GPU .. INTEGRATED_GPU
    BY <2>3 DEF DISCRETE_GPU, INTEGRATED_GPU
  <2>5. T(answer[j]) >= T(answer[k])
    BY <1>3, <1>9, <1>10, <1>12, <2>4 DEF InOrder
  <2>6. \A d \in {answer[j], answer[k]} : T(d) \in 0 .. 2 /\ DocumentedRank(d) = 3 - T(d)
    BY <1>9, <2>3
  <2> HIDE DEF answer, T
  <2>. QED  BY <2>5, <2>6 DEF answer
<1>. QED  BY <1>11, <1>12

(* Drivers come in the documented order, when no call overlaps the one that *)
(* sorts, ZE_ENABLE_PCI_ID_DEVICE_ORDER is for drivers of GPUs, and drivers *)
(* of GPUs and other devices have both kinds of GPUs.                       *)
THEOREM OrderIsDocumented ==
  ASSUME ~Together, GpusApart, PciForGpus
  PROVE  Spec => []DocumentedOrder
<1>1. Init => OrderInv
  BY OrderInit
<1>2. OrderInv /\ [Next]_vars => OrderInv'
  BY OrderStep
<1>3. OrderInv => DocumentedOrder
  BY OrderDocumented
<1>. QED  BY <1>1, <1>2, <1>3, PTL DEF Spec

=============================================================================
