------------------------- MODULE NonceCacheProofs -------------------------
(***************************************************************************)
(* The invariants of NonceCache, for any cosigners, threshold, times and   *)
(* bounds: what the operations do to the sequence of rounds, the inductive *)
(* invariant, and that every step preserves it.                            *)
(***************************************************************************)
EXTENDS NonceCache, FiniteSetTheorems, TLAPS

Round == [uuid : Nat, age : Nat, from : SUBSET Cosigners]

(* Thinning: d is what is left of c when some rounds are deleted; e says    *)
(* which one each of those that stay was.                                   *)
Thins(e, c, d) ==
    /\ e \in [1 .. Len(d) -> 1 .. Len(c)]
    /\ \A j, k \in 1 .. Len(d) : j < k => e[j] < e[k]
    /\ \A k \in 1 .. Len(d) : d[k].uuid = c[e[k]].uuid /\ d[k].age = c[e[k]].age

(* The cosigners of the rounds stay, too.                                   *)
Keeps(e, c, d) == \A k \in 1 .. Len(d) : d[k] = c[e[k]]

(* The rounds are in the order in which they were made.                     *)
Sorted(c) == \A i, j \in 1 .. Len(c) : i < j => c[i].age >= c[j].age

Distinct(c) == \A i, j \in 1 .. Len(c) : c[i].uuid = c[j].uuid => i = j

Younger(c, age) == \A i \in 1 .. Len(c) : c[i].age < age
Older(c, age) == \A i \in 1 .. Len(c) : age <= c[i].age
Known(c) == \A i \in 1 .. Len(c) : Cardinality(c[i].from) >= Threshold

-----------------------------------------------------------------------------
(* The inductive invariant.  The rounds are in order of age, so that        *)
(* pruning up to the first that has not expired leaves none that has.       *)
Typed ==
    /\ TypeOK /\ IsFiniteSet(outstanding)
    /\ load \in [n : 1 .. MaxTarget, age : 0 .. Timeout, total : Nat] \cup {Idle}

RoundsInv == Sorted(cache) /\ Distinct(cache) /\ Known(cache) /\ UUIDs(cache) \cap outstanding = {}

(* What was left by the last pruning has aged by the load that followed, at *)
(* most Timeout, and by what has run off the timer since.                   *)
AgeInv ==
    /\ load # Idle => Older(cache, load.age) /\ Younger(cache, Expiration + load.age)
    /\ load = Idle => Younger(cache, Expiration + Timeout + Interval - timer)

(* While LoadN waits, what it will store as lastReconcileNonces accounts    *)
(* for the rounds it will add.                                              *)
UseInv ==
    /\ load # Idle => load.total - (Len(cache) + load.n) \in 0 .. burn
    /\ load = Idle => last - Len(cache) \in 0 .. burn

IInv == Typed /\ RoundsInv /\ AgeInv /\ UseInv

-----------------------------------------------------------------------------
(* A set of numbers that is not empty has a least member.                   *)
LEMMA LeastNat ==
    ASSUME NEW S \in SUBSET Nat, S # {}
    PROVE  \E x \in S : \A y \in S : x <= y
<1>. DEFINE R == {ss \in Nat \X Nat : ss[1] < ss[2]}
<1>1. IsWellFoundedOn(R, Nat)
  BY NatLessThanWellFounded, Zenon DEF OpToRel
<1>2. \A y, x \in Nat : y < x => <<y, x>> \in R
  BY Zenon
<1>. HIDE DEF R
<1>3. PICK x \in S : \A y \in S : ~ (<<y, x>> \in R)
  BY <1>1, WFMin, Zenon
<1>4. ASSUME NEW y \in S PROVE x <= y
  <2>1. x \in Nat /\ y \in Nat
    BY Zenon
  <2>2. ~ (y < x)
    BY <1>2, <1>3, <2>1, Zenon
  <2>. QED
    BY <2>1, <2>2
<1>. QED
  BY <1>4, Zenon

(* Min finds it.                                                            *)
LEMMA MinIsLeast ==
    ASSUME NEW S \in SUBSET Nat, S # {}
    PROVE  Min(S) \in S /\ \A y \in S : Min(S) <= y
BY LeastNat, Zenon DEF Min

(* The numbers from 1 to n are n.                                           *)
LEMMA UpTo ==
    ASSUME NEW n \in Nat
    PROVE  IsFiniteSet(1 .. n) /\ Cardinality(1 .. n) = n
BY FS_Interval

(* What a part of a sequence holds.                                         *)
LEMMA PartOf ==
    ASSUME NEW S, NEW c \in Seq(S), NEW i \in 1 .. Len(c) + 1, NEW j \in 0 .. Len(c), i <= j + 1
    PROVE  /\ SubSeq(c, i, j) \in Seq(S) /\ Len(SubSeq(c, i, j)) = j - i + 1
           /\ \A k \in 1 .. j - i + 1 : SubSeq(c, i, j)[k] = c[i + k - 1]
OBVIOUS

(* What two sequences hold together.                                        *)
LEMMA BothOf ==
    ASSUME NEW S, NEW c \in Seq(S), NEW d \in Seq(S)
    PROVE  /\ c \o d \in Seq(S) /\ Len(c \o d) = Len(c) + Len(d)
           /\ \A k \in 1 .. Len(c) + Len(d) :
                 (c \o d)[k] = IF k <= Len(c) THEN c[k] ELSE d[k - Len(c)]
OBVIOUS

(* The fields of a round.                                                   *)
LEMMA RoundFields ==
    ASSUME NEW r \in Round
    PROVE  r.uuid \in Nat /\ r.age \in Nat /\ r.from \in SUBSET Cosigners
BY Zenon DEF Round

(* Cosigners and their subsets are finite.                                  *)
LEMMA FromIsFinite ==
    ASSUME NEW S \in SUBSET Cosigners
    PROVE  IsFiniteSet(S) /\ Cardinality(S) \in Nat
BY SizeAssumption, FS_AddElement, FS_Subset, FS_CardinalityType, Zenon DEF Cosigners

(* PruneNonces keeps the rounds from the first that has not expired on; in  *)
(* a sequence in order of age none of them has expired.                     *)
LEMMA PruneThins ==
    ASSUME NEW c \in Seq(Round), Sorted(c)
    PROVE  /\ PruneNonces(c) \in Seq(Round)
           /\ Len(PruneNonces(c)) <= Len(c)
           /\ \E e : Thins(e, c, PruneNonces(c)) /\ Keeps(e, c, PruneNonces(c))
           /\ \A k \in 1 .. Len(PruneNonces(c)) : PruneNonces(c)[k].age < Expiration
<1>. DEFINE live == {i \in DOMAIN c : c[i].age < Expiration}
            d == PruneNonces(c)
<1>1. CASE live = {}
  <2>1. d = <<>>
    BY <1>1, Zenon DEF PruneNonces
  <2>2. Thins([k \in 1 .. Len(d) |-> k], c, d) /\ Keeps([k \in 1 .. Len(d) |-> k], c, d)
    BY <2>1 DEF Thins, Keeps
  <2>. QED
    BY <2>1, <2>2
<1>2. CASE live # {}
  <2>. DEFINE m == Min(live)
  <2>1. live \in SUBSET Nat /\ live \subseteq 1 .. Len(c)
    OBVIOUS
  <2>2. m \in 1 .. Len(c) /\ c[m].age < Expiration
    <3>1. m \in live
      BY <1>2, <2>1, MinIsLeast, Zenon
    <3>. QED
      BY <3>1, <2>1, Zenon
  <2>3. d = SubSeq(c, m, Len(c))
    BY <1>2, Zenon DEF PruneNonces
  <2>. HIDE DEF m, live
  <2>4. m \in 1 .. Len(c) + 1 /\ Len(c) \in 0 .. Len(c) /\ m <= Len(c) + 1
    BY <2>2
  <2>5. /\ d \in Seq(Round) /\ Len(d) = Len(c) - m + 1
        /\ \A k \in 1 .. Len(d) : d[k] = c[m + k - 1]
    <3>. DEFINE t == SubSeq(c, m, Len(c))
    <3>1. /\ t \in Seq(Round) /\ Len(t) = Len(c) - m + 1
          /\ \A k \in 1 .. Len(c) - m + 1 : t[k] = c[m + k - 1]
      BY <2>4, PartOf, Zenon
    <3>2. d = t
      BY <2>3
    <3>. HIDE DEF d, t
    <3>. QED
      BY <3>1, <3>2
  <2>. HIDE DEF d
  <2>. DEFINE e == [k \in 1 .. Len(d) |-> m + k - 1]
  <2>6. Thins(e, c, d) /\ Keeps(e, c, d)
    BY <2>2, <2>5 DEF Thins, Keeps
  <2>7. \A k \in 1 .. Len(d) : d[k].age < Expiration
    <3>. SUFFICES ASSUME NEW k \in 1 .. Len(d)
                  PROVE  d[k].age < Expiration
      BY Zenon
    <3>1. m + k - 1 \in 1 .. Len(c) /\ (m + k - 1 = m \/ m < m + k - 1)
      BY <2>2, <2>5
    <3>2. c[m + k - 1].age \in Nat /\ c[m].age \in Nat
      BY <2>2, <3>1, RoundFields
    <3>3. c[m + k - 1].age <= c[m].age
      BY <2>2, <3>1, <3>2 DEF Sorted
    <3>4. d[k] = c[m + k - 1] /\ c[m].age < Expiration
      BY <2>2, <2>5, Zenon
    <3>5. Expiration \in Nat
      BY TimingAssumption
    <3>. QED
      BY <3>2, <3>3, <3>4, <3>5
  <2>. QED
    BY <2>2, <2>5, <2>6, <2>7 DEF d
<1>. QED
  BY <1>1, <1>2, Zenon

(* Delete takes one round out.                                              *)
LEMMA DeleteThins ==
    ASSUME NEW c \in Seq(Round), NEW i \in 1 .. Len(c)
    PROVE  /\ Delete(c, i) \in Seq(Round)
           /\ Len(Delete(c, i)) = Len(c) - 1
           /\ \E e : /\ Thins(e, c, Delete(c, i)) /\ Keeps(e, c, Delete(c, i))
                     /\ \A k \in 1 .. Len(Delete(c, i)) : e[k] # i
<1>. DEFINE d == Delete(c, i)
            a == SubSeq(c, 1, i - 1)
            b == SubSeq(c, i + 1, Len(c))
<1>1. a \in Seq(Round) /\ Len(a) = i - 1 /\ \A k \in 1 .. i - 1 : a[k] = c[k]
  <2>1. 1 \in 1 .. Len(c) + 1 /\ i - 1 \in 0 .. Len(c) /\ 1 <= (i - 1) + 1
    OBVIOUS
  <2>2. /\ a \in Seq(Round) /\ Len(a) = (i - 1) - 1 + 1
        /\ \A k \in 1 .. (i - 1) - 1 + 1 : a[k] = c[1 + k - 1]
    BY <2>1, PartOf, Zenon
  <2>. HIDE DEF a
  <2>. QED
    BY <2>2
<1>2. b \in Seq(Round) /\ Len(b) = Len(c) - i /\ \A k \in 1 .. Len(c) - i : b[k] = c[i + k]
  <2>1. i + 1 \in 1 .. Len(c) + 1 /\ Len(c) \in 0 .. Len(c) /\ i + 1 <= Len(c) + 1
    OBVIOUS
  <2>2. /\ b \in Seq(Round) /\ Len(b) = Len(c) - (i + 1) + 1
        /\ \A k \in 1 .. Len(c) - (i + 1) + 1 : b[k] = c[(i + 1) + k - 1]
    BY <2>1, PartOf, Zenon
  <2>. HIDE DEF b
  <2>. QED
    BY <2>2
<1>3. d = a \o b
  BY Zenon DEF Delete
<1>. HIDE DEF a, b, d
<1>4. /\ d \in Seq(Round) /\ Len(d) = Len(c) - 1
      /\ \A k \in 1 .. Len(d) : d[k] = IF k < i THEN c[k] ELSE c[k + 1]
  <2>1. /\ d \in Seq(Round) /\ Len(d) = Len(a) + Len(b)
        /\ \A k \in 1 .. Len(a) + Len(b) : d[k] = IF k <= Len(a) THEN a[k] ELSE b[k - Len(a)]
    BY <1>1, <1>2, <1>3, BothOf, Zenon
  <2>2. ASSUME NEW k \in 1 .. Len(d)
        PROVE  d[k] = IF k < i THEN c[k] ELSE c[k + 1]
    <3>1. CASE k < i
      <4>1. k \in 1 .. i - 1 /\ k \in 1 .. Len(a) + Len(b) /\ k <= Len(a)
        BY <1>1, <1>2, <2>1, <3>1
      <4>2. d[k] = a[k] /\ a[k] = c[k]
        BY <1>1, <2>1, <4>1, Zenon
      <4>. QED
        BY <3>1, <4>2, Zenon
    <3>2. CASE ~ k < i
      <4>1. /\ k - Len(a) \in 1 .. Len(c) - i /\ i + (k - Len(a)) = k + 1
            /\ k \in 1 .. Len(a) + Len(b) /\ ~ (k <= Len(a))
        BY <1>1, <1>2, <2>1, <3>2
      <4>2. d[k] = b[k - Len(a)] /\ b[k - Len(a)] = c[i + (k - Len(a))]
        BY <1>2, <2>1, <4>1, Zenon
      <4>3. d[k] = c[k + 1]
        BY <4>1, <4>2, Zenon
      <4>. QED
        BY <3>2, <4>3, Zenon
    <3>. QED
      BY <3>1, <3>2, Zenon
  <2>3. Len(a) + Len(b) = Len(c) - 1
    BY <1>1, <1>2
  <2>. QED
    BY <2>1, <2>2, <2>3, Zenon
<1>. DEFINE e == [k \in 1 .. Len(d) |-> IF k < i THEN k ELSE k + 1]
<1>5. Thins(e, c, d) /\ Keeps(e, c, d) /\ \A k \in 1 .. Len(d) : e[k] # i
  <2>1. \A k \in 1 .. Len(d) : e[k] \in 1 .. Len(c) /\ d[k] = c[e[k]] /\ e[k] # i
    <3>. SUFFICES ASSUME NEW k \in 1 .. Len(d)
                  PROVE  e[k] \in 1 .. Len(c) /\ d[k] = c[e[k]] /\ e[k] # i
      BY Zenon
    <3>1. /\ e[k] = IF k < i THEN k ELSE k + 1
          /\ d[k] = IF k < i THEN c[k] ELSE c[k + 1]
      BY <1>4, Zenon
    <3>2. d[k] = c[e[k]]
      BY <3>1, Zenon
    <3>3. Len(d) = Len(c) - 1 /\ Len(c) \in Nat
      BY <1>4
    <3>4. e[k] \in 1 .. Len(c) /\ e[k] # i
      BY <3>1, <3>3
    <3>. QED
      BY <3>2, <3>4, Zenon
  <2>2. \A j, k \in 1 .. Len(d) : j < k => e[j] < e[k]
    BY <1>4
  <2>3. e \in [1 .. Len(d) -> 1 .. Len(c)]
    BY <2>1, Zenon
  <2>. HIDE DEF e
  <2>. QED
    BY <2>1, <2>2, <2>3, Zenon DEF Thins, Keeps
<1>. QED
  BY <1>4, <1>5, Zenon DEF d

(* The members of a set of indices can be put in order.                     *)
LEMMA OrderExists ==
    ASSUME NEW n \in Nat, NEW I \in SUBSET (1 .. n)
    PROVE  \E f \in [1 .. Cardinality(I) -> I] : IsInOrder(f, I)
<1>. DEFINE Up(m) == I \cap (1 .. m)
            Good(m) == \E f \in [1 .. Cardinality(Up(m)) -> Up(m)] : IsInOrder(f, Up(m))
            Bad == {m \in 0 .. n : ~ Good(m)}
<1>1. Good(0)
  <2>1. Up(0) = {} /\ Cardinality(Up(0)) = 0
    <3>1. Up(0) = {}
      OBVIOUS
    <3>. QED
      BY <3>1, FS_EmptySet, Zenon
  <2>2. [k \in 1 .. 0 |-> k] \in [1 .. 0 -> {}] /\ IsInOrder([k \in 1 .. 0 |-> k], {})
    BY DEF IsInOrder
  <2>. QED
    BY <2>1, <2>2, Zenon
<1>2. ASSUME NEW m \in 1 .. n, Good(m - 1)
      PROVE  Good(m)
  <2>. DEFINE J == Up(m - 1)
              c == Cardinality(J)
  <2>1. IsFiniteSet(J) /\ c \in Nat
    <3>1. IsFiniteSet(1 .. (m - 1))
      BY FS_Interval
    <3>2. IsFiniteSet(J)
      BY <3>1, FS_Subset, Zenon
    <3>. QED
      BY <3>2, FS_CardinalityType, Zenon
  <2>2. PICK f \in [1 .. c -> J] : IsInOrder(f, J)
    BY <1>2, Zenon
  <2>3. CASE m \notin I
    <3>1. Up(m) = J
      BY <2>3
    <3>. QED
      BY <2>2, <3>1, Zenon
  <2>4. CASE m \in I
    <3>1. Up(m) = J \cup {m} /\ m \notin J
      BY <2>4
    <3>2. Cardinality(Up(m)) = c + 1
      BY <2>1, <3>1, FS_AddElement, Zenon
    <3>3. \A j \in J : j \in Nat /\ j < m
      OBVIOUS
    <3>. HIDE DEF J, c, Up
    <3>. DEFINE g == [k \in 1 .. c + 1 |-> IF k = c + 1 THEN m ELSE f[k]]
    <3>4. \A k \in 1 .. c : k \in 1 .. c + 1 /\ k # c + 1 /\ g[k] = f[k] /\ f[k] \in J
      BY <2>1
    <3>5. c + 1 \in 1 .. c + 1 /\ g[c + 1] = m /\ \A k \in 1 .. c + 1 : k \in 1 .. c \/ k = c + 1
      BY <2>1
    <3>6. DOMAIN f = 1 .. c /\ DOMAIN g = 1 .. c + 1
      BY Zenon
    <3>. HIDE DEF g
    <3>7. g \in [1 .. c + 1 -> J \cup {m}]
      <4>1. \A k \in 1 .. c + 1 : g[k] \in J \cup {m}
        BY <3>4, <3>5, Zenon
      <4>. QED
        BY <4>1, Zenon DEF g
    <3>8. \A i \in J \cup {m} : \E k \in 1 .. c + 1 : g[k] = i
      <4>1. \A i \in J : \E k \in 1 .. c : f[k] = i
        BY <2>2, <3>6, Zenon DEF IsInOrder
      <4>. QED
        BY <3>4, <3>5, <4>1, Zenon
    <3>9. \A j, k \in 1 .. c + 1 : j < k => g[j] < g[k]
      <4>. SUFFICES ASSUME NEW j \in 1 .. c + 1, NEW k \in 1 .. c + 1, j < k
                    PROVE  g[j] < g[k]
        BY Zenon
      <4>1. j \in 1 .. c
        BY <2>1
      <4>2. CASE k \in 1 .. c
        BY <2>2, <3>4, <3>6, <4>1, <4>2 DEF IsInOrder
      <4>3. CASE k = c + 1
        BY <3>3, <3>4, <3>5, <4>1, <4>3
      <4>. QED
        BY <3>5, <4>2, <4>3, Zenon
    <3>. QED
      BY <3>1, <3>2, <3>6, <3>7, <3>8, <3>9, Zenon DEF IsInOrder
  <2>. QED
    BY <2>3, <2>4, Zenon
<1>. HIDE DEF Good
<1>3. Bad = {}
  <2>. SUFFICES ASSUME Bad # {} PROVE FALSE
    BY Zenon
  <2>1. Bad \in SUBSET Nat
    OBVIOUS
  <2>2. PICK x \in Bad : \A y \in Bad : x <= y
    BY <2>1, LeastNat, Zenon
  <2>3. x \in 1 .. n /\ ~ Good(x)
    BY <1>1, <2>2
  <2>4. x - 1 \in 0 .. n /\ x - 1 \notin Bad
    BY <2>2, <2>3
  <2>. QED
    BY <1>2, <2>3, <2>4, Zenon
<1>4. Good(n)
  BY <1>3
<1>5. Up(n) = I
  BY Zenon
<1>. QED
  BY <1>4, <1>5, Zenon DEF Good

(* InOrder puts them in order, and there are no more than indices.          *)
LEMMA InOrderOrders ==
    ASSUME NEW n \in Nat, NEW I \in SUBSET (1 .. n)
    PROVE  /\ Cardinality(I) \in Nat /\ Cardinality(I) <= n
           /\ InOrder(I) \in [1 .. Cardinality(I) -> I]
           /\ \A j, k \in 1 .. Cardinality(I) : j < k => InOrder(I)[j] < InOrder(I)[k]
<1>1. IsFiniteSet(1 .. n) /\ Cardinality(1 .. n) = n
  BY UpTo, Zenon
<1>2. Cardinality(I) \in Nat /\ Cardinality(I) <= n
  BY <1>1, FS_Subset, FS_CardinalityType, Zenon
<1>3. InOrder(I) \in [1 .. Cardinality(I) -> I] /\ IsInOrder(InOrder(I), I)
  BY OrderExists, Zenon DEF InOrder
<1>4. DOMAIN InOrder(I) = 1 .. Cardinality(I)
  BY <1>3, Zenon
<1>. QED
  BY <1>2, <1>3, <1>4, Zenon DEF IsInOrder

(* ClearNonces thins the cache, and a threshold of cosigners is left in     *)
(* every round that stays, if it was there before.                          *)
LEMMA ClearThins ==
    ASSUME cache \in Seq(Round), NEW p
    PROVE  /\ ClearNonces(p) \in Seq(Round)
           /\ Len(ClearNonces(p)) <= Len(cache)
           /\ \E e : Thins(e, cache, ClearNonces(p))
           /\ CachedNoncesAreUsable =>
                 \A k \in 1 .. Len(ClearNonces(p)) : Cardinality(ClearNonces(p)[k].from) >= Threshold
<1>. DEFINE Usable(x) == p \notin x.from \/ Cardinality(x.from) - 1 >= Threshold
            I == {i \in DOMAIN cache : Usable(cache[i])}
            e == InOrder(I)
            n == Cardinality(I)
            d == ClearNonces(p)
<1>1. I \in SUBSET (1 .. Len(cache)) /\ Len(cache) \in Nat /\ \A i \in I : Usable(cache[i])
  OBVIOUS
<1>2. /\ n \in Nat /\ n <= Len(cache) /\ e \in [1 .. n -> I]
      /\ \A j, k \in 1 .. n : j < k => e[j] < e[k]
  <2>. HIDE DEF I
  <2>. QED
    BY <1>1, InOrderOrders, Zenon
<1>3. d = [k \in 1 .. n |-> [cache[e[k]] EXCEPT !.from = @ \ {p}]]
  <2>1. DOMAIN e = 1 .. n
    BY <1>2, Zenon
  <2>. QED
    BY <2>1, Zenon DEF ClearNonces
<1>4. \A i \in I : i \in 1 .. Len(cache) /\ cache[i] \in Round
  BY <1>1
<1>. HIDE DEF I, e, n, d, Usable
<1>5. ASSUME NEW k \in 1 .. n
      PROVE  /\ d[k] \in Round
             /\ d[k].uuid = cache[e[k]].uuid /\ d[k].age = cache[e[k]].age
             /\ d[k].from = cache[e[k]].from \ {p}
             /\ e[k] \in I
  <2>1. e[k] \in I /\ cache[e[k]] \in Round
    BY <1>2, <1>4, Zenon
  <2>2. d[k] = [cache[e[k]] EXCEPT !.from = @ \ {p}]
    BY <1>3, Zenon
  <2>. QED
    BY <2>1, <2>2, Zenon DEF Round
<1>6. d \in Seq(Round) /\ Len(d) = n
  <2>1. d \in [1 .. n -> Round]
    BY <1>3, <1>5, Zenon
  <2>. QED
    BY <1>2, <2>1
<1>7. Thins(e, cache, d)
  <2>1. e \in [1 .. n -> 1 .. Len(cache)]
    BY <1>2, <1>4, Zenon
  <2>. QED
    BY <1>2, <1>5, <1>6, <2>1 DEF Thins
<1>8. ASSUME CachedNoncesAreUsable, NEW k \in 1 .. n
      PROVE  Cardinality(d[k].from) >= Threshold
  <2>. DEFINE from == cache[e[k]].from
  <2>1. e[k] \in 1 .. Len(cache) /\ cache[e[k]] \in Round /\ Usable(cache[e[k]])
    BY <1>1, <1>4, <1>5, Zenon
  <2>2. from \in SUBSET Cosigners
    BY <2>1, RoundFields, Zenon
  <2>3. IsFiniteSet(from) /\ Cardinality(from) \in Nat
    BY <2>2, FromIsFinite, Zenon
  <2>4. Cardinality(from) >= Threshold
    BY <1>8, <2>1 DEF CachedNoncesAreUsable
  <2>5. Cardinality(from \ {p}) = IF p \in from THEN Cardinality(from) - 1 ELSE Cardinality(from)
    BY <2>3, FS_RemoveElement, Zenon
  <2>6. p \notin from \/ Cardinality(from) - 1 >= Threshold
    BY <2>1, Zenon DEF Usable
  <2>7. d[k].from = from \ {p}
    BY <1>5, Zenon
  <2>. HIDE DEF from
  <2>. QED
    BY <2>3, <2>4, <2>5, <2>6, <2>7
<1>. QED
  BY <1>2, <1>6, <1>7, <1>8 DEF d

(* The rounds in the cache have no more identities than there are rounds.   *)
LEMMA FewUUIDs ==
    ASSUME NEW c \in Seq(Round)
    PROVE  IsFiniteSet(UUIDs(c)) /\ Cardinality(UUIDs(c)) <= Len(c)
<1>. DEFINE f == [i \in 1 .. Len(c) |-> c[i].uuid]
<1>1. f \in Surjection(1 .. Len(c), UUIDs(c))
  BY DEF Surjection, UUIDs
<1>2. IsFiniteSet(1 .. Len(c)) /\ Cardinality(1 .. Len(c)) = Len(c)
  <2>1. Len(c) \in Nat
    OBVIOUS
  <2>. QED
    BY <2>1, UpTo, Zenon
<1>. HIDE DEF f
<1>. QED
  BY <1>1, <1>2, FS_Surjection

(* getUuids finds n identities, all different and none of them in use.      *)
LEMMA FreshUuids ==
    ASSUME cache \in Seq(Round), outstanding \subseteq Nat, IsFiniteSet(outstanding), NEW n \in Nat
    PROVE  /\ getUuids(n) \in [1 .. n -> Nat \ (UUIDs(cache) \cup outstanding)]
           /\ \A i, j \in 1 .. n : getUuids(n)[i] = getUuids(n)[j] => i = j
<1>. DEFINE used == UUIDs(cache) \cup outstanding
            N == Len(cache) + Cardinality(outstanding) + n
            free == (1 .. N) \ used
            m == Cardinality(free)
<1>1. IsFiniteSet(used) /\ Cardinality(used) \in Nat /\ Cardinality(used) <= Len(cache) + Cardinality(outstanding)
  <2>1. IsFiniteSet(UUIDs(cache)) /\ Cardinality(UUIDs(cache)) <= Len(cache)
    BY FewUUIDs, Zenon
  <2>2. IsFiniteSet(UUIDs(cache) \cap outstanding)
    BY <2>1, FS_Intersection, Zenon
  <2>3. /\ IsFiniteSet(used)
        /\ Cardinality(used) = Cardinality(UUIDs(cache)) + Cardinality(outstanding)
                                 - Cardinality(UUIDs(cache) \cap outstanding)
    BY <2>1, FS_Union, Zenon
  <2>. QED
    BY <2>1, <2>2, <2>3, FS_CardinalityType
<1>2. Len(cache) \in Nat /\ Cardinality(outstanding) \in Nat /\ N \in Nat
  BY FS_CardinalityType
<1>3. IsFiniteSet(1 .. N) /\ Cardinality(1 .. N) = N
  BY <1>2, UpTo, Zenon
<1>. HIDE DEF used, N
<1>4. IsFiniteSet(free) /\ m = N - Cardinality((1 .. N) \cap used)
  BY <1>3, FS_Difference, Zenon
<1>5. Cardinality((1 .. N) \cap used) \in Nat /\ Cardinality((1 .. N) \cap used) <= Cardinality(used)
  BY <1>1, FS_Intersection, FS_CardinalityType, Zenon
<1>6. m \in Nat /\ n <= m
  BY <1>1, <1>2, <1>4, <1>5, FS_CardinalityType DEF N
<1>7. PICK g \in Bijection(1 .. m, free) : TRUE
  BY <1>4, FS_CardinalityType, Zenon DEF ExistsBijection
<1>8. g \in [1 .. m -> free] /\ \A i, j \in 1 .. m : g[i] = g[j] => i = j
  BY <1>7, Zenon DEF Bijection, Injection, IsInjective
<1>. HIDE DEF m
<1>9. \A i \in 1 .. n : i \in 1 .. m
  BY <1>6
<1>10. [i \in 1 .. n |-> g[i]] \in [1 .. n -> free] /\ IsInjective([i \in 1 .. n |-> g[i]])
  <2>. HIDE DEF free
  <2>. QED
    BY <1>8, <1>9, Zenon DEF IsInjective
<1>11. getUuids(n) = CHOOSE u \in [1 .. n -> free] : IsInjective(u)
  BY Zenon DEF getUuids, free, used, N
<1>12. getUuids(n) \in [1 .. n -> free] /\ IsInjective(getUuids(n))
  <2>. HIDE DEF free
  <2>. QED
    BY <1>10, <1>11, Zenon
<1>13. DOMAIN getUuids(n) = 1 .. n
  BY <1>12, Zenon
<1>14. free \subseteq Nat \ used
  BY <1>2
<1>15. getUuids(n) \in [1 .. n -> Nat \ used]
  <2>. HIDE DEF free
  <2>. QED
    BY <1>12, <1>14, Zenon
<1>. QED
  BY <1>12, <1>13, <1>15, Zenon DEF IsInjective, used

(* What thinning leaves of the order, the identities and the ages.          *)
LEMMA ThinKeeps ==
    ASSUME NEW c \in Seq(Round), NEW d \in Seq(Round), NEW e, Thins(e, c, d)
    PROVE  /\ Sorted(c) => Sorted(d)
           /\ Distinct(c) => Distinct(d)
           /\ UUIDs(d) \subseteq UUIDs(c)
           /\ \A age : Younger(c, age) => Younger(d, age)
           /\ \A age : Older(c, age) => Older(d, age)
<1>1. \A k \in 1 .. Len(d) : e[k] \in 1 .. Len(c) /\ d[k].uuid = c[e[k]].uuid /\ d[k].age = c[e[k]].age
  BY Zenon DEF Thins
<1>2. \A j, k \in 1 .. Len(d) : j < k => e[j] < e[k]
  BY Zenon DEF Thins
<1>3. Sorted(c) => Sorted(d)
  BY <1>1, <1>2, Zenon DEF Sorted
<1>4. Distinct(c) => Distinct(d)
  <2>. SUFFICES ASSUME Distinct(c), NEW j \in 1 .. Len(d), NEW k \in 1 .. Len(d), d[j].uuid = d[k].uuid
                PROVE  j = k
    BY Zenon DEF Distinct
  <2>1. e[j] = e[k] /\ e[j] \in 1 .. Len(c)
    <3>1. e[j] \in 1 .. Len(c) /\ e[k] \in 1 .. Len(c) /\ c[e[j]].uuid = c[e[k]].uuid
      BY <1>1
    <3>. QED
      BY <3>1, Zenon DEF Distinct
  <2>2. ~ (j < k) /\ ~ (k < j)
    BY <1>1, <1>2, <2>1
  <2>. QED
    BY <2>2
<1>5. UUIDs(d) \subseteq UUIDs(c)
  <2>1. DOMAIN c = 1 .. Len(c) /\ DOMAIN d = 1 .. Len(d)
    OBVIOUS
  <2>. QED
    BY <1>1, <2>1, SMT DEF UUIDs
<1>6. \A age : (Younger(c, age) => Younger(d, age)) /\ (Older(c, age) => Older(d, age))
  BY <1>1, Zenon DEF Younger, Older
<1>. QED
  BY <1>3, <1>4, <1>5, <1>6

(* Rounds that stay as they are stay known to enough cosigners.             *)
LEMMA KeepKnown ==
    ASSUME NEW c, NEW d, NEW e, Thins(e, c, d), Keeps(e, c, d), Known(c)
    PROVE  Known(d)
BY Zenon DEF Thins, Keeps, Known

(* The numbers the steps compute with.                                      *)
LEMMA Numbers ==
    ASSUME Typed
    PROVE  /\ timer \in 0 .. Interval /\ asked \in 0 .. MaxAsked /\ last \in Nat /\ burn \in Nat
           /\ Len(cache) \in Nat
           /\ Expiration \in Nat /\ Expiration > 0 /\ Timeout \in Nat /\ Interval \in Nat /\ Interval > 0
           /\ MaxTarget \in Nat /\ MaxAsked \in Nat /\ Threshold \in Nat
<1>1. Threshold \in Nat
  <2>1. Cardinality(Cosigners) \in Nat
    BY FromIsFinite, Zenon
  <2>. QED
    BY <2>1, SizeAssumption
<1>2. Len(cache) \in Nat
  BY DEF Typed, TypeOK
<1>3. /\ Expiration \in Nat /\ Expiration > 0 /\ Timeout \in Nat /\ Interval \in Nat /\ Interval > 0
      /\ MaxTarget \in Nat /\ MaxAsked \in Nat
  BY SizeAssumption, TimingAssumption
<1>4. last \in Nat /\ burn \in Nat /\ timer \in 0 .. Interval /\ asked \in 0 .. MaxAsked
  BY Zenon DEF Typed, TypeOK
<1>. QED
  BY <1>1, <1>2, <1>3, <1>4

(* The load under way.                                                      *)
LEMMA LoadFields ==
    ASSUME Typed, load # Idle
    PROVE  load.n \in 1 .. MaxTarget /\ load.age \in 0 .. Timeout /\ load.total \in Nat
BY Zenon DEF Typed

(* The rounds in the cache and those handed out.                            *)
LEMMA CacheFacts ==
    ASSUME Typed
    PROVE  /\ cache \in Seq(Round) /\ DOMAIN cache = 1 .. Len(cache)
           /\ outstanding \subseteq Nat /\ IsFiniteSet(outstanding)
<1>1. cache \in Seq(Round)
  BY Zenon DEF Typed, TypeOK, Round
<1>. QED
  BY <1>1 DEF Typed, TypeOK

(* A load is not Idle.                                                      *)
LEMMA LoadIsNotIdle ==
    ASSUME NEW l \in [n : 1 .. MaxTarget, age : 0 .. Timeout, total : Nat]
    PROVE  l # Idle
BY IdleAssumption

(* Initially nothing is cached.                                             *)
LEMMA InitInv == Init => IInv
<1>. SUFFICES ASSUME Init PROVE IInv
  BY Zenon
<1>1. Typed
  <2>1. cache \in Seq([uuid : Nat, age : Nat, from : SUBSET Cosigners])
    BY DEF Init
  <2>2. IsFiniteSet(outstanding)
    BY FS_EmptySet, Zenon DEF Init
  <2>3. timer \in 0 .. Interval /\ asked \in 0 .. MaxAsked /\ {last, burn} \subseteq Nat /\ outstanding \subseteq Nat
    BY SizeAssumption DEF Init
  <2>4. rtt \in [Peers -> {-1, 1}]
    BY Zenon DEF Init
  <2>5. leader \in BOOLEAN /\ down \subseteq Peers /\ empty \in BOOLEAN /\ load = Idle
    BY Zenon DEF Init
  <2>. QED
    BY <2>1, <2>2, <2>3, <2>4, <2>5, Zenon DEF Typed, TypeOK
<1>2. Len(cache) = 0 /\ cache = <<>>
  BY Zenon DEF Init
<1>3. RoundsInv
  BY <1>2 DEF RoundsInv, Sorted, Distinct, Known, UUIDs
<1>4. AgeInv /\ UseInv
  <2>1. load = Idle /\ last = 0 /\ burn = 0
    BY Zenon DEF Init
  <2>. QED
    BY <1>2, <2>1 DEF AgeInv, UseInv, Younger
<1>. QED
  BY <1>1, <1>3, <1>4, Zenon DEF IInv

-----------------------------------------------------------------------------
(* A step that leaves the cache, the load and the counts alone.             *)
LEMMA QuietStep ==
    ASSUME IInv, Typed', UNCHANGED <<cache, timer, load, rateVars, outstanding>>
    PROVE  IInv'
<1>1. cache' = cache /\ timer' = timer /\ load' = load /\ last' = last /\ burn' = burn /\ outstanding' = outstanding
  BY Zenon DEF rateVars
<1>2. RoundsInv'
  BY <1>1, Zenon DEF IInv, RoundsInv
<1>3. AgeInv' /\ UseInv'
  BY <1>1, Zenon DEF IInv, AgeInv, UseInv
<1>. QED
  BY <1>2, <1>3, Zenon DEF IInv

(* updateRTT touches the health of one peer only.                           *)
LEMMA UpdateRTTStep ==
    ASSUME IInv, NEW p \in Peers, updateRTT(p)
    PROVE  IInv'
<1>1. rtt' \in [Peers -> {-1, 1}]
  <2>1. PICK r \in {-1, 1} : rtt' = [rtt EXCEPT ![p] = r]
    BY Zenon DEF updateRTT
  <2>. QED
    BY <2>1, Zenon DEF IInv, Typed, TypeOK
<1>2. UNCHANGED <<leader, down, cache, empty, timer, load, last, burn, outstanding, asked>>
  BY Zenon DEF updateRTT, rateVars
<1>3. Typed'
  BY <1>1, <1>2, Zenon DEF IInv, Typed, TypeOK
<1>. QED
  BY <1>2, <1>3, QuietStep, Zenon DEF rateVars

(* A peer that goes down or comes back changes nothing in the cache.        *)
LEMMA ChangePeerStep ==
    ASSUME IInv, NEW p \in Peers, ChangePeer(p)
    PROVE  IInv'
<1>1. UNCHANGED <<leader, rtt, cache, empty, timer, load, last, burn, outstanding, asked>>
  BY Zenon DEF ChangePeer, rateVars
<1>2. down' \subseteq Peers
  BY Zenon DEF ChangePeer, IInv, Typed, TypeOK
<1>3. Typed'
  BY <1>1, <1>2, Zenon DEF IInv, Typed, TypeOK
<1>. QED
  BY <1>1, <1>3, QuietStep, Zenon DEF rateVars

(* Nor does a change of leaders.                                            *)
LEMMA ChangeLeaderStep ==
    ASSUME IInv, ChangeLeader
    PROVE  IInv'
<1>1. UNCHANGED <<down, rtt, cache, empty, timer, load, last, burn, outstanding, asked>>
  BY Zenon DEF ChangeLeader, rateVars, healthVars
<1>2. leader' \in BOOLEAN
  BY Zenon DEF ChangeLeader
<1>3. Typed'
  BY <1>1, <1>2, Zenon DEF IInv, Typed, TypeOK
<1>. QED
  BY <1>1, <1>3, QuietStep, Zenon DEF rateVars

(* An attempt that is over gives its round up for good.                     *)
LEMMA AttemptEndsStep ==
    ASSUME IInv, NEW u \in outstanding, AttemptEnds(u)
    PROVE  IInv'
<1>1. UNCHANGED <<leader, down, rtt, cache, empty, timer, load, last, burn, asked>>
  BY Zenon DEF AttemptEnds, rateVars, healthVars
<1>2. outstanding' = outstanding \ {u}
  BY Zenon DEF AttemptEnds
<1>3. IsFiniteSet(outstanding') /\ outstanding' \subseteq outstanding
  BY <1>2, FS_RemoveElement, Zenon DEF IInv, Typed
<1>4. Typed'
  <2>1. outstanding' \subseteq Nat
    BY <1>3, Zenon DEF IInv, Typed, TypeOK
  <2>. QED
    BY <1>1, <1>3, <2>1, Zenon DEF IInv, Typed, TypeOK
<1>5. RoundsInv'
  <2>1. UUIDs(cache') \cap outstanding' = {}
    BY <1>1, <1>3, Zenon DEF IInv, RoundsInv
  <2>. QED
    BY <1>1, <2>1, Zenon DEF IInv, RoundsInv
<1>6. AgeInv' /\ UseInv'
  BY <1>1, Zenon DEF IInv, AgeInv, UseInv
<1>. QED
  BY <1>4, <1>5, <1>6, Zenon DEF IInv

(* An attempt that finds no round is counted as a round used.               *)
LEMMA NoNoncesStep ==
    ASSUME IInv, NEW Q, NoNonces(Q)
    PROVE  IInv'
<1>1. UNCHANGED <<leader, down, rtt, cache, empty, timer, load>>
  BY Zenon DEF NoNonces, healthVars
<1>2. last' = last + 1 /\ burn' = burn + 1 /\ asked' = asked + 1 /\ asked < MaxAsked
  BY Zenon DEF NoNonces
<1>3. Typed /\ UseInv
  BY Zenon DEF IInv
<1>4. asked \in 0 .. MaxAsked /\ MaxAsked \in Nat /\ last \in Nat /\ burn \in Nat /\ Len(cache) \in Nat
  BY <1>3, Numbers, Zenon
<1>4a. outstanding' \subseteq Nat /\ IsFiniteSet(outstanding') /\ UUIDs(cache') \cap outstanding' = {}
  <2>. DEFINE u == getUuids(1)[1]
  <2>1. outstanding \subseteq Nat /\ IsFiniteSet(outstanding) /\ cache \in Seq(Round)
    BY <1>3, CacheFacts, Zenon DEF Typed, TypeOK
  <2>2. UUIDs(cache) \cap outstanding = {}
    BY Zenon DEF IInv, RoundsInv
  <2>3. 1 \in Nat /\ 1 \in 1 .. 1
    OBVIOUS
  <2>4. u \in Nat /\ u \notin UUIDs(cache)
    BY <2>1, <2>3, FreshUuids, Zenon
  <2>. HIDE DEF u
  <2>5. IsFiniteSet(outstanding \cup {u})
    BY <2>1, FS_AddElement, Zenon
  <2>6. outstanding' = outstanding \/ outstanding' = outstanding \cup {u}
    BY Zenon DEF NoNonces, u
  <2>7. UUIDs(cache') = UUIDs(cache)
    BY <1>1, Zenon DEF UUIDs
  <2>. QED
    BY <2>1, <2>2, <2>4, <2>5, <2>6, <2>7, Zenon
<1>5. Typed'
  <2>1. {last', burn'} \subseteq Nat /\ asked' \in 0 .. MaxAsked
    BY <1>2, <1>4
  <2>. QED
    BY <1>1, <1>3, <1>4a, <2>1, Zenon DEF Typed, TypeOK
<1>6. RoundsInv' /\ AgeInv'
  BY <1>1, <1>4a, Zenon DEF IInv, RoundsInv, AgeInv
<1>7. UseInv'
  <2>1. CASE load = Idle
    <3>1. last' - Len(cache) \in 0 .. burn'
      BY <1>2, <1>3, <1>4, <2>1 DEF UseInv
    <3>. QED
      BY <1>1, <2>1, <3>1, Zenon DEF UseInv
  <2>2. CASE load # Idle
    <3>1. load.n \in Nat /\ load.total \in Nat
      BY <1>3, <2>2, LoadFields
    <3>2. load.total - (Len(cache) + load.n) \in 0 .. burn'
      BY <1>2, <1>3, <1>4, <2>2, <3>1 DEF UseInv
    <3>. QED
      BY <1>1, <2>2, <3>2, Zenon DEF UseInv
  <2>. QED
    BY <2>1, <2>2, Zenon
<1>. QED
  BY <1>5, <1>6, <1>7, Zenon DEF IInv

(* GetNonces hands the first round out that the attempt can use.            *)
LEMMA GetNoncesStep ==
    ASSUME IInv, NEW Q, GetNonces(Q)
    PROVE  IInv'
<1>. DEFINE found == {i \in DOMAIN cache : Q \subseteq cache[i].from}
            m == Min(found)
<1>1. UNCHANGED <<leader, down, rtt, timer, load, last>>
  BY Zenon DEF GetNonces, healthVars
<1>2. /\ found # {} /\ asked < MaxAsked /\ asked' = asked + 1 /\ burn' = burn + 1
      /\ cache' = Delete(cache, m) /\ empty' = (empty \/ cache' = <<>>)
      /\ outstanding' = outstanding \cup {cache[m].uuid}
  BY Zenon DEF GetNonces
<1>3. Typed /\ RoundsInv /\ AgeInv /\ UseInv
  BY Zenon DEF IInv
<1>4. asked \in 0 .. MaxAsked /\ MaxAsked \in Nat /\ last \in Nat /\ burn \in Nat /\ Len(cache) \in Nat
  BY <1>3, Numbers, Zenon
<1>5. /\ cache \in Seq(Round) /\ DOMAIN cache = 1 .. Len(cache)
      /\ outstanding \subseteq Nat /\ IsFiniteSet(outstanding)
  BY <1>3, CacheFacts, Zenon
<1>6. m \in 1 .. Len(cache)
  <2>1. found \in SUBSET Nat /\ found \subseteq 1 .. Len(cache)
    BY <1>5
  <2>. HIDE DEF found
  <2>. QED
    BY <1>2, <2>1, MinIsLeast, Zenon
<1>. HIDE DEF m
<1>7. cache[m] \in Round /\ cache[m].uuid \in Nat
  BY <1>5, <1>6, RoundFields
<1>8. cache' \in Seq(Round) /\ Len(cache') = Len(cache) - 1
  BY <1>2, <1>5, <1>6, DeleteThins, Zenon
<1>9. PICK e : /\ Thins(e, cache, cache') /\ Keeps(e, cache, cache')
               /\ \A k \in 1 .. Len(cache') : e[k] # m
  BY <1>2, <1>5, <1>6, DeleteThins
<1>10. Typed'
  <2>1. burn' \in Nat /\ asked' \in 0 .. MaxAsked
    BY <1>2, <1>4
  <2>2. outstanding' \subseteq Nat /\ IsFiniteSet(outstanding')
    BY <1>2, <1>5, <1>7, FS_AddElement, Zenon
  <2>3. empty' \in BOOLEAN
    BY <1>2, <1>3, Zenon DEF Typed, TypeOK
  <2>4. {last', burn'} \subseteq Nat
    BY <1>1, <1>4, <2>1, Zenon
  <2>. QED
    BY <1>1, <1>3, <1>8, <2>1, <2>2, <2>3, <2>4, Zenon DEF Typed, TypeOK, Round
<1>11. RoundsInv'
  <2>1. Sorted(cache') /\ Distinct(cache') /\ UUIDs(cache') \subseteq UUIDs(cache)
    BY <1>3, <1>5, <1>8, <1>9, ThinKeeps, Zenon DEF RoundsInv
  <2>2. Known(cache')
    BY <1>3, <1>9, KeepKnown, Zenon DEF RoundsInv
  <2>3. cache[m].uuid \notin UUIDs(cache')
    <3>. SUFFICES ASSUME NEW k \in 1 .. Len(cache'), cache'[k].uuid = cache[m].uuid
                  PROVE  FALSE
      <4>1. DOMAIN cache' = 1 .. Len(cache')
        BY <1>8
      <4>. QED
        BY <4>1, Zenon DEF UUIDs
    <3>1. e[k] \in 1 .. Len(cache) /\ cache[e[k]].uuid = cache[m].uuid
      BY <1>9, Zenon DEF Thins
    <3>. QED
      BY <1>3, <1>6, <1>9, <3>1, Zenon DEF RoundsInv, Distinct
  <2>4. UUIDs(cache') \cap outstanding' = {}
    BY <1>2, <1>3, <2>1, <2>3, Zenon DEF RoundsInv
  <2>. QED
    BY <2>1, <2>2, <2>4, Zenon DEF RoundsInv
<1>12. AgeInv'
  <2>1. \A age : (Younger(cache, age) => Younger(cache', age)) /\ (Older(cache, age) => Older(cache', age))
    BY <1>5, <1>8, <1>9, ThinKeeps, Zenon
  <2>. QED
    BY <1>1, <1>3, <2>1, Zenon DEF AgeInv
<1>13. UseInv'
  <2>1. CASE load = Idle
    <3>1. last - Len(cache') \in 0 .. burn'
      BY <1>2, <1>3, <1>4, <1>8, <2>1 DEF UseInv
    <3>. QED
      BY <1>1, <2>1, <3>1, Zenon DEF UseInv
  <2>2. CASE load # Idle
    <3>1. load.n \in Nat /\ load.total \in Nat
      BY <1>3, <2>2, LoadFields
    <3>2. load.total - (Len(cache') + load.n) \in 0 .. burn'
      BY SMTT(30), <1>2, <1>3, <1>4, <1>8, <2>2, <3>1 DEF UseInv
    <3>. QED
      BY <1>1, <2>2, <3>2, Zenon DEF UseInv
  <2>. QED
    BY <2>1, <2>2
<1>. QED
  BY <1>10, <1>11, <1>12, <1>13, Zenon DEF IInv

(* A cosigner that fails is taken off the rounds, and those it was needed   *)
(* for are given up.                                                        *)
LEMMA CosignerFailsStep ==
    ASSUME IInv, NEW c \in Cosigners, CosignerFails(c)
    PROVE  IInv'
<1>1. UNCHANGED <<leader, down, empty, timer, load, last, outstanding, asked>>
  BY Zenon DEF CosignerFails
<1>2. cache' = ClearNonces(c) /\ burn' = burn + Len(cache) - Len(cache')
  BY Zenon DEF CosignerFails
<1>3. Typed /\ RoundsInv /\ AgeInv /\ UseInv
  BY Zenon DEF IInv
<1>4. last \in Nat /\ burn \in Nat /\ Len(cache) \in Nat
  BY <1>3, Numbers, Zenon
<1>5. cache \in Seq(Round) /\ DOMAIN cache = 1 .. Len(cache)
  BY <1>3, CacheFacts, Zenon
<1>6. CachedNoncesAreUsable
  BY <1>3, <1>5, Zenon DEF RoundsInv, Known, CachedNoncesAreUsable
<1>7. /\ cache' \in Seq(Round) /\ Len(cache') <= Len(cache) /\ Known(cache')
  BY <1>2, <1>5, <1>6, ClearThins, Zenon DEF Known
<1>8. PICK e : Thins(e, cache, cache')
  BY <1>2, <1>5, ClearThins, Zenon
<1>9. Len(cache') \in Nat
  BY <1>7
<1>10. Typed'
  <2>1. {last', burn'} \subseteq Nat
    BY <1>1, <1>2, <1>4, <1>7, <1>9
  <2>2. rtt' \in [Peers -> {-1, 1}]
    <3>1. rtt \in [Peers -> {-1, 1}]
      BY <1>3, Zenon DEF Typed, TypeOK
    <3>2. rtt' = rtt \/ rtt' = [rtt EXCEPT ![c] = -1]
      BY Zenon DEF CosignerFails
    <3>. QED
      BY <3>1, <3>2
  <2>. QED
    BY <1>1, <1>3, <1>7, <2>1, <2>2, Zenon DEF Typed, TypeOK, Round
<1>11. /\ Sorted(cache') /\ Distinct(cache') /\ UUIDs(cache') \subseteq UUIDs(cache)
       /\ \A age : (Younger(cache, age) => Younger(cache', age)) /\ (Older(cache, age) => Older(cache', age))
  BY <1>3, <1>5, <1>7, <1>8, ThinKeeps, Zenon DEF RoundsInv
<1>12. RoundsInv'
  <2>1. UUIDs(cache') \cap outstanding' = {}
    BY <1>1, <1>3, <1>11, Zenon DEF RoundsInv
  <2>. QED
    BY <1>7, <1>11, <2>1, Zenon DEF RoundsInv
<1>13. AgeInv'
  BY <1>1, <1>3, <1>11, Zenon DEF AgeInv
<1>14. UseInv'
  <2>1. CASE load = Idle
    <3>1. last - Len(cache') \in 0 .. burn'
      BY <1>2, <1>3, <1>4, <1>7, <1>9, <2>1 DEF UseInv
    <3>. QED
      BY <1>1, <2>1, <3>1, Zenon DEF UseInv
  <2>2. CASE load # Idle
    <3>1. load.n \in Nat /\ load.total \in Nat
      BY <1>3, <2>2, LoadFields
    <3>2. load.total - (Len(cache) + load.n) \in 0 .. burn
      BY <1>3, <2>2, Zenon DEF UseInv
    <3>3. load.total - (Len(cache') + load.n) \in 0 .. burn'
      <4>. DEFINE n == load.n
                  total == load.total
      <4>1. n \in Nat /\ total \in Nat /\ total - (Len(cache) + n) \in 0 .. burn
        BY <3>1, <3>2, Zenon
      <4>. HIDE DEF n, total
      <4>2. total - (Len(cache') + n) \in 0 .. burn'
        BY <1>2, <1>4, <1>7, <1>9, <4>1
      <4>. QED
        BY <4>2, Zenon DEF n, total
    <3>. QED
      BY <1>1, <2>2, <3>3, Zenon DEF UseInv
  <2>. QED
    BY <2>1, <2>2, Zenon
<1>. QED
  BY <1>10, <1>12, <1>13, <1>14, Zenon DEF IInv

(* LoadN adds rounds that are younger than all others.                      *)
LEMMA LoadNStep ==
    ASSUME IInv, LoadN
    PROVE  IInv'
<1>. DEFINE answered == Cosigners \ down
            n == load.n
            uuids == getUuids(n)
            rounds == [i \in 1 .. n |-> [uuid |-> uuids[i], age |-> load.age, from |-> answered]]
            total == load.total
<1>1. UNCHANGED <<leader, down, rtt, empty, outstanding, asked>> /\ load # Idle /\ load' = Idle
  BY Zenon DEF LoadN, healthVars
<1>2. last' = total /\ timer' = Interval
  BY Zenon DEF LoadN
<1>3. Typed /\ RoundsInv /\ AgeInv /\ UseInv
  BY Zenon DEF IInv
<1>4. last \in Nat /\ burn \in Nat /\ Len(cache) \in Nat
  BY <1>3, Numbers, Zenon
<1>5. Expiration \in Nat /\ Expiration > 0 /\ Timeout \in Nat /\ Interval \in Nat
  BY <1>3, Numbers, Zenon
<1>6. /\ cache \in Seq(Round) /\ DOMAIN cache = 1 .. Len(cache)
      /\ outstanding \subseteq Nat /\ IsFiniteSet(outstanding)
  BY <1>3, CacheFacts, Zenon
<1>7. n \in Nat /\ load.age \in 0 .. Timeout /\ total \in Nat
  BY <1>1, <1>3, LoadFields
<1>8. total - (Len(cache) + n) \in 0 .. burn /\ Older(cache, load.age) /\ Younger(cache, Expiration + load.age)
  BY <1>1, <1>3, Zenon DEF UseInv, AgeInv
<1>9. load.age \in Nat /\ Interval' = Interval /\ Expiration + load.age <= Expiration + Timeout + Interval - Interval
  BY <1>5, <1>7
<1>10. ASSUME NEW c \in Seq(Round), Younger(c, Expiration + load.age)
       PROVE  Younger(c, Expiration + Timeout + Interval - Interval)
  <2>1. \A i \in 1 .. Len(c) : c[i].age \in Nat
    BY RoundFields
  <2>. QED
    BY <1>5, <1>9, <1>10, <2>1 DEF Younger
<1>11. ASSUME cache' \in Seq(Round), burn' \in Nat, RoundsInv', Younger(cache', Expiration + load.age),
              total - Len(cache') \in 0 .. burn'
       PROVE  IInv'
  <2>1. {last', burn'} \subseteq Nat
    BY <1>2, <1>7, <1>11
  <2>2. timer' \in 0 .. Interval
    BY <1>2, <1>5
  <2>3. Typed'
    BY <1>1, <1>3, <1>11, <2>1, <2>2, Zenon DEF Typed, TypeOK, Round
  <2>4. AgeInv'
    BY <1>1, <1>2, <1>10, <1>11, Zenon DEF AgeInv
  <2>5. UseInv'
    BY <1>1, <1>2, <1>11, Zenon DEF UseInv
  <2>. QED
    BY <1>11, <2>3, <2>4, <2>5, Zenon DEF IInv
<1>12. CASE ~ Enough(answered)
  <2>1. cache' = cache /\ burn' = burn + n
    BY <1>12, Zenon DEF LoadN
  <2>2. burn' \in Nat /\ total - Len(cache') \in 0 .. burn'
    <3>. HIDE DEF n, total
    <3>. QED
      BY <1>4, <1>7, <1>8, <2>1
  <2>3. RoundsInv'
    BY <1>1, <1>3, <2>1, Zenon DEF RoundsInv
  <2>. QED
    BY <1>6, <1>8, <1>11, <2>1, <2>2, <2>3, Zenon
<1>13. CASE Enough(answered)
  <2>1. cache' = cache \o rounds /\ burn' = burn
    BY <1>13, Zenon DEF LoadN
  <2>2. /\ uuids \in [1 .. n -> Nat \ (UUIDs(cache) \cup outstanding)]
        /\ \A i, j \in 1 .. n : uuids[i] = uuids[j] => i = j
    BY <1>6, <1>7, FreshUuids, Zenon
  <2>. HIDE DEF n, uuids, total, answered
  <2>3. \A i \in 1 .. n : /\ rounds[i].uuid = uuids[i] /\ rounds[i].age = load.age /\ rounds[i].from = answered
                          /\ uuids[i] \in Nat /\ uuids[i] \notin UUIDs(cache) /\ uuids[i] \notin outstanding
    BY <2>2, Zenon
  <2>4. rounds \in Seq(Round) /\ Len(rounds) = n
    <3>1. answered \in SUBSET Cosigners
      BY Zenon DEF answered
    <3>2. \A i \in 1 .. n : [uuid |-> uuids[i], age |-> load.age, from |-> answered] \in Round
      BY <1>9, <2>3, <3>1, Zenon DEF Round
    <3>. QED
      BY <1>7, <3>2
  <2>. HIDE DEF rounds
  <2>5. /\ cache' \in Seq(Round) /\ Len(cache') = Len(cache) + n
        /\ \A i \in 1 .. Len(cache) + n : cache'[i] = IF i <= Len(cache) THEN cache[i] ELSE rounds[i - Len(cache)]
    BY <1>6, <2>1, <2>4, BothOf, Zenon
  <2>6. \A i \in 1 .. Len(cache) : i \in 1 .. Len(cache') /\ cache'[i] = cache[i]
    BY <1>4, <1>7, <2>5
  <2>7. \A i \in 1 .. Len(cache') :
            \/ i \in 1 .. Len(cache)
            \/ i > Len(cache) /\ i - Len(cache) \in 1 .. n /\ cache'[i] = rounds[i - Len(cache)]
    BY <1>4, <1>7, <2>5
  <2>8. Younger(cache', Expiration + load.age)
    <3>. SUFFICES ASSUME NEW i \in 1 .. Len(cache') PROVE cache'[i].age < Expiration + load.age
      BY Zenon DEF Younger
    <3>1. CASE i \in 1 .. Len(cache)
      BY <1>8, <2>6, <3>1, Zenon DEF Younger
    <3>2. CASE i > Len(cache) /\ i - Len(cache) \in 1 .. n /\ cache'[i] = rounds[i - Len(cache)]
      <4>1. cache'[i].age = load.age
        BY <2>3, <3>2, Zenon
      <4>. QED
        BY <1>5, <1>9, <4>1
    <3>. QED
      BY <2>7, <3>1, <3>2, Zenon
  <2>9. Sorted(cache')
    <3>. SUFFICES ASSUME NEW i \in 1 .. Len(cache'), NEW j \in 1 .. Len(cache'), i < j
                  PROVE  cache'[i].age >= cache'[j].age
      BY Zenon DEF Sorted
    <3>1. CASE i \in 1 .. Len(cache) /\ j \in 1 .. Len(cache)
      BY <1>3, <2>6, <3>1, Zenon DEF RoundsInv, Sorted
    <3>2. CASE i \in 1 .. Len(cache) /\ j \notin 1 .. Len(cache)
      <4>1. cache'[j].age = load.age
        BY <2>3, <2>7, <3>2, Zenon
      <4>2. cache'[i] = cache[i] /\ load.age <= cache[i].age
        BY <1>8, <2>6, <3>2, Zenon DEF Older
      <4>3. cache[i].age \in Nat
        BY <1>6, <3>2, RoundFields
      <4>. QED
        BY <1>9, <4>1, <4>2, <4>3
    <3>3. CASE i \notin 1 .. Len(cache)
      <4>1. j \notin 1 .. Len(cache)
        BY <1>4, <2>5, <2>7, <3>3
      <4>2. cache'[i].age = load.age /\ cache'[j].age = load.age
        BY <2>3, <2>7, <3>3, <4>1, Zenon
      <4>. QED
        BY <1>9, <4>2
    <3>. QED
      BY <3>1, <3>2, <3>3, Zenon
  <2>10. DOMAIN cache' = 1 .. Len(cache') /\ UUIDs(cache) = {cache[i].uuid : i \in 1 .. Len(cache)}
    BY <1>6, <2>5 DEF UUIDs
  <2>11. \A i \in 1 .. Len(cache) : cache'[i].uuid \in UUIDs(cache) /\ cache'[i].uuid \notin outstanding
    <3>1. \A i \in 1 .. Len(cache) : cache'[i].uuid \in UUIDs(cache)
      BY <2>6, <2>10, Zenon
    <3>. QED
      BY <1>3, <3>1, Zenon DEF RoundsInv
  <2>12. \A i \in 1 .. Len(cache') : i \notin 1 .. Len(cache) =>
              /\ i - Len(cache) \in 1 .. n /\ cache'[i].uuid = uuids[i - Len(cache)] /\ cache'[i].from = answered
              /\ cache'[i].uuid \notin UUIDs(cache) /\ cache'[i].uuid \notin outstanding
    BY <2>3, <2>7, Zenon
  <2>13. Distinct(cache')
    <3>. SUFFICES ASSUME NEW i \in 1 .. Len(cache'), NEW j \in 1 .. Len(cache'), cache'[i].uuid = cache'[j].uuid
                  PROVE  i = j
      BY Zenon DEF Distinct
    <3>1. CASE i \in 1 .. Len(cache) /\ j \in 1 .. Len(cache)
      BY <1>3, <2>6, <3>1, Zenon DEF RoundsInv, Distinct
    <3>2. CASE i \notin 1 .. Len(cache) /\ j \notin 1 .. Len(cache)
      <4>1. i - Len(cache) = j - Len(cache)
        BY <2>2, <2>12, <3>2, Zenon
      <4>. QED
        BY <1>4, <2>5, <1>7, <4>1
    <3>. QED
      BY <2>11, <2>12, <3>1, <3>2, Zenon
  <2>14. Known(cache')
    <3>1. Cardinality(answered) >= Threshold
      BY <1>13, Zenon DEF Enough
    <3>. QED
      BY <1>3, <2>6, <2>12, <3>1, Zenon DEF RoundsInv, Known
  <2>15. UUIDs(cache') \cap outstanding' = {}
    <3>1. \A i \in 1 .. Len(cache') : cache'[i].uuid \notin outstanding
      BY <2>11, <2>12, Zenon
    <3>. QED
      BY <1>1, <2>10, <3>1, Zenon DEF UUIDs
  <2>16. RoundsInv'
    BY <2>9, <2>13, <2>14, <2>15, Zenon DEF RoundsInv
  <2>17. burn' \in Nat /\ total - Len(cache') \in 0 .. burn'
    BY <1>4, <1>7, <1>8, <2>1, <2>5
  <2>. QED
    BY <1>11, <2>5, <2>8, <2>16, <2>17, Zenon
<1>. QED
  BY <1>12, <1>13, Zenon

(* Start prunes the cache and, on the leader, asks for what is missing.     *)
LEMMA StartStep ==
    ASSUME IInv, Start
    PROVE  IInv'
<1>. DEFINE kept == PruneNonces(cache)
            Loads == [n : 1 .. MaxTarget, age : 0 .. Timeout, total : Nat]
<1>1. UNCHANGED <<leader, down, rtt, outstanding, asked>> /\ load = Idle
  BY Zenon DEF Start, healthVars
<1>2. Typed /\ RoundsInv /\ AgeInv /\ UseInv
  BY Zenon DEF IInv
<1>3. last \in Nat /\ burn \in Nat /\ Len(cache) \in Nat /\ timer \in 0 .. Interval
  BY <1>2, Numbers, Zenon
<1>4. Expiration \in Nat /\ Timeout \in Nat /\ Interval \in Nat /\ MaxTarget \in Nat
  BY <1>2, Numbers, Zenon
<1>5. cache \in Seq(Round)
  BY <1>2, CacheFacts, Zenon
<1>6. kept \in Seq(Round) /\ Len(kept) <= Len(cache) /\ Younger(kept, Expiration)
  BY <1>2, <1>5, PruneThins, Zenon DEF RoundsInv, Younger
<1>7. PICK e : Thins(e, cache, kept) /\ Keeps(e, cache, kept)
  BY <1>2, <1>5, PruneThins, Zenon DEF RoundsInv
<1>8. cache' = kept /\ empty' \in BOOLEAN
  <2>1. cache' = kept
    BY Zenon DEF Start, reconcile, reconcileFollower
  <2>2. empty' = empty \/ empty' = FALSE
    BY Zenon DEF Start
  <2>3. empty \in BOOLEAN
    BY <1>2, Zenon DEF Typed, TypeOK
  <2>. QED
    BY <2>1, <2>2, <2>3, Zenon
<1>9. RoundsInv'
  <2>1. Sorted(kept) /\ Distinct(kept) /\ UUIDs(kept) \subseteq UUIDs(cache)
    BY <1>2, <1>5, <1>6, <1>7, ThinKeeps, Zenon DEF RoundsInv
  <2>2. Known(kept)
    BY <1>2, <1>7, KeepKnown, Zenon DEF RoundsInv
  <2>3. UUIDs(cache') \cap outstanding' = {}
    BY <1>1, <1>2, <1>8, <2>1, Zenon DEF RoundsInv
  <2>. QED
    BY <1>8, <2>1, <2>2, <2>3, Zenon DEF RoundsInv
<1>10. Len(kept) \in Nat /\ \A i \in 1 .. Len(kept) : kept[i].age \in Nat
  BY <1>6, RoundFields
<1>. HIDE DEF kept
<1>11. ASSUME load' = Idle, timer' = Interval, last' \in Nat, burn' \in Nat, last' - Len(kept) \in 0 .. burn'
       PROVE  IInv'
  <2>1. {last', burn'} \subseteq Nat /\ timer' \in 0 .. Interval
    BY <1>4, <1>11
  <2>2. Typed'
    BY <1>1, <1>2, <1>6, <1>8, <1>11, <2>1, Zenon DEF Typed, TypeOK, Round
  <2>3. Younger(kept, Expiration + Timeout + Interval - Interval)
    BY <1>4, <1>6, <1>10 DEF Younger
  <2>4. AgeInv'
    BY <1>8, <1>11, <2>3, Zenon DEF AgeInv
  <2>5. UseInv'
    BY <1>8, <1>11, Zenon DEF UseInv
  <2>. QED
    BY <1>9, <2>2, <2>4, <2>5, Zenon DEF IInv
<1>12. CASE reconcileFollower
  <2>1. UNCHANGED <<load, last>> /\ timer' = Interval /\ burn' = burn + Len(cache) - Len(kept)
    BY <1>12, Zenon DEF reconcileFollower, kept
  <2>2. last - Len(cache) \in 0 .. burn
    BY <1>1, <1>2, Zenon DEF UseInv
  <2>3. burn' \in Nat /\ last - Len(kept) \in 0 .. burn'
    BY <1>3, <1>6, <1>10, <2>1, <2>2
  <2>. QED
    BY <1>1, <1>3, <1>11, <2>1, <2>3, Zenon
<1>13. CASE reconcile
  <2>. DEFINE Ahead(t) == /\ t - Len(kept) <= 0
                          /\ last' = Reconciled(Len(kept), t - Len(kept)) /\ timer' = Interval
                          /\ UNCHANGED load
              Loads1(t) == /\ t - Len(kept) > 0
                           /\ load' = [n |-> t - Len(kept), age |-> 0,
                                       total |-> Reconciled(Len(kept), t - Len(kept))]
                           /\ UNCHANGED <<last, timer>>
  <2>1. burn' = 0 /\ \E t \in Targets : Ahead(t) \/ Loads1(t)
    BY <1>13, Zenon DEF reconcile, kept
  <2>2. PICK t \in Targets : Ahead(t) \/ Loads1(t)
    BY <2>1, Zenon
  <2>3. t \in 1 .. MaxTarget
    BY Zenon DEF Targets
  <2>4. CASE Ahead(t)
    <3>1. last' = Len(kept)
      BY <1>10, <2>3, <2>4 DEF Reconciled
    <3>2. last' - Len(kept) \in 0 .. burn' /\ last' \in Nat /\ burn' \in Nat
      BY <1>10, <2>1, <3>1
    <3>. QED
      BY <1>1, <1>11, <2>4, <3>2, Zenon
  <2>5. CASE Loads1(t)
    <3>. DEFINE n == t - Len(kept)
    <3>1. n \in 1 .. MaxTarget /\ Reconciled(Len(kept), n) = Len(kept) + n
      BY <1>4, <1>10, <2>3, <2>5 DEF Reconciled
    <3>2. load' = [n |-> n, age |-> 0, total |-> Len(kept) + n] /\ UNCHANGED <<last, timer>>
      BY <2>5, <3>1, Zenon
    <3>. HIDE DEF n
    <3>3. load' \in Loads
      BY <1>4, <1>10, <3>1, <3>2
    <3>4. load' # Idle /\ load'.n = n /\ load'.age = 0 /\ load'.total = Len(kept) + n
      BY <3>2, <3>3, LoadIsNotIdle, Zenon
    <3>5. Typed'
      <4>1. {last', burn'} \subseteq Nat /\ timer' \in 0 .. Interval
        BY <1>3, <2>1, <3>2
      <4>2. load'.age \in 0 .. Timeout /\ load'.n \in 1 .. MaxTarget
        BY <1>4, <3>1, <3>4
      <4>. QED
        BY <1>1, <1>2, <1>6, <1>8, <3>3, <4>1, <4>2, Zenon DEF Typed, TypeOK, Round
    <3>6. AgeInv'
      <4>1. Older(kept, 0) /\ Younger(kept, Expiration + 0)
        BY <1>4, <1>6, <1>10 DEF Older, Younger
      <4>. QED
        BY <1>8, <3>4, <4>1, Zenon DEF AgeInv
    <3>7. UseInv'
      <4>1. (Len(kept) + n) - (Len(kept) + n) \in 0 .. burn'
        BY <1>10, <2>1, <3>1
      <4>. QED
        BY <1>8, <3>4, <4>1, Zenon DEF UseInv
    <3>. QED
      BY <1>9, <3>5, <3>6, <3>7, Zenon DEF IInv
  <2>. QED
    BY <2>2, <2>4, <2>5, Zenon
<1>. QED
  BY <1>12, <1>13, Zenon DEF Start

(* Time makes every round, and the load under way, one unit older.          *)
LEMMA TickStep ==
    ASSUME IInv, Tick
    PROVE  IInv'
<1>1. UNCHANGED <<leader, down, rtt, empty, last, burn, outstanding>> /\ asked' = 0
  BY Zenon DEF Tick, healthVars
<1>2. cache' = [i \in DOMAIN cache |-> [cache[i] EXCEPT !.age = @ + 1]]
  BY Zenon DEF Tick
<1>3. Typed /\ RoundsInv /\ AgeInv /\ UseInv
  BY Zenon DEF IInv
<1>4. last \in Nat /\ burn \in Nat /\ Len(cache) \in Nat /\ timer \in 0 .. Interval
  BY <1>3, Numbers, Zenon
<1>5. Expiration \in Nat /\ Timeout \in Nat /\ Interval \in Nat /\ MaxTarget \in Nat /\ MaxAsked \in Nat
  BY <1>3, Numbers, Zenon
<1>6. cache \in Seq(Round) /\ DOMAIN cache = 1 .. Len(cache)
  BY <1>3, CacheFacts, Zenon
<1>7. ASSUME NEW i \in 1 .. Len(cache)
      PROVE  /\ cache'[i] \in Round /\ cache[i].age \in Nat
             /\ cache'[i].uuid = cache[i].uuid /\ cache'[i].from = cache[i].from
             /\ cache'[i].age = cache[i].age + 1
  <2>1. cache[i] \in Round
    BY <1>6
  <2>2. cache'[i] = [cache[i] EXCEPT !.age = @ + 1]
    BY <1>2, <1>6, Zenon
  <2>. QED
    BY <2>1, <2>2 DEF Round
<1>8. cache' \in Seq(Round) /\ Len(cache') = Len(cache) /\ DOMAIN cache' = 1 .. Len(cache)
  <2>1. cache' \in [1 .. Len(cache) -> Round]
    BY <1>2, <1>6, <1>7, Zenon
  <2>. QED
    BY <1>4, <2>1
<1>9. RoundsInv'
  <2>1. Sorted(cache')
    BY SMTT(30), <1>3, <1>7, <1>8 DEF RoundsInv, Sorted
  <2>2. Distinct(cache') /\ Known(cache')
    BY <1>3, <1>7, <1>8, Zenon DEF RoundsInv, Distinct, Known
  <2>3. UUIDs(cache') = UUIDs(cache)
    BY <1>6, <1>7, <1>8 DEF UUIDs
  <2>. QED
    BY <1>1, <1>3, <2>1, <2>2, <2>3, Zenon DEF RoundsInv
<1>10. /\ \A b \in Int : Younger(cache, b) => Younger(cache', b + 1)
       /\ \A b \in Int : Older(cache, b) => Older(cache', b + 1)
  <2>. SUFFICES ASSUME NEW b \in Int, NEW i \in 1 .. Len(cache)
                PROVE  /\ cache[i].age < b => cache'[i].age < b + 1
                       /\ b <= cache[i].age => b + 1 <= cache'[i].age
    BY <1>8, Zenon DEF Younger, Older
  <2>1. cache[i].age \in Nat /\ cache'[i].age = cache[i].age + 1
    BY <1>7, Zenon
  <2>. QED
    BY <2>1
<1>11. cache' \in Seq([uuid : Nat, age : Nat, from : SUBSET Cosigners])
  BY <1>8, Zenon DEF Round
<1>12. asked' \in 0 .. MaxAsked
  BY <1>1, <1>5
<1>13. CASE load = Idle
  <2>1. load' = Idle /\ timer' = timer - 1 /\ timer > 0
    BY <1>13, Zenon DEF Tick
  <2>2. timer' \in 0 .. Interval
    BY <1>4, <1>5, <2>1
  <2>3. Typed'
    BY <1>1, <1>3, <1>11, <1>12, <2>1, <2>2, Zenon DEF Typed, TypeOK
  <2>4. AgeInv'
    <3>. DEFINE b == Expiration + Timeout + Interval - timer
    <3>1. b \in Int /\ b + 1 = Expiration + Timeout + Interval - timer'
      BY <1>4, <1>5, <2>1
    <3>2. Younger(cache, b)
      BY <1>3, <1>13, Zenon DEF AgeInv
    <3>. HIDE DEF b
    <3>3. Younger(cache', b + 1)
      BY <1>10, <3>1, <3>2, Zenon
    <3>4. Younger(cache', Expiration + Timeout + Interval - timer')
      BY <3>1, <3>3, Zenon
    <3>. QED
      BY <2>1, <3>4, Zenon DEF AgeInv
  <2>5. UseInv'
    BY <1>1, <1>3, <1>8, <1>13, <2>1, Zenon DEF UseInv
  <2>. QED
    BY <1>9, <2>3, <2>4, <2>5, Zenon DEF IInv
<1>14. CASE load # Idle
  <2>1. load' = [load EXCEPT !.age = @ + 1] /\ timer' = timer /\ load.age < Timeout
    BY <1>14, Zenon DEF Tick
  <2>2. load \in [n : 1 .. MaxTarget, age : 0 .. Timeout, total : Nat]
    BY <1>3, <1>14, Zenon DEF Typed
  <2>3. /\ load' \in [n : 1 .. MaxTarget, age : 0 .. Timeout, total : Nat]
        /\ load.age \in Nat /\ load'.age = load.age + 1 /\ load'.n = load.n /\ load'.total = load.total
        /\ load'.n \in 1 .. MaxTarget /\ load'.age \in 0 .. Timeout
    BY <1>5, <2>1, <2>2
  <2>4. load' # Idle
    BY <2>3, LoadIsNotIdle, Zenon
  <2>5. Typed'
    BY <1>1, <1>3, <1>11, <1>12, <2>1, <2>3, Zenon DEF Typed, TypeOK
  <2>6. AgeInv'
    <3>. DEFINE a == load.age
    <3>1. Older(cache, a) /\ Younger(cache, Expiration + a)
      BY <1>3, <1>14, Zenon DEF AgeInv
    <3>2. a \in Nat /\ load'.age = a + 1
      BY <2>3, Zenon
    <3>. HIDE DEF a
    <3>3. a \in Int /\ Expiration + a \in Int /\ (Expiration + a) + 1 = Expiration + (a + 1)
      BY <1>5, <3>2
    <3>4. Older(cache', a + 1) /\ Younger(cache', Expiration + (a + 1))
      <4>1. Older(cache', a + 1) /\ Younger(cache', (Expiration + a) + 1)
        BY <1>10, <3>1, <3>3, Zenon
      <4>. QED
        BY <3>3, <4>1, Zenon
    <3>. QED
      BY <2>4, <3>2, <3>4, Zenon DEF AgeInv
  <2>7. UseInv'
    BY <1>1, <1>3, <1>8, <1>14, <2>3, <2>4, Zenon DEF UseInv
  <2>. QED
    BY <1>9, <2>5, <2>6, <2>7, Zenon DEF IInv
<1>. QED
  BY <1>13, <1>14, Zenon

-----------------------------------------------------------------------------
(* The inductive invariant holds in every reachable state.                  *)
THEOREM InductiveInvariant == Spec => []IInv
<1>1. ASSUME IInv, [Next]_vars
      PROVE  IInv'
  <2>1. CASE Start
    BY <1>1, <2>1, StartStep, Zenon
  <2>2. CASE LoadN
    BY <1>1, <2>2, LoadNStep, Zenon
  <2>3. ASSUME NEW Q \in Fastest, GetNonces(Q) \/ NoNonces(Q)
        PROVE  IInv'
    BY <1>1, <2>3, GetNoncesStep, NoNoncesStep, Zenon
  <2>3a. ASSUME NEW c \in Cosigners, CosignerFails(c)
         PROVE  IInv'
    BY <1>1, <2>3a, CosignerFailsStep, Zenon
  <2>4. ASSUME NEW p \in Peers, updateRTT(p) \/ ChangePeer(p)
        PROVE  IInv'
    BY <1>1, <2>4, UpdateRTTStep, ChangePeerStep, Zenon
  <2>5. ASSUME NEW u \in outstanding, AttemptEnds(u)
        PROVE  IInv'
    BY <1>1, <2>5, AttemptEndsStep, Zenon
  <2>6. CASE Tick
    BY <1>1, <2>6, TickStep, Zenon
  <2>7. CASE ChangeLeader
    BY <1>1, <2>7, ChangeLeaderStep, Zenon
  <2>8. CASE UNCHANGED vars
    <3>1. UNCHANGED <<leader, rtt, down, cache, empty, timer, load, last, burn, outstanding, asked>>
      BY <2>8, Zenon DEF vars, healthVars, rateVars
    <3>2. Typed'
      BY <1>1, <3>1, Zenon DEF IInv, Typed, TypeOK
    <3>. QED
      BY <1>1, <3>1, <3>2, QuietStep, Zenon DEF rateVars
  <2>. QED
    BY <1>1, <2>1, <2>2, <2>3, <2>3a, <2>4, <2>5, <2>6, <2>7, <2>8, Zenon DEF Next, Cache
<1>. QED
  BY InitInv, <1>1, PTL DEF Spec

(* Every variable has its type; in particular no more rounds are asked for  *)
(* than the target, and never none (LoadN).                                 *)
THEOREM TypeCorrectness == Spec => []TypeOK
<1>1. IInv => TypeOK
  BY Zenon DEF IInv, Typed
<1>. QED
  BY <1>1, InductiveInvariant, PTL

(* No round in the cache is as old as nonceExpiration of the cosigners that *)
(* made it, whatever the times are, as long as Expiration, the interval and *)
(* the timeout together do not exceed it (PruneNonces, reconcile, LoadN).   *)
THEOREM NoncesAreLive == Spec => []CachedNoncesAreLive
<1>1. ASSUME IInv PROVE CachedNoncesAreLive
  <2>. SUFFICES ASSUME NEW i \in 1 .. Len(cache) PROVE cache[i].age < CosignerExpiration
    BY <1>1, CacheFacts, Zenon DEF CachedNoncesAreLive, IInv
  <2>1. cache[i].age \in Nat
    <3>1. cache \in Seq(Round)
      BY <1>1, CacheFacts, Zenon DEF IInv
    <3>2. cache[i] \in Round
      BY <3>1
    <3>. QED
      BY <3>2, RoundFields, Zenon
  <2>2. timer \in 0 .. Interval /\ Expiration \in Nat /\ Timeout \in Nat /\ Interval \in Nat
    BY <1>1, Numbers, Zenon DEF IInv
  <2>3. CosignerExpiration \in Nat /\ Expiration + Interval + Timeout <= CosignerExpiration
    BY TimingAssumption, Zenon
  <2>4. CASE load = Idle
    <3>1. cache[i].age < Expiration + Timeout + Interval - timer
      BY <1>1, <2>4, Zenon DEF IInv, AgeInv, Younger
    <3>. QED
      BY <2>1, <2>2, <2>3, <3>1
  <2>5. CASE load # Idle
    <3>. DEFINE a == load.age
    <3>1. a \in 0 .. Timeout
      BY <1>1, <2>5, LoadFields, Zenon DEF IInv
    <3>2. cache[i].age < Expiration + a
      BY <1>1, <2>5, Zenon DEF IInv, AgeInv, Younger
    <3>. HIDE DEF a
    <3>. QED
      BY <2>1, <2>2, <2>3, <3>1, <3>2
  <2>. QED
    BY <2>4, <2>5, Zenon
<1>. QED
  BY <1>1, InductiveInvariant, PTL

(* A nonce round serves one attempt, for any number of attempts at a time   *)
(* (GetNonces, Delete).                                                     *)
THEOREM RoundsAreHandedOutOnce == Spec => []HandedOutOnce
<1>1. ASSUME IInv PROVE HandedOutOnce
  BY <1>1, CacheFacts, Zenon DEF HandedOutOnce, IInv, RoundsInv, Distinct
<1>. QED
  BY <1>1, InductiveInvariant, PTL

(* A threshold of cosigners knows every round in the cache (LoadN,          *)
(* ClearNonces).                                                            *)
THEOREM RoundsAreUsable == Spec => []CachedNoncesAreUsable
<1>1. ASSUME IInv PROVE CachedNoncesAreUsable
  BY <1>1, CacheFacts, Zenon DEF CachedNoncesAreUsable, IInv, RoundsInv, Known
<1>. QED
  BY <1>1, InductiveInvariant, PTL

(* What the next reconciliation takes for used is explained by what was     *)
(* used, given up or never loaded since the last one (reconcile, LoadN).    *)
THEOREM ReconciledUseIsExplained == Spec => []UseIsExplained
<1>1. IInv => UseIsExplained
  BY Zenon DEF IInv, UseInv, UseIsExplained
<1>. QED
  BY <1>1, InductiveInvariant, PTL
=============================================================================
