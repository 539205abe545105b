------------------------ MODULE ExecutionCoreProofs ------------------------
(***************************************************************************)
(* ExecutionCore for every pool size, queue length, set of signals and     *)
(* number of exchanges, whether or not slots of the timer wheel overflow,  *)
(* provided that every native lot is a whole number of canonical lots.     *)
(***************************************************************************)
EXTENDS ExecutionCore, ArithmeticLemmas, FiniteSetTheorems

-----------------------------------------------------------------------------
(* Free lists                                                              *)

\* A free list of ids of S without an id on it twice.
IsFreeList(f, S) ==
  /\ f = [top |-> f.top, ids |-> f.ids]
  /\ f.top \in Nat
  /\ f.ids \in [1..f.top -> S]
  /\ NoDuplicates(f)

\* init: every id is on the list once.
LEMMA FullListFree ==
  ASSUME NEW n \in Nat
  PROVE  /\ IsFreeList(FullList(n), 0..(n - 1))
         /\ FreeIds(FullList(n)) = 0..(n - 1)
<1> DEFINE f == FullList(n)
<1>1. f.top = n /\ f.ids = [i \in 1..n |-> n - i] /\ f = [top |-> f.top, ids |-> f.ids]
  BY DEF FullList
<1>2. IsFreeList(f, 0..(n - 1))
  <2> HIDE DEF f
  <2> QED BY <1>1 DEF IsFreeList, NoDuplicates
<1>3. ASSUME NEW x \in 0..(n - 1) PROVE x \in FreeIds(f)
  <2> HIDE DEF f
  <2>1. n - x \in 1..f.top /\ f.ids[n - x] = x
    BY <1>1
  <2> QED BY <2>1 DEF FreeIds
<1>4. FreeIds(f) \subseteq 0..(n - 1)
  <2> HIDE DEF f
  <2> QED BY <1>1 DEF FreeIds
<1> QED BY <1>2, <1>3, <1>4

\* alloc: k pops return k different ids of the list and take them off it.
LEMMA PopFree ==
  ASSUME NEW S, NEW f, IsFreeList(f, S), NEW k \in 0..f.top
  PROVE  /\ IsFreeList(Pop(f, k), S)
         /\ Pop(f, k).top = f.top - k
         /\ Popped(f, k) \in [1..k -> S]
         /\ \A i \in 1..k : Popped(f, k)[i] \in FreeIds(f)
         /\ \A i, j \in 1..k : Popped(f, k)[i] = Popped(f, k)[j] => i = j
         /\ FreeIds(Pop(f, k)) = FreeIds(f) \ {Popped(f, k)[i] : i \in 1..k}
<1> DEFINE g == Pop(f, k)
           p == Popped(f, k)
<1>1. /\ g.top = f.top - k /\ g.ids = [i \in 1..(f.top - k) |-> f.ids[i]]
      /\ g = [top |-> g.top, ids |-> g.ids]
      /\ p = [i \in 1..k |-> f.ids[f.top + 1 - i]]
  BY DEF Pop, Popped
<1>2. /\ f.top \in Nat /\ k \in Nat /\ f.ids \in [1..f.top -> S]
      /\ \A i, j \in 1..f.top : f.ids[i] = f.ids[j] => i = j
  BY DEF IsFreeList, NoDuplicates
<1> HIDE DEF g, p
<1>3. IsFreeList(g, S)
  <2>1. g.top \in Nat /\ g.ids \in [1..g.top -> S]
    BY <1>1, <1>2
  <2>2. NoDuplicates(g)
    BY <1>1, <1>2 DEF NoDuplicates
  <2> QED BY <1>1, <2>1, <2>2, Zenon DEF IsFreeList
<1>at. \A i \in 1..k : f.top + 1 - i \in 1..f.top /\ p[i] = f.ids[f.top + 1 - i]
  BY <1>1, <1>2
<1>4. p \in [1..k -> S] /\ \A i \in 1..k : p[i] \in FreeIds(f)
  <2>1. \A i \in 1..k : p[i] \in FreeIds(f) /\ p[i] \in S
    BY <1>2, <1>at DEF FreeIds
  <2> QED BY <1>1, <2>1
<1>5. ASSUME NEW i \in 1..k, NEW j \in 1..k, p[i] = p[j] PROVE i = j
  <2>1. f.top + 1 - i = f.top + 1 - j
    BY <1>2, <1>5, <1>at
  <2> QED BY <1>2, <2>1
<1>6. ASSUME NEW x \in FreeIds(g) PROVE x \in FreeIds(f) \ {p[i] : i \in 1..k}
  <2>1. PICK i \in 1..g.top : x = g.ids[i]
    BY DEF FreeIds
  <2>2. i \in 1..f.top /\ x = f.ids[i] /\ i <= f.top - k
    BY <1>1, <1>2, <2>1
  <2>3. ASSUME NEW j \in 1..k PROVE x # p[j]
    <3>1. f.top + 1 - j # i
      BY <1>2, <2>2
    <3> QED BY <1>2, <1>at, <2>2, <3>1
  <2> QED BY <2>2, <2>3 DEF FreeIds
<1>7. ASSUME NEW x \in FreeIds(f) \ {p[i] : i \in 1..k} PROVE x \in FreeIds(g)
  <2>1. PICK i \in 1..f.top : x = f.ids[i]
    BY DEF FreeIds
  <2>2. i <= f.top - k
    <3> SUFFICES ASSUME i > f.top - k PROVE FALSE
      BY <1>2
    <3>1. f.top + 1 - i \in 1..k /\ p[f.top + 1 - i] = x
      BY <1>2, <1>at, <2>1
    <3> QED BY <3>1
  <2>3. i \in 1..g.top /\ g.ids[i] = x
    BY <1>1, <1>2, <2>1, <2>2
  <2> QED BY <2>3 DEF FreeIds
<1> QED BY <1>1, <1>3, <1>4, <1>5, <1>6, <1>7 DEF g, p

\* No allocation leaves the list as it is ...
LEMMA PopNone ==
  ASSUME NEW S, NEW f, IsFreeList(f, S)
  PROVE  Pop(f, 0) = f
<1>1. f.top \in Nat /\ f.ids \in [1..f.top -> S] /\ f = [top |-> f.top, ids |-> f.ids]
  BY DEF IsFreeList
<1>2. f.top - 0 = f.top
  BY <1>1
<1>3. [i \in 1..f.top |-> f.ids[i]] = f.ids
  BY <1>1
<1> QED BY <1>1, <1>2, <1>3, Zenon DEF Pop

\* ... and so do an allocation and a free of what it returned.
LEMMA PopPush ==
  ASSUME NEW S, NEW f, IsFreeList(f, S), f.top > 0
  PROVE  PushOne(Pop(f, 1), f.ids[f.top]) = f
<1> DEFINE t == f.top
           g == Pop(f, 1)
           s == [i \in {1} |-> f.ids[t]]
<1>1. t \in Nat \ {0} /\ f.ids \in [1..t -> S] /\ f = [top |-> t, ids |-> f.ids]
  BY DEF IsFreeList
<1>2. g.top = t - 1 /\ g.ids = [i \in 1..(t - 1) |-> f.ids[i]]
  BY DEF Pop
<1>3. PushOne(g, f.ids[t])
        = [top |-> g.top + 1, ids |-> [i \in 1..(g.top + 1) |->
                                         IF i <= g.top THEN g.ids[i] ELSE s[i - g.top]]]
  BY DEF PushOne, Push
<1> HIDE DEF t, g
<1>4. g.top + 1 = t
  BY <1>1, <1>2
<1>5. ASSUME NEW i \in 1..t
      PROVE  (IF i <= g.top THEN g.ids[i] ELSE s[i - g.top]) = f.ids[i]
  <2>1. CASE i <= t - 1
    BY <1>1, <1>2, <2>1
  <2>2. CASE i = t
    <3>1. ~(i <= g.top) /\ i - g.top = 1
      BY <1>1, <1>2, <2>2
    <3>2. s[1] = f.ids[t]
      OBVIOUS
    <3> QED BY <2>2, <3>1, <3>2
  <2> QED BY <1>1, <2>1, <2>2
<1>6. [i \in 1..t |-> IF i <= g.top THEN g.ids[i] ELSE s[i - g.top]] = f.ids
  BY <1>1, <1>5
<1>7. PushOne(g, f.ids[t]) = f
  BY <1>1, <1>3, <1>4, <1>6, Zenon
<1> QED BY <1>7 DEF t, g

\* free: pushing different ids that are not on the list keeps it free of
\* duplicates.
LEMMA PushFree ==
  ASSUME NEW S, NEW f, IsFreeList(f, S), NEW n \in Nat, NEW s,
         \A i \in 1..n : s[i] \in S /\ s[i] \notin FreeIds(f),
         \A i, j \in 1..n : s[i] = s[j] => i = j
  PROVE  /\ IsFreeList(Push(f, n, s), S)
         /\ FreeIds(Push(f, n, s)) = FreeIds(f) \cup {s[i] : i \in 1..n}
<1> DEFINE g == Push(f, n, s)
<1>1. /\ g.top = f.top + n
      /\ g.ids = [i \in 1..(f.top + n) |-> IF i <= f.top THEN f.ids[i] ELSE s[i - f.top]]
      /\ g = [top |-> g.top, ids |-> g.ids]
  BY DEF Push
<1>2. /\ f.top \in Nat /\ f.ids \in [1..f.top -> S]
      /\ \A i, j \in 1..f.top : f.ids[i] = f.ids[j] => i = j
      /\ \A i \in 1..f.top : f.ids[i] \in FreeIds(f)
  BY DEF IsFreeList, NoDuplicates, FreeIds
<1> HIDE DEF g
<1>3. ASSUME NEW i \in 1..g.top
      PROVE  \/ i \in 1..f.top /\ g.ids[i] = f.ids[i]
             \/ i - f.top \in 1..n /\ i > f.top /\ g.ids[i] = s[i - f.top]
  BY <1>1, <1>2
<1>4. g.ids \in [1..g.top -> S]
  BY <1>1, <1>2, <1>3
<1>5. ASSUME NEW i \in 1..g.top, NEW j \in 1..g.top, g.ids[i] = g.ids[j] PROVE i = j
  <2>1. CASE i \in 1..f.top /\ j \in 1..f.top
    BY <1>1, <1>2, <1>5, <2>1
  <2>2. CASE i - f.top \in 1..n /\ i > f.top /\ j - f.top \in 1..n /\ j > f.top
    <3>1. s[i - f.top] = s[j - f.top]
      BY <1>1, <1>2, <1>5, <2>2
    <3>2. i - f.top = j - f.top
      BY <2>2, <3>1
    <3> QED BY <1>2, <3>2
  <2>3. CASE i \in 1..f.top /\ j - f.top \in 1..n /\ j > f.top
    <3>1. g.ids[i] \in FreeIds(f) /\ g.ids[j] \notin FreeIds(f)
      BY <1>1, <1>2, <2>3
    <3> QED BY <1>5, <3>1
  <2>4. CASE j \in 1..f.top /\ i - f.top \in 1..n /\ i > f.top
    <3>1. g.ids[j] \in FreeIds(f) /\ g.ids[i] \notin FreeIds(f)
      BY <1>1, <1>2, <2>4
    <3> QED BY <1>5, <3>1
  <2> QED BY <1>3, <2>1, <2>2, <2>3, <2>4
<1>6. ASSUME NEW x \in FreeIds(g) PROVE x \in FreeIds(f) \cup {s[i] : i \in 1..n}
  <2>1. PICK i \in 1..g.top : x = g.ids[i]
    BY DEF FreeIds
  <2> QED BY <1>2, <1>3, <2>1
<1>7. ASSUME NEW x \in FreeIds(f) PROVE x \in FreeIds(g)
  <2>1. PICK i \in 1..f.top : x = f.ids[i]
    BY DEF FreeIds
  <2>2. i \in 1..g.top /\ g.ids[i] = x
    BY <1>1, <1>2, <2>1
  <2> QED BY <2>2 DEF FreeIds
<1>8. ASSUME NEW i \in 1..n PROVE s[i] \in FreeIds(g)
  <2>1. f.top + i \in 1..g.top /\ g.ids[f.top + i] = s[i]
    BY <1>1, <1>2
  <2> QED BY <2>1 DEF FreeIds
<1>9. g.top \in Nat
  BY <1>1, <1>2
<1> QED BY <1>1, <1>4, <1>5, <1>6, <1>7, <1>8, <1>9 DEF IsFreeList, NoDuplicates, g

\* A single free.
LEMMA PushOneFree ==
  ASSUME NEW S, NEW f, IsFreeList(f, S), NEW x \in S, x \notin FreeIds(f)
  PROVE  /\ IsFreeList(PushOne(f, x), S)
         /\ FreeIds(PushOne(f, x)) = FreeIds(f) \cup {x}
<1> DEFINE s == [i \in {1} |-> x]
<1>1. 1..1 = {1}
  OBVIOUS
<1>2. \A i \in 1..1 : s[i] = x
  BY <1>1
<1>3. {s[i] : i \in 1..1} = {x}
  BY <1>1, <1>2
<1> HIDE DEF s
<1>4. /\ IsFreeList(Push(f, 1, s), S)
      /\ FreeIds(Push(f, 1, s)) = FreeIds(f) \cup {s[i] : i \in 1..1}
  BY <1>1, <1>2, PushFree
<1> QED BY <1>3, <1>4 DEF PushOne, s

-----------------------------------------------------------------------------
(* Lots                                                                    *)

LEMMA LotSizeType == ASSUME NEW i PROVE LotSize(i) \in Nat \ {0}
BY LotsAssumption DEF LotSize

\* Where a native lot is a whole number k of canonical lots, to_canonical_lots
\* multiplies by k ...
LEMMA LotRatio ==
  ASSUME DivisibleLots, NEW i \in Instruments, NEW e \in Exchanges
  PROVE  \E k \in Nat \ {0} : /\ BookLot[e] = k * LotSize(i)
                              /\ \A n \in Nat : ToCanonicalLots(n, i, e) = n * k
<1> DEFINE L == LotSize(i)
<1>1. L \in Nat \ {0}
  BY LotSizeType
<1>2. PICK k \in Nat \ {0} : BookLot[e] = k * L
  BY DEF DivisibleLots
<1> HIDE DEF L
<1>3. ASSUME NEW n \in Nat PROVE ToCanonicalLots(n, i, e) = n * k
  <2> DEFINE m == n * k
             a == 2 * n * BookLot[e] + L
  <2>1. m \in Nat
    OBVIOUS
  <2>2. 2 * n * BookLot[e] = (2 * L) * m
    <3>1. 2 * n * (k * L) = (2 * L) * (n * k)
      BY <1>1
    <3> QED BY <1>2, <3>1
  <2> HIDE DEF m
  <2>3. (2 * L) * m \in Nat /\ 2 * L \in Nat \ {0}
    BY <1>1, <2>1
  <2>4. a \in Nat /\ (2 * L) * m <= a /\ a < (2 * L) * m + 2 * L
    BY <1>1, <2>2, <2>3
  <2> HIDE DEF a
  <2>5. a \div (2 * L) = m
    BY <2>1, <2>3, <2>4, DivUnique
  <2> QED BY <2>5 DEF ToCanonicalLots, L, a, m
<1> QED BY <1>2, <1>3 DEF L

\* ... so that it is additive and loses nothing ...
LEMMA Canonical ==
  ASSUME DivisibleLots, NEW i \in Instruments, NEW e \in Exchanges
  PROVE  /\ \A n \in Nat : ToCanonicalLots(n, i, e) \in Nat
         /\ ToCanonicalLots(0, i, e) = 0
         /\ \A n \in Nat \ {0} : ToCanonicalLots(n, i, e) > 0
         /\ \A m, n \in Nat :
              ToCanonicalLots(m + n, i, e) = ToCanonicalLots(m, i, e) + ToCanonicalLots(n, i, e)
<1>1. PICK k \in Nat \ {0} : \A n \in Nat : ToCanonicalLots(n, i, e) = n * k
  BY LotRatio
<1>2. ASSUME NEW n \in Nat \ {0} PROVE n * k > 0
  OBVIOUS
<1>3. ASSUME NEW m \in Nat, NEW n \in Nat PROVE (m + n) * k = m * k + n * k
  OBVIOUS
<1>4. ASSUME NEW n \in Nat PROVE n * k \in Nat
  OBVIOUS
<1>5. 0 * k = 0
  OBVIOUS
<1> QED BY <1>1, <1>2, <1>3, <1>4, <1>5

\* ... and a leg's child asks for no more than the leg.
LEMMA LegLots ==
  ASSUME DivisibleLots, NEW i \in Instruments, NEW e \in Exchanges, NEW q \in Nat \ {0}
  PROVE  /\ ToLots(q, i, e) \in Nat
         /\ ToCanonicalLots(ToLots(q, i, e), i, e) <= q
<1> DEFINE L == LotSize(i)
           B == BookLot[e]
           t == (q * L) \div B
           x == ToLots(q, i, e)
<1>1. L \in Nat \ {0}
  BY LotSizeType
<1>2. PICK k \in Nat \ {0} : B = k * L /\ \A n \in Nat : ToCanonicalLots(n, i, e) = n * k
  BY LotRatio
<1>3. B \in Nat \ {0}
  BY LotsAssumption
<1>4. x = t \/ (x = t - 1 /\ (q * L) % B = 0)
  BY DEF ToLots
<1> HIDE DEF L, B, x
<1>5. q * L \in Nat \ {0}
  BY <1>1
<1>6. t \in Nat /\ B * t <= q * L /\ q * L < B * t + B
  BY <1>3, <1>5, DivBounds
<1>7. (q * L) % B = 0 => t >= 1
  BY <1>3, <1>5
<1> HIDE DEF t
<1>8. x \in Nat /\ x <= t
  BY <1>4, <1>6, <1>7
<1>9. t * k <= q
  <2> DEFINE m == t * k
  <2>1. m \in Nat
    BY <1>6
  <2>2. B * t = m * L
    <3>1. (k * L) * t = (t * k) * L
      BY <1>1, <1>6
    <3> QED BY <1>2, <3>1
  <2> HIDE DEF m
  <2>3. m * L <= q * L
    BY <1>6, <2>2
  <2>4. m <= q
    <3> SUFFICES ASSUME m > q PROVE FALSE
      BY <2>1
    <3>1. PICK d \in Nat \ {0} : m = q + d
      BY <2>1
    <3>2. m * L = q * L + d * L /\ d * L > 0
      BY <1>1, <3>1
    <3> QED BY <1>1, <1>5, <2>3, <3>2
  <2> QED BY <2>4 DEF m
<1>10. x * k <= t * k /\ x * k \in Nat /\ t * k \in Nat
  <2>1. PICK d \in Nat : t = x + d
    BY <1>6, <1>8
  <2>2. (x + d) * k = x * k + d * k /\ d * k >= 0 /\ x * k \in Nat /\ t * k \in Nat
    BY <1>6, <1>8
  <2> QED BY <2>1, <2>2
<1>11. ToCanonicalLots(x, i, e) = x * k
  BY <1>2, <1>8
<1> QED BY <1>8, <1>9, <1>10, <1>11 DEF x

\* Uniform lots are the case k = 1.
LEMMA UniformDivides == UniformLots => DivisibleLots
<1>1. \A i : LotSize(i) = 1 * LotSize(i)
  BY LotSizeType
<1> QED BY <1>1 DEF UniformLots, DivisibleLots

\* Where every exchange quotes the instrument in its canonical lot, to_lots gives
\* a child at least one lot and at most what the leg asks for ...
LEMMA UniformToLots ==
  ASSUME UniformLots, NEW i \in Instruments, NEW e \in Exchanges, NEW q \in Nat \ {0}
  PROVE  ToLots(q, i, e) \in Nat /\ 1 <= ToLots(q, i, e) /\ ToLots(q, i, e) <= q
<1> DEFINE L == LotSize(i)
<1>1. L \in Nat \ {0} /\ BookLot[e] = L
  BY LotSizeType DEF UniformLots
<1> HIDE DEF L
<1>2. (q * L) \div L = q
  <2>1. (0 + q * L) \div L = (0 \div L) + q
    BY <1>1, DivPlus
  <2>2. 0 \div L = 0 /\ q * L \in Nat
    BY <1>1
  <2>3. 0 + q * L = q * L
    BY <2>2
  <2> QED BY <2>1, <2>2, <2>3
<1>3. ToLots(q, i, e) = q \/ (q \in RoundsDown /\ ToLots(q, i, e) = q - 1)
  BY <1>1, <1>2 DEF ToLots, L
<1>4. q \in RoundsDown => q >= 2
  BY LotsAssumption
<1> QED BY <1>3, <1>4

\* ... and to_canonical_lots is the identity.
LEMMA UniformToCanonical ==
  ASSUME UniformLots, NEW i \in Instruments, NEW e \in Exchanges, NEW n \in Nat
  PROVE  ToCanonicalLots(n, i, e) = n
<1> DEFINE L == LotSize(i)
<1>1. L \in Nat \ {0} /\ BookLot[e] = L
  BY LotSizeType DEF UniformLots
<1> HIDE DEF L
<1>2. 2 * n * L + L \in Nat /\ 2 * L \in Nat \ {0}
  BY <1>1
<1>3. (2 * L) * n <= 2 * n * L + L /\ 2 * n * L + L < (2 * L) * n + 2 * L
  <2>1. (2 * L) * n = 2 * n * L
    BY <1>1
  <2> QED BY <1>1, <1>2, <2>1
<1>4. (2 * n * L + L) \div (2 * L) = n
  BY <1>2, <1>3, DivUnique
<1> QED BY <1>1, <1>4 DEF ToCanonicalLots, L

-----------------------------------------------------------------------------
(* Splits                                                                  *)

\* A split of a positive target has legs that take it down step by step.
IsSplit(split, target) ==
  /\ split.count \in Nat \ {0}
  /\ split.rem \in [0..split.count -> 0..target]
  /\ split.rem[0] = target
  /\ Decreasing(split.rem, split.count)
  /\ split.ex \in [1..split.count -> Exchanges]

LEMMA OptimalSplitsSplit ==
  ASSUME NEW target \in Nat \ {0}, NEW split \in OptimalSplits(target), split.count # 0
  PROVE  /\ IsSplit(split, target)
         /\ Liquidity = "deep" => split.rem[split.count] = 0
<1>1. split # NoLegs(target)
  BY DEF NoLegs
<1>2. PICK n \in 1..kMaxChildOrders : split \in SplitsOf(target, n)
  BY <1>1, RoutingAssumption DEF OptimalSplits
<1>3. PICK r \in {f \in [0..n -> 0..target] : /\ f[0] = target
                                              /\ Decreasing(f, n)
                                              /\ Liquidity = "deep" => f[n] = 0},
           x \in [1..n -> Exchanges] :
        split = [count |-> n, rem |-> r, ex |-> x]
  BY <1>2 DEF SplitsOf
<1>4. n \in Nat \ {0}
  BY RoutingAssumption
<1>5. split.count = n /\ split.rem = r /\ split.ex = x
  BY <1>3
<1> QED BY <1>3, <1>4, <1>5 DEF IsSplit

LEMMA MakerSplitsSplit ==
  ASSUME NEW target \in Nat \ {0}, NEW split \in MakerSplits(target), split.count # 0
  PROVE  IsSplit(split, target) /\ split.rem[split.count] = 0
<1>1. split # NoLegs(target)
  BY DEF NoLegs
<1>2. PICK e \in Exchanges :
        split = [count |-> 1, rem |-> [k \in 0..1 |-> IF k = 0 THEN target ELSE 0],
                 ex |-> [k \in {1} |-> e]]
  BY <1>1 DEF MakerSplits
<1>3. /\ split.count = 1 /\ split.rem = [k \in 0..1 |-> IF k = 0 THEN target ELSE 0]
      /\ split.ex = [k \in {1} |-> e]
  BY <1>2
<1>4. 1..1 = {1}
  OBVIOUS
<1>5. split.rem \in [0..1 -> 0..target] /\ split.ex \in [1..1 -> Exchanges]
  BY <1>3, <1>4
<1>6. split.rem[0] = target /\ Decreasing(split.rem, 1)
  BY <1>3 DEF Decreasing
<1> QED BY <1>3, <1>5, <1>6 DEF IsSplit

-----------------------------------------------------------------------------
(* The inductive invariant.                                                *)

\* What a child in use looks like to its parent p.
ChildOK(ch, p) ==
  /\ ch.parent = p /\ ch.ex \in Exchanges
  /\ ch.leaves \in Nat /\ ch.cum \in Nat
  /\ ch.state \in Live => ch.leaves = ch.qty - ch.cum
  /\ UniformLots /\ ch.state \in Live => ch.leaves > 0

\* The n active timers of child ch are those it should have.
Timed(n, ch) ==
  /\ n \in {0, 1}
  /\ n = 1 => ch.state \in Live
  /\ ~SlotOverflow /\ ch.state \in Live /\ ch.cum = 0 => n = 1

\* The canonical lots of instrument i that child ch may still trade, and one for a
\* live child whose leg was less than a native lot: it keeps its parent open.
Room(i, ch) ==
  LET n == ToCanonicalLots(ch.leaves, i, ch.ex)
  IN  IF n = 0 /\ ch.state \in Live THEN 1 ELSE n

\* The children fit one after the other into the leaves of the parent.
Fits(par, cs) ==
  \E at \in [1..par.child_count -> 0..par.leaves] :
    /\ \A s \in 1..par.child_count :
         at[s] + Room(par.instr, cs[par.children[s]]) <= par.leaves
    /\ \A r, s \in 1..par.child_count :
         r < s => at[r] + Room(par.instr, cs[par.children[r]]) <= at[s]

\* Parent p with record par and its children are consistent.
Family(p, par, cs, tm) ==
  /\ par.instr \in Instruments
  /\ par.leaves = par.total - par.cum /\ par.cum >= 0 /\ par.leaves >= 0
  /\ \A s \in 1..par.child_count : /\ ChildOK(cs[par.children[s]], p)
                                   /\ Timed(tm[par.children[s]], cs[par.children[s]])
  /\ \A r, s \in 1..par.child_count : par.children[r] = par.children[s] => r = s
  /\ Fits(par, cs)

\* The parent still wants something and waits for a live child.
Working(par, cs) ==
  /\ par.state \in Live /\ par.leaves > 0
  /\ \E s \in 1..par.child_count : cs[par.children[s]].state \in Live

Held(par) == {par.children[s] : s \in 1..par.child_count}

\* The four invariants of the runs, made inductive: every child is either free or
\* in exactly one slot of one parent in use.
CoreInv ==
  /\ TypeOK
  /\ IsFreeList(parent_free, ParentIds) /\ IsFreeList(child_free, ChildIds)
  /\ \A p \in ParentsInUse : /\ Family(p, parents[p], children, timers)
                             /\ Working(parents[p], children)
  /\ \A c \in ChildIds :
       c \in FreeIds(child_free) <=> \A p \in ParentsInUse : c \notin Held(parents[p])
  /\ \A c \in FreeIds(child_free) : timers[c] = 0

\* The children a handler working on parent p may touch.
Owned(p) == FreeIds(child_free) \cup (IF p \in ParentsInUse THEN Held(parents[p]) ELSE {})

-----------------------------------------------------------------------------
(* A handler that touches one parent and what it owns.                     *)

\* The room of a child in use.
LEMMA RoomBounds ==
  ASSUME DivisibleLots, NEW i \in Instruments, NEW p, NEW ch, ChildOK(ch, p)
  PROVE  /\ Room(i, ch) \in Nat
         /\ ToCanonicalLots(ch.leaves, i, ch.ex) \in Nat
         /\ ToCanonicalLots(ch.leaves, i, ch.ex) <= Room(i, ch)
         /\ ch.state \in Live => Room(i, ch) > 0
         /\ UniformLots => Room(i, ch) = ch.leaves
<1> DEFINE n == ToCanonicalLots(ch.leaves, i, ch.ex)
<1>1. n \in Nat
  BY Canonical DEF ChildOK
<1>2. Room(i, ch) = IF n = 0 /\ ch.state \in Live THEN 1 ELSE n
  BY DEF Room
<1>3. UniformLots => n = ch.leaves
  BY UniformToCanonical DEF ChildOK
<1> HIDE DEF n
<1>4. /\ Room(i, ch) \in Nat /\ n <= Room(i, ch)
      /\ ch.state \in Live => Room(i, ch) > 0
  BY <1>1, <1>2
<1>5. UniformLots => Room(i, ch) = ch.leaves
  BY <1>1, <1>2, <1>3 DEF ChildOK
<1> QED BY <1>1, <1>4, <1>5 DEF n

\* A family depends on the records and timers of its own children only.
LEMMA FamilyStable ==
  ASSUME NEW p, NEW par, NEW cs, NEW tm, NEW cs2, NEW tm2,
         Family(p, par, cs, tm),
         \A s \in 1..par.child_count : /\ cs2[par.children[s]] = cs[par.children[s]]
                                       /\ tm2[par.children[s]] = tm[par.children[s]]
  PROVE  /\ Family(p, par, cs2, tm2)
         /\ Working(par, cs) => Working(par, cs2)
<1>1. Fits(par, cs2)
  <2>1. PICK at \in [1..par.child_count -> 0..par.leaves] :
          /\ \A s \in 1..par.child_count :
               at[s] + Room(par.instr, cs[par.children[s]]) <= par.leaves
          /\ \A r, s \in 1..par.child_count :
               r < s => at[r] + Room(par.instr, cs[par.children[r]]) <= at[s]
    BY DEF Family, Fits
  <2> QED BY <2>1 DEF Fits
<1> QED BY <1>1 DEF Family, Working

\* The two free lists are sound.
LEMMA ListsFree ==
  ASSUME CoreInv
  PROVE  IsFreeList(parent_free, ParentIds) /\ IsFreeList(child_free, ChildIds)
BY DEF CoreInv

LEMMA FreeIdsType ==
  ASSUME NEW S, NEW f, IsFreeList(f, S)
  PROVE  FreeIds(f) \subseteq S
BY DEF IsFreeList, FreeIds

\* No other parent holds what p owns.
LEMMA OwnedApart ==
  ASSUME CoreInv, NEW p \in ParentIds, NEW q \in ParentsInUse, q # p, NEW c \in Held(parents[q])
  PROVE  c \notin Owned(p) /\ c \in ChildIds
<1>1. PICK s \in 1..parents[q].child_count : c = parents[q].children[s]
  BY DEF Held
<1>2. q \in ParentIds
  BY DEF ParentsInUse
<1>3. c \in ChildIds
  <2>1. parents[q] \in ParentOrder /\ DOMAIN parents[q].children = 1..parents[q].child_count
    BY <1>2 DEF CoreInv, TypeOK
  <2>2. parents[q].children \in SlotArray
    BY <2>1 DEF ParentOrder
  <2>3. PICK n \in 0..kMaxChildrenPerParent : parents[q].children \in [1..n -> ChildIds]
    BY <2>2 DEF SlotArray
  <2> QED BY <1>1, <2>1, <2>3
<1>4. c \notin FreeIds(child_free)
  BY <1>3 DEF CoreInv
<1>5. children[c].parent = q
  BY <1>1 DEF CoreInv, Family, ChildOK
<1>6. p \in ParentsInUse => c \notin Held(parents[p])
  BY <1>5 DEF CoreInv, Family, ChildOK, Held
<1> QED BY <1>3, <1>4, <1>6 DEF Owned

LEMMA Preserve ==
  ASSUME CoreInv, TypeOK', NEW p \in ParentIds,
         IsFreeList(parent_free', ParentIds), IsFreeList(child_free', ChildIds),
         \A q \in ParentIds \ {p} :
           /\ parents'[q] = parents[q]
           /\ q \in FreeIds(parent_free') <=> q \in FreeIds(parent_free),
         \A c \in ChildIds \ Owned(p) : /\ children'[c] = children[c] /\ timers'[c] = timers[c]
                                        /\ c \notin FreeIds(child_free'),
         \A c \in Owned(p) :
           c \in FreeIds(child_free') <=> ~(p \in ParentsInUse' /\ c \in Held(parents'[p])),
         p \in ParentsInUse' =>
           /\ Held(parents'[p]) \subseteq Owned(p)
           /\ Family(p, parents'[p], children', timers')
           /\ Working(parents'[p], children'),
         \A c \in FreeIds(child_free') : timers'[c] = 0
  PROVE  CoreInv'
<1>1. \A q \in ParentIds \ {p} : q \in ParentsInUse' <=> q \in ParentsInUse
  BY DEF ParentsInUse
<1>2. ParentsInUse' \subseteq ParentIds /\ ParentsInUse \subseteq ParentIds
  BY DEF ParentsInUse
<1>3. ASSUME NEW q \in ParentsInUse', q # p
      PROVE  /\ Family(q, parents'[q], children', timers')
             /\ Working(parents'[q], children')
  <2>1. q \in ParentsInUse /\ parents'[q] = parents[q]
    BY <1>1, <1>2, <1>3
  <2>2. \A s \in 1..parents[q].child_count :
          /\ children'[parents[q].children[s]] = children[parents[q].children[s]]
          /\ timers'[parents[q].children[s]] = timers[parents[q].children[s]]
    <3> SUFFICES ASSUME NEW s \in 1..parents[q].child_count
                 PROVE  parents[q].children[s] \in ChildIds \ Owned(p)
      OBVIOUS
    <3>1. parents[q].children[s] \in Held(parents[q])
      BY DEF Held
    <3> QED BY <1>3, <2>1, <3>1, OwnedApart
  <2>3. /\ Family(q, parents[q], children, timers)
        /\ Working(parents[q], children)
    BY <2>1 DEF CoreInv
  <2> QED BY <2>1, <2>2, <2>3, FamilyStable
<1>4. ASSUME NEW c \in ChildIds
      PROVE  c \in FreeIds(child_free') <=> \A q \in ParentsInUse' : c \notin Held(parents'[q])
  <2>1. CASE c \in Owned(p)
    <3>1. \A q \in ParentsInUse' : q # p => c \notin Held(parents'[q])
      BY <1>1, <1>2, <2>1, OwnedApart
    <3> QED BY <2>1, <3>1
  <2>2. CASE c \notin Owned(p)
    <3>1. c \notin FreeIds(child_free)
      BY <2>2 DEF Owned
    <3>2. PICK q \in ParentsInUse : c \in Held(parents[q])
      BY <3>1 DEF CoreInv
    <3>3. q # p
      BY <2>2, <3>2 DEF Owned
    <3>4. q \in ParentsInUse' /\ c \in Held(parents'[q])
      BY <1>1, <1>2, <3>2, <3>3
    <3> QED BY <2>2, <3>4
  <2> QED BY <2>1, <2>2
<1> QED BY <1>3, <1>4 DEF CoreInv

-----------------------------------------------------------------------------
(* Storing the values a handler has computed.                              *)

\* w is a record with the fields a handler passes on.
IsDraft(w) ==
  /\ w = [par |-> w.par, children |-> w.children, timers |-> w.timers, open |-> w.open,
          child_free |-> w.child_free, parent_free |-> w.parent_free]
  /\ w.par \in ParentOrder
  /\ w.children \in [ChildIds -> ChildOrderState]
  /\ w.timers \in [ChildIds -> Nat]
  /\ w.open \in [Instruments -> [Dirs -> Int]]

\* The slots of a parent record are as many as its child_count says.
SlotsOK(par) == par \in ParentOrder /\ DOMAIN par.children = 1..par.child_count

\* In w, parent p is in use and holds no child: all it owns is free and untimed.
Loose(p, w) ==
  /\ IsDraft(w)
  /\ IsFreeList(w.parent_free, ParentIds) /\ p \notin FreeIds(w.parent_free)
  /\ \A q \in ParentIds \ {p} : q \in FreeIds(w.parent_free) <=> q \in FreeIds(parent_free)
  /\ IsFreeList(w.child_free, ChildIds) /\ FreeIds(w.child_free) = Owned(p)
  /\ \A c \in ChildIds \ Owned(p) : w.children[c] = children[c] /\ w.timers[c] = timers[c]
  /\ \A c \in Owned(p) : w.timers[c] = 0

\* The types of the variables that a handler leaves to its callers ...
OutsideOK ==
  /\ net_qty_lots \in [Instruments -> Int]
  /\ unwind_only \in [Instruments -> BOOLEAN]
  /\ signals \in 0..MaxSignals /\ cancels \in 0..MaxCancels

\* ... and of all that Store does not assign.
RestOK ==
  /\ OutsideOK
  /\ outbound \subseteq OutboundOrders
  /\ reject_queue \in Seq(OrderReject)
  /\ Len(reject_queue) <= kRejectQueue

\* No other parent, no child of another parent and no place in a free list of
\* another parent or its children is changed.
Apart(p) ==
  /\ \A q \in ParentIds \ {p} :
       /\ parents'[q] = parents[q]
       /\ q \in FreeIds(parent_free') <=> q \in FreeIds(parent_free)
  /\ \A c \in ChildIds \ Owned(p) : children'[c] = children[c] /\ c \notin FreeIds(child_free')

\* rec is still the order of par, and wants no more than it.
SameOrder(rec, par) ==
  /\ rec.instr = par.instr /\ rec.dir = par.dir
  /\ rec.reduce_only = par.reduce_only
  /\ rec.cum = par.cum
  /\ rec.leaves <= par.leaves

\* The orders that are sent out are those of new children of parent p, whose record
\* was par, one for each child.
Sends(p, par) ==
  /\ outbound \subseteq outbound'
  /\ \A o \in outbound' \ outbound :
       /\ o.child \in Owned(p) /\ o.child \notin FreeIds(child_free')
       /\ children'[o.child].parent = p
       /\ children'[o.child].state = "PENDING_NEW"
       /\ children'[o.child].cum = 0
       /\ children'[o.child].leaves = o.qty
       /\ children'[o.child].ex = o.ex
       /\ o.instr = par.instr /\ o.dir = par.dir
  /\ \A o, o2 \in outbound' \ outbound : o.child = o2.child => o = o2

\* What a handler that has computed par as the record of p does in the end.
Effect(p, par) == Apart(p) /\ SameOrder(parents'[p], par) /\ Sends(p, par)

LEMMA StoreType ==
  ASSUME CoreInv, NEW p \in ParentIds, NEW par, SlotsOK(par), NEW w, IsDraft(w),
         IsFreeList(w.parent_free, ParentIds), IsFreeList(w.child_free, ChildIds),
         Store(p, par, w), RestOK'
  PROVE  TypeOK'
<1>1. parents \in [ParentIds -> ParentOrder]
  BY DEF CoreInv, TypeOK
<1>2. parents' = [parents EXCEPT ![p] = par]
  BY DEF Store
<1>3. parents' \in [ParentIds -> ParentOrder]
  BY <1>1, <1>2 DEF SlotsOK
<1>4. \A q \in ParentIds : DOMAIN parents'[q].children = 1..parents'[q].child_count
  BY <1>1, <1>2 DEF SlotsOK, CoreInv, TypeOK
<1>5. /\ parent_free'.top \in Nat /\ parent_free'.ids \in [1..parent_free'.top -> ParentIds]
      /\ child_free'.top \in Nat /\ child_free'.ids \in [1..child_free'.top -> ChildIds]
  BY DEF Store, IsFreeList
<1>6. /\ children' \in [ChildIds -> ChildOrderState]
      /\ timers' \in [ChildIds -> Nat]
      /\ open_lots' \in [Instruments -> [Dirs -> Int]]
  BY DEF Store, IsDraft
<1> QED BY <1>3, <1>4, <1>5, <1>6 DEF RestOK, OutsideOK, TypeOK

\* The parent goes back to the pool.
LEMMA DeadStep ==
  ASSUME CoreInv, NEW p \in ParentIds, NEW par, SlotsOK(par), NEW w, Loose(p, w),
         Store(p, par, FreeParent(p, w)), RestOK'
  PROVE  CoreInv' /\ Apart(p) /\ p \notin ParentsInUse' /\ parents'[p] = par
<1> DEFINE v == FreeParent(p, w)
<1>1. /\ v.children = w.children /\ v.timers = w.timers /\ v.open = w.open /\ v.par = w.par
      /\ v.child_free = w.child_free /\ v.parent_free = PushOne(w.parent_free, p)
      /\ IsDraft(v)
  BY DEF Loose, IsDraft, FreeParent
<1> HIDE DEF v
<1>2. /\ IsFreeList(v.parent_free, ParentIds)
      /\ FreeIds(v.parent_free) = FreeIds(w.parent_free) \cup {p}
  BY <1>1, PushOneFree DEF Loose
<1>3. Store(p, par, v)
  BY DEF v
<1>4. TypeOK'
  BY <1>1, <1>2, <1>3, StoreType DEF Loose
<1>5. /\ parents' = [parents EXCEPT ![p] = par]
      /\ children' = w.children /\ timers' = w.timers
      /\ child_free' = w.child_free /\ parent_free' = v.parent_free
  BY <1>1, <1>3 DEF Store
<1>6. p \notin ParentsInUse'
  BY <1>2, <1>5 DEF ParentsInUse
<1>7. \A q \in ParentIds \ {p} :
        /\ parents'[q] = parents[q]
        /\ q \in FreeIds(parent_free') <=> q \in FreeIds(parent_free)
  BY <1>2, <1>5 DEF Loose, CoreInv, TypeOK
<1>8. /\ \A c \in ChildIds \ Owned(p) : /\ children'[c] = children[c] /\ timers'[c] = timers[c]
                                        /\ c \notin FreeIds(child_free')
      /\ \A c \in Owned(p) : c \in FreeIds(child_free')
      /\ \A c \in FreeIds(child_free') : timers'[c] = 0
  BY <1>5 DEF Loose
<1>9. IsFreeList(parent_free', ParentIds) /\ IsFreeList(child_free', ChildIds)
  BY <1>2, <1>5 DEF Loose
<1>10. CoreInv'
  BY <1>4, <1>6, <1>7, <1>8, <1>9, Preserve
<1>11. Apart(p)
  BY <1>7, <1>8 DEF Apart
<1>12. parents'[p] = par
  BY <1>5 DEF CoreInv, TypeOK
<1> QED BY <1>6, <1>10, <1>11, <1>12

\* notify_reject keeps the queue's type and capacity.
LEMMA NotifyType ==
  ASSUME TypeOK, NEW i \in Nat, NEW dir \in Dirs, NEW qty \in Int, NEW reason \in RejectReasons,
         NotifyReject(i, dir, qty, reason)
  PROVE  /\ reject_queue' \in Seq(OrderReject)
         /\ Len(reject_queue') <= kRejectQueue
<1> DEFINE r == [instr |-> i, dir |-> dir, qty |-> qty, reason |-> reason]
<1>1. reject_queue \in Seq(OrderReject) /\ Len(reject_queue) <= kRejectQueue /\ kRejectQueue \in Nat
  BY CoreAssumption DEF TypeOK
<1>2. r \in OrderReject
  BY DEF OrderReject
<1>3. \/ reject_queue' = Append(reject_queue, r) /\ Len(reject_queue) < kRejectQueue
      \/ reject_queue' = reject_queue
  BY DEF NotifyReject
<1> HIDE DEF r
<1>4. CASE reject_queue' = Append(reject_queue, r) /\ Len(reject_queue) < kRejectQueue
  <2>1. Append(reject_queue, r) \in Seq(OrderReject) /\ Len(Append(reject_queue, r)) = Len(reject_queue) + 1
    BY <1>1, <1>2
  <2>2. Len(reject_queue) \in Nat
    BY <1>1
  <2> QED BY <1>1, <1>4, <2>1, <2>2
<1>5. CASE reject_queue' = reject_queue
  BY <1>1, <1>5
<1> QED BY <1>3, <1>4, <1>5

\* notify_reject tells the strategies, or finds the queue full.
LEMMA NotifyTells ==
  ASSUME TypeOK, NEW i, NEW dir, NEW qty, NEW reason, NotifyReject(i, dir, qty, reason)
  PROVE  Told
<1> DEFINE r == [instr |-> i, dir |-> dir, qty |-> qty, reason |-> reason]
<1>1. /\ reject_queue \in Seq(OrderReject) /\ Len(reject_queue) \in Nat
      /\ Len(reject_queue) <= kRejectQueue /\ kRejectQueue \in Nat
  BY CoreAssumption DEF TypeOK
<1>2. reject_queue' = IF Len(reject_queue) < kRejectQueue THEN Append(reject_queue, r)
                                                          ELSE reject_queue
  BY DEF NotifyReject
<1> HIDE DEF r
<1>3. Len(Append(reject_queue, r)) = Len(reject_queue) + 1
  BY <1>1
<1> QED BY <1>1, <1>2, <1>3 DEF Told

\* A handler that sends nothing.
LEMMA NothingSent ==
  ASSUME NEW p, NEW par, outbound' = outbound
  PROVE  Sends(p, par)
BY DEF Sends

\* GiveUp frees the parent and tells the strategies.
LEMMA GiveUpStep ==
  ASSUME CoreInv, NEW p \in ParentIds, NEW w, Loose(p, w), SlotsOK(w.par),
         NEW reason \in RejectReasons, GiveUp(p, w, reason),
         OutsideOK'
  PROVE  CoreInv' /\ Effect(p, w.par) /\ Told
<1> DEFINE st  == IF w.par.cum > 0 THEN "PARTIALLY_FILLED" ELSE "REJECTED"
           par == [w.par EXCEPT !.state = st]
<1>1. st \in States
  BY DEF States
<1> HIDE DEF st
<1>2. SlotsOK(par)
  BY <1>1 DEF SlotsOK, ParentOrder
<1>3. Store(p, par, FreeParent(p, w))
  BY DEF GiveUp, st
<1>4. w.par.instr \in Nat /\ w.par.dir \in Dirs /\ w.par.leaves \in Int
  BY DEF SlotsOK, ParentOrder
<1>5. RestOK'
  <2>1. /\ reject_queue' \in Seq(OrderReject)
        /\ Len(reject_queue') <= kRejectQueue
    BY <1>4, NotifyType DEF GiveUp, CoreInv
  <2> QED BY <2>1 DEF GiveUp, CoreInv, TypeOK, RestOK
<1>6. par.instr = w.par.instr /\ par.dir = w.par.dir /\ par.reduce_only = w.par.reduce_only
      /\ par.cum = w.par.cum /\ par.leaves = w.par.leaves
  BY DEF SlotsOK, ParentOrder
<1> HIDE DEF par
<1>7. CoreInv' /\ Apart(p) /\ parents'[p] = par
  BY <1>2, <1>3, <1>5, DeadStep
<1>8. SameOrder(parents'[p], w.par)
  BY <1>4, <1>6, <1>7 DEF SameOrder
<1>9. Sends(p, w.par)
  BY NothingSent DEF GiveUp
<1>10. Told
  BY NotifyTells DEF GiveUp, CoreInv
<1> QED BY <1>7, <1>8, <1>9, <1>10 DEF Effect

-----------------------------------------------------------------------------
(* dispatch_child_orders                                                   *)

\* A leg asks for at least one lot and for no more than is left.
LEMMA LegBounds ==
  ASSUME NEW target \in Nat, NEW split, IsSplit(split, target), NEW k \in 1..split.count
  PROVE  /\ k - 1 \in 0..split.count /\ k \in 0..split.count
         /\ split.rem[k - 1] \in 0..target /\ split.rem[k] \in 0..target
         /\ split.ex[k] \in Exchanges
         /\ LegQty(split, k) \in Nat \ {0}
         /\ LegQty(split, k) = split.rem[k - 1] - split.rem[k]
<1>1. k - 1 \in 0..split.count /\ k \in 0..split.count /\ k - 1 < k
  BY DEF IsSplit
<1>2. split.rem[k - 1] \in 0..target /\ split.rem[k] \in 0..target /\ split.ex[k] \in Exchanges
  BY <1>1 DEF IsSplit
<1>3. split.rem[k] < split.rem[k - 1]
  BY <1>1 DEF IsSplit, Decreasing
<1> QED BY <1>1, <1>2, <1>3 DEF LegQty

\* The number of legs that get a child.
LEMMA DispatchedBounds ==
  ASSUME NEW target \in Nat, NEW split, IsSplit(split, target), NEW f, IsFreeList(f, ChildIds)
  PROVE  /\ Dispatched(split, f) \in 0..f.top
         /\ Dispatched(split, f) \in 0..split.count
         /\ Dispatched(split, f) \in 0..kMaxChildrenPerParent
BY CoreAssumption DEF Dispatched, IsSplit, IsFreeList

\* The records and timers of the children that a dispatch creates.
LEMMA LegChildren ==
  ASSUME DivisibleLots, NEW p \in ParentIds, NEW i \in Instruments,
         NEW target \in Nat, NEW split, IsSplit(split, target), NEW k \in 1..split.count
  PROVE  LET ch == NewChild(p, i, split, k)
         IN  /\ ch \in ChildOrderState
             /\ ChildOK(ch, p)
             /\ ch.state = "PENDING_NEW" /\ ch.cum = 0
             /\ Room(i, ch) \in Nat /\ Room(i, ch) <= LegQty(split, k)
<1> DEFINE lots == ToLots(LegQty(split, k), i, split.ex[k])
           ch   == NewChild(p, i, split, k)
<1>1. split.ex[k] \in Exchanges /\ LegQty(split, k) \in Nat \ {0}
  BY LegBounds
<1>2. /\ lots \in Nat /\ ToCanonicalLots(lots, i, split.ex[k]) <= LegQty(split, k)
      /\ UniformLots => lots > 0
  BY <1>1, LegLots, UniformToLots
<1>3. ch = [parent |-> p, ex |-> split.ex[k], qty |-> lots, cum |-> 0, leaves |-> lots,
            state |-> "PENDING_NEW"]
  BY DEF NewChild
<1> HIDE DEF lots, ch
<1>4. ch \in ChildOrderState
  BY <1>1, <1>2, <1>3 DEF ChildOrderState, States
<1>5. /\ ChildOK(ch, p) /\ ch.state = "PENDING_NEW" /\ ch.leaves = lots
      /\ ch.cum = 0 /\ ch.ex = split.ex[k]
  BY <1>1, <1>2, <1>3 DEF ChildOK
<1>6. Room(i, ch) \in Nat
  BY <1>5, RoomBounds
<1>7. Room(i, ch) <= LegQty(split, k)
  BY <1>1, <1>2, <1>5 DEF Room
<1> QED BY <1>4, <1>5, <1>6, <1>7 DEF ch

\* Reserving and releasing keeps the type.
LEMMA AddOpenType ==
  ASSUME NEW open \in [Instruments -> [Dirs -> Int]], NEW i \in Instruments,
         NEW dir \in Dirs, NEW n \in Int
  PROVE  AddOpen(open, i, dir, n) \in [Instruments -> [Dirs -> Int]]
BY DEF AddOpen

\* The legs before n, each at its own place in the target, do not overlap.
LEMMA LegsFit ==
  ASSUME NEW target \in Nat, NEW split, IsSplit(split, target), NEW n \in 0..split.count,
         NEW par, par.child_count = n, par.leaves = target, NEW cs,
         \A k \in 1..n : /\ Room(par.instr, cs[par.children[k]]) \in Nat
                         /\ Room(par.instr, cs[par.children[k]]) <= LegQty(split, k)
  PROVE  Fits(par, cs)
<1> DEFINE at   == [k \in 1..n |-> target - split.rem[k - 1]]
           room == [k \in 1..n |-> Room(par.instr, cs[par.children[k]])]
<1>1. ASSUME NEW k \in 1..n
      PROVE  /\ k \in 1..split.count
             /\ split.rem[k - 1] \in 0..target /\ split.rem[k] \in 0..target
             /\ LegQty(split, k) = split.rem[k - 1] - split.rem[k]
  <2>1. k \in 1..split.count
    BY DEF IsSplit
  <2> QED BY <2>1, LegBounds
<1>2. \A k \in 1..n : room[k] \in Nat /\ room[k] <= LegQty(split, k)
  OBVIOUS
<1>3. \A k \in 1..n : at[k] = target - split.rem[k - 1]
  OBVIOUS
<1>4. at \in [1..n -> 0..target]
  <2>1. \A k \in 1..n : target - split.rem[k - 1] \in 0..target
    <3> SUFFICES ASSUME NEW k \in 1..n PROVE target - split.rem[k - 1] \in 0..target
      OBVIOUS
    <3>1. split.rem[k - 1] \in 0..target
      BY <1>1
    <3> QED BY <3>1
  <2> QED BY <2>1
<1> HIDE DEF at, room
<1>5. ASSUME NEW k \in 1..n
      PROVE  at[k] + room[k] <= target - split.rem[k] /\ split.rem[k] \in 0..target
  BY <1>1, <1>2, <1>3
<1>6. ASSUME NEW k \in 1..n PROVE at[k] + room[k] <= target
  <2>1. at[k] \in 0..target /\ room[k] \in Nat
    BY <1>2, <1>4
  <2> QED BY <1>5, <2>1
<1>7. ASSUME NEW r \in 1..n, NEW s \in 1..n, r < s
      PROVE  at[r] + room[r] <= at[s]
  <2>1. r \in 0..split.count /\ s - 1 \in 0..split.count /\ (r = s - 1 \/ r < s - 1)
    BY <1>1, <1>7 DEF IsSplit
  <2>2. split.rem[s - 1] \in 0..target /\ split.rem[r] \in 0..target
    BY <2>1 DEF IsSplit
  <2>3. split.rem[s - 1] <= split.rem[r]
    <3>1. CASE r = s - 1
      BY <2>2, <3>1
    <3>2. CASE r < s - 1
      <4>1. split.rem[s - 1] < split.rem[r]
        BY <2>1, <3>2 DEF IsSplit, Decreasing
      <4> QED BY <2>2, <4>1
    <3> QED BY <2>1, <3>1, <3>2
  <2>4. at[s] = target - split.rem[s - 1]
    BY <1>3
  <2>5. at[r] \in 0..target /\ room[r] \in Nat /\ at[r] + room[r] <= target - split.rem[r]
    BY <1>2, <1>4, <1>5
  <2> QED BY <2>2, <2>3, <2>4, <2>5
<1>8. \A k \in 1..n : room[k] = Room(par.instr, cs[par.children[k]])
  BY DEF room
<1> QED BY <1>4, <1>6, <1>7, <1>8 DEF Fits

\* Parent p, whose draft was w, got no child: it is free again, and the lots that the
\* split would have traded are no longer reserved.
Unsent(p, w, split) ==
  /\ Told
  /\ outbound' = outbound /\ child_free' = w.child_free /\ timers' = w.timers
  /\ parent_free' = PushOne(w.parent_free, p)
  /\ open_lots' = AddOpen(w.open, w.par.instr, w.par.dir,
                          split.rem[split.count] - split.rem[0])

\* What it has done when there were children for n of its legs: it releases the gap, and
\* no child works more than its leg.
Sent(p, w, split) ==
  \E n \in 1..split.count :
    /\ parents'[p].child_count = n /\ parents'[p].leaves = w.par.leaves
    /\ open_lots' = AddOpen(w.open, w.par.instr, w.par.dir,
                            split.rem[split.count] - split.rem[n])
    /\ \A s \in 1..n :
         Room(w.par.instr, children'[parents'[p].children[s]]) <= LegQty(split, s)

LEMMA DispatchStep ==
  ASSUME CoreInv, DivisibleLots,
         NEW p \in ParentIds, NEW w, Loose(p, w), w.par.instr \in Instruments,
         w.par.leaves > 0, w.par.leaves = w.par.total - w.par.cum, w.par.cum >= 0,
         w.par.state = "PENDING_NEW",
         NEW split, IsSplit(split, w.par.leaves), DispatchChildOrders(p, w, split),
         OutsideOK'
  PROVE  /\ CoreInv' /\ Effect(p, w.par)
         /\ (p \in ParentsInUse' /\ Sent(p, w, split)) \/ Unsent(p, w, split)
<1> DEFINE n   == Dispatched(split, w.child_free)
           ids == Popped(w.child_free, n)
           i   == w.par.instr
           ws  == {ids[k] : k \in 1..n}
<1>1. /\ w.par \in ParentOrder /\ w.par.leaves \in Nat /\ w.par.dir \in Dirs
      /\ w.children \in [ChildIds -> ChildOrderState] /\ w.timers \in [ChildIds -> Nat]
      /\ w.open \in [Instruments -> [Dirs -> Int]]
      /\ IsFreeList(w.child_free, ChildIds)
  BY DEF Loose, IsDraft, ParentOrder
<1>2. n \in 0..w.child_free.top /\ n \in 0..split.count /\ n \in 0..kMaxChildrenPerParent
  BY <1>1, DispatchedBounds
<1>3. /\ IsFreeList(Pop(w.child_free, n), ChildIds)
      /\ ids \in [1..n -> ChildIds]
      /\ \A k \in 1..n : ids[k] \in FreeIds(w.child_free)
      /\ \A j, k \in 1..n : ids[j] = ids[k] => j = k
      /\ FreeIds(Pop(w.child_free, n)) = FreeIds(w.child_free) \ ws
  <2> HIDE DEF n
  <2>1. IsFreeList(Pop(w.child_free, n), ChildIds)
    BY <1>1, <1>2, PopFree
  <2>2. Popped(w.child_free, n) \in [1..n -> ChildIds]
    BY <1>1, <1>2, PopFree
  <2>3. \A k \in 1..n : Popped(w.child_free, n)[k] \in FreeIds(w.child_free)
    BY <1>1, <1>2, PopFree
  <2>4. \A j, k \in 1..n : Popped(w.child_free, n)[j] = Popped(w.child_free, n)[k] => j = k
    BY <1>1, <1>2, PopFree
  <2>5. FreeIds(Pop(w.child_free, n))
           = FreeIds(w.child_free) \ {Popped(w.child_free, n)[k] : k \in 1..n}
    BY <1>1, <1>2, PopFree
  <2> QED BY <2>1, <2>2, <2>3, <2>4, <2>5
<1>miss. PICK missed \in SUBSET (1..n) :
           /\ missed # {} => SlotOverflow
           /\ LET v == AfterLegs(p, w, split, n, missed)
              IN  IF n = 0 THEN GiveUp(p, v, "CHILD_POOL_EXHAUSTED")
                  ELSE /\ Store(p, v.par, v)
                       /\ outbound' = outbound \cup
                            {OutboundOrder(v.par.children[k], w.par, split, k) :
                               k \in Accepted(split, n)}
                       /\ UNCHANGED reject_queue
  BY DEF DispatchChildOrders
<1> DEFINE w1 == AfterLegs(p, w, split, n, missed)
<1>4. IF n = 0 THEN GiveUp(p, w1, "CHILD_POOL_EXHAUSTED")
      ELSE /\ Store(p, w1.par, w1)
           /\ outbound' = outbound \cup {OutboundOrder(w1.par.children[k], w.par, split, k) :
                                           k \in Accepted(split, n)}
           /\ UNCHANGED reject_queue
  BY <1>miss
<1>5. /\ w1.par = [w.par EXCEPT !.child_count = n, !.children = ids]
      /\ w1.children = [c \in ChildIds |-> IF \E k \in 1..n : ids[k] = c
                                           THEN NewChild(p, i, split, LastLeg(ids, n, c))
                                           ELSE w.children[c]]
      /\ w1.timers = [c \in ChildIds |->
                        w.timers[c] + Cardinality({k \in (1..n) \ missed : ids[k] = c})]
      /\ w1.open = AddOpen(w.open, i, w.par.dir, split.rem[split.count] - split.rem[n])
      /\ w1.child_free = Pop(w.child_free, n)
      /\ w1.parent_free = w.parent_free
      /\ w1 = [par |-> w1.par, children |-> w1.children, timers |-> w1.timers,
               open |-> w1.open, child_free |-> w1.child_free, parent_free |-> w1.parent_free]
  <2> HIDE DEF n
  <2> QED BY DEF AfterLegs
<1> HIDE DEF n, ids, w1
<1>6. /\ SlotsOK(w1.par)
      /\ w1.par.child_count = n /\ w1.par.children = ids
      /\ w1.par.instr = i /\ w1.par.dir = w.par.dir
      /\ w1.par.reduce_only = w.par.reduce_only
      /\ w1.par.leaves = w.par.leaves /\ w1.par.cum = w.par.cum
      /\ w1.par.total = w.par.total /\ w1.par.state = "PENDING_NEW"
  <2>1. ids \in SlotArray
    BY <1>2, <1>3 DEF SlotArray
  <2> QED BY <1>1, <1>2, <1>3, <1>5, <2>1 DEF SlotsOK, ParentOrder
<1>7. ASSUME NEW k \in 1..n
      PROVE  /\ w1.children[ids[k]] = NewChild(p, i, split, k)
             /\ NewChild(p, i, split, k) \in ChildOrderState
             /\ w1.timers[ids[k]] \in {0, 1}
             /\ ~SlotOverflow => w1.timers[ids[k]] = 1
  <2>1. LastLeg(ids, n, ids[k]) = k
    <3>1. \A j \in 1..n : ids[j] = ids[k] => j = k
      BY <1>3
    <3>2. \A j \in (k + 1)..n : j \in 1..n /\ j # k
      BY <1>2
    <3> QED BY <3>1, <3>2 DEF LastLeg
  <2>2. ids[k] \in ChildIds
    BY <1>3
  <2>3. {j \in (1..n) \ missed : ids[j] = ids[k]} = IF k \in missed THEN {} ELSE {k}
    BY <1>3
  <2>4. w.timers[ids[k]] = 0
    BY <1>3 DEF Loose
  <2>5. k \in 1..split.count
    BY <1>2 DEF IsSplit
  <2>6. Cardinality({k}) = 1 /\ Cardinality({}) = 0
    BY FS_Singleton, FS_EmptySet
  <2>7. NewChild(p, i, split, k) \in ChildOrderState
    BY <1>1, <2>5, LegChildren
  <2>8. w1.children[ids[k]] = NewChild(p, i, split, k)
    BY <1>5, <2>1, <2>2
  <2>9. w1.timers[ids[k]]
          = w.timers[ids[k]] + Cardinality({j \in (1..n) \ missed : ids[j] = ids[k]})
    BY <1>5, <2>2
  <2>10. w1.timers[ids[k]] = IF k \in missed THEN 0 ELSE 1
    <3>1. CASE k \in missed
      <4>1. {j \in (1..n) \ missed : ids[j] = ids[k]} = {}
        BY <2>3, <3>1
      <4>2. w1.timers[ids[k]] = w.timers[ids[k]] + Cardinality({})
        BY <2>9, <4>1, Zenon
      <4> QED BY <2>4, <2>6, <3>1, <4>2
    <3>2. CASE k \notin missed
      <4>1. {j \in (1..n) \ missed : ids[j] = ids[k]} = {k}
        BY <2>3, <3>2
      <4>2. w1.timers[ids[k]] = w.timers[ids[k]] + Cardinality({k})
        BY <2>9, <4>1, Zenon
      <4> QED BY <2>4, <2>6, <3>2, <4>2
    <3> QED BY <3>1, <3>2
  <2>11. ~SlotOverflow => k \notin missed
    BY <1>miss
  <2> QED BY <2>7, <2>8, <2>10, <2>11
<1>8. ASSUME NEW c \in ChildIds \ ws
      PROVE  w1.children[c] = w.children[c] /\ w1.timers[c] = w.timers[c]
  <2>1. ~\E k \in 1..n : ids[k] = c
    BY <1>8
  <2>2. {k \in (1..n) \ missed : ids[k] = c} = {}
    BY <2>1
  <2>3. Cardinality({}) = 0 /\ w.timers[c] \in Nat
    BY <1>1, FS_EmptySet
  <2> QED BY <1>5, <2>1, <2>2, <2>3
<1>9. IsDraft(w1)
  <2>1. \A c \in ChildIds : w1.children[c] \in ChildOrderState /\ w1.timers[c] \in Nat
    BY <1>1, <1>7, <1>8
  <2>2. w1.children \in [ChildIds -> ChildOrderState] /\ w1.timers \in [ChildIds -> Nat]
    BY <1>5, <2>1
  <2>3. split.rem[split.count] - split.rem[n] \in Int
    <3>1. split.count \in 0..split.count /\ n \in 0..split.count
      BY <1>2 DEF IsSplit
    <3>2. split.rem[split.count] \in 0..w.par.leaves /\ split.rem[n] \in 0..w.par.leaves
      BY <3>1 DEF IsSplit
    <3> QED BY <1>1, <3>2
  <2>4. w1.open \in [Instruments -> [Dirs -> Int]]
    <3> DEFINE g == split.rem[split.count] - split.rem[n]
    <3>1. g \in Int
      BY <2>3
    <3>2. w1.open = AddOpen(w.open, w.par.instr, w.par.dir, g)
      BY <1>5
    <3> HIDE DEF g
    <3> QED BY <1>1, <3>1, <3>2 DEF AddOpen
  <2> QED BY <1>5, <1>6, <2>2, <2>4 DEF IsDraft, SlotsOK
<1>10. CASE n = 0
  <2>1. ws = {}
    BY <1>10
  <2>2. Loose(p, w1)
    <3>1. \A c \in ChildIds : w1.children[c] = w.children[c] /\ w1.timers[c] = w.timers[c]
      BY <1>8, <2>1
    <3>2. Owned(p) \subseteq ChildIds
      BY <1>1, FreeIdsType DEF Loose
    <3> QED BY <1>3, <1>5, <1>9, <2>1, <3>1, <3>2 DEF Loose
  <2>3. GiveUp(p, w1, "CHILD_POOL_EXHAUSTED")
    BY <1>4, <1>10
  <2>4. "CHILD_POOL_EXHAUSTED" \in RejectReasons
    BY DEF RejectReasons
  <2>5. CoreInv' /\ Effect(p, w1.par) /\ Told
    BY <1>6, <2>2, <2>3, <2>4, GiveUpStep
  <2>6. Effect(p, w.par)
    BY <1>6, <2>5 DEF Effect, SameOrder, Sends
  <2>7. Unsent(p, w, split)
    <3>1. /\ outbound' = outbound /\ child_free' = w1.child_free /\ timers' = w1.timers
          /\ open_lots' = w1.open
          /\ parent_free' = PushOne(w1.parent_free, p)
      BY <1>5, <2>3 DEF GiveUp, Store, FreeParent
    <3>2. w1.child_free = w.child_free
      BY <1>1, <1>5, <1>10, PopNone
    <3>3. w1.timers = w.timers
      <4>1. \A c \in ChildIds : w1.timers[c] = w.timers[c]
        BY <1>8, <2>1
      <4>2. w1.timers \in [ChildIds -> Nat]
        BY <1>9 DEF IsDraft
      <4> HIDE DEF ws
      <4> QED BY <1>1, <4>1, <4>2
    <3> QED BY <1>5, <1>10, <2>5, <3>1, <3>2, <3>3 DEF Unsent
  <2> QED BY <2>5, <2>6, <2>7
<1>11. CASE n # 0
  <2>1. Store(p, w1.par, w1)
    BY <1>4, <1>11
  <2>2. /\ parents' = [parents EXCEPT ![p] = w1.par]
        /\ children' = w1.children /\ timers' = w1.timers
        /\ child_free' = Pop(w.child_free, n) /\ parent_free' = w.parent_free
    BY <1>5, <2>1 DEF Store
  <2>3. RestOK'
    <3>1. ASSUME NEW k \in Accepted(split, n)
          PROVE  OutboundOrder(w1.par.children[k], w.par, split, k)
                   \in OutboundOrders
      <4>1. k \in 1..n /\ k \in 1..split.count
        BY <1>2 DEF Accepted, IsSplit
      <4>2. split.ex[k] \in Exchanges /\ LegQty(split, k) \in Nat \ {0}
        BY <1>1, <4>1, LegBounds
      <4>3. ToLots(LegQty(split, k), i, split.ex[k]) \in Nat
        BY <4>2, LegLots
      <4>4. w.par.instr \in Nat /\ w.par.dir \in Dirs /\ w1.par.children[k] \in ChildIds
        BY <1>1, <1>3, <1>6, <4>1 DEF ParentOrder
      <4> QED BY <4>2, <4>3, <4>4 DEF OutboundOrder, OutboundOrders
    <3> QED BY <1>4, <1>11, <3>1 DEF CoreInv, TypeOK, RestOK
  <2>4. TypeOK'
    BY <1>3, <1>5, <1>6, <1>9, <2>1, <2>3, StoreType DEF Loose
  <2>5. p \in ParentsInUse' /\ parents'[p] = w1.par
    BY <2>2 DEF Loose, ParentsInUse, CoreInv, TypeOK
  <2>6. Held(parents'[p]) = ws
    BY <1>6, <2>5 DEF Held
  <2>7. FreeIds(w.child_free) = Owned(p) /\ Owned(p) \subseteq ChildIds /\ ws \subseteq Owned(p)
    BY <1>1, <1>3, FreeIdsType DEF Loose
  <2>8. Family(p, parents'[p], children', timers')
    <3>1. \A k \in 1..n : /\ ChildOK(w1.children[ids[k]], p)
                          /\ Timed(w1.timers[ids[k]], w1.children[ids[k]])
                          /\ Room(i, w1.children[ids[k]]) \in Nat
                          /\ Room(i, w1.children[ids[k]]) <= LegQty(split, k)
      <4> SUFFICES ASSUME NEW k \in 1..n
                   PROVE  /\ ChildOK(w1.children[ids[k]], p)
                          /\ Timed(w1.timers[ids[k]], w1.children[ids[k]])
                          /\ Room(i, w1.children[ids[k]]) \in Nat
                          /\ Room(i, w1.children[ids[k]]) <= LegQty(split, k)
        OBVIOUS
      <4>1. k \in 1..split.count
        BY <1>2 DEF IsSplit
      <4>2. /\ w1.children[ids[k]] = NewChild(p, i, split, k)
            /\ w1.timers[ids[k]] \in {0, 1}
            /\ ~SlotOverflow => w1.timers[ids[k]] = 1
        BY <1>7
      <4>3. /\ ChildOK(w1.children[ids[k]], p)
            /\ w1.children[ids[k]].state = "PENDING_NEW"
            /\ Room(i, w1.children[ids[k]]) \in Nat
            /\ Room(i, w1.children[ids[k]]) <= LegQty(split, k)
        BY <1>1, <4>1, <4>2, LegChildren
      <4>4. Timed(w1.timers[ids[k]], w1.children[ids[k]])
        BY <4>2, <4>3 DEF Timed, Live
      <4> QED BY <4>3, <4>4
    <3>2. Fits(w1.par, w1.children)
      <4>1. \A k \in 1..n :
              /\ Room(w1.par.instr, w1.children[w1.par.children[k]]) \in Nat
              /\ Room(w1.par.instr, w1.children[w1.par.children[k]]) <= LegQty(split, k)
        BY <1>6, <3>1
      <4> QED BY <1>1, <1>2, <1>6, <4>1, LegsFit
    <3>3. /\ w1.par.instr \in Instruments
          /\ w1.par.leaves = w1.par.total - w1.par.cum /\ w1.par.cum >= 0 /\ w1.par.leaves >= 0
      BY <1>1, <1>6
    <3>4. Family(p, w1.par, w1.children, w1.timers)
      BY <1>3, <1>6, <3>1, <3>2, <3>3 DEF Family
    <3> QED BY <2>2, <2>5, <3>4
  <2>9. Working(parents'[p], children')
    <3>1. 1 \in 1..n
      BY <1>2, <1>11
    <3>2. w1.children[ids[1]].state = "PENDING_NEW"
      <4>1. 1 \in 1..split.count
        BY <1>2, <3>1 DEF IsSplit
      <4> QED BY <1>1, <1>7, <3>1, <4>1, LegChildren
    <3> QED BY <1>6, <2>2, <2>5, <3>1, <3>2 DEF Working, Live
  <2>10. \A q \in ParentIds \ {p} :
           /\ parents'[q] = parents[q]
           /\ q \in FreeIds(parent_free') <=> q \in FreeIds(parent_free)
    BY <2>2 DEF Loose, CoreInv, TypeOK
  <2>11. \A c \in ChildIds \ Owned(p) : /\ children'[c] = children[c] /\ timers'[c] = timers[c]
                                        /\ c \notin FreeIds(child_free')
    BY <1>3, <1>8, <2>2, <2>7 DEF Loose
  <2>12. \A c \in Owned(p) : c \in FreeIds(child_free') <=> c \notin ws
    BY <1>3, <2>2, <2>7
  <2>13. \A c \in FreeIds(child_free') : timers'[c] = 0
    BY <1>3, <1>8, <2>2, <2>7 DEF Loose
  <2>14. IsFreeList(parent_free', ParentIds) /\ IsFreeList(child_free', ChildIds)
    BY <1>3, <2>2 DEF Loose
  <2> HIDE DEF ws
  <2>15. CoreInv'
    BY <2>4, <2>5, <2>6, <2>7, <2>8, <2>9, <2>10, <2>11, <2>12, <2>13, <2>14, Preserve
  <2>16. Apart(p)
    BY <2>10, <2>11 DEF Apart
  <2>17. SameOrder(parents'[p], w.par)
    BY <1>1, <1>6, <2>5 DEF SameOrder
  <2>18. Sends(p, w.par)
    <3>1. outbound' = outbound \cup {OutboundOrder(ids[k], w.par, split, k) :
                                       k \in Accepted(split, n)}
      BY <1>4, <1>6, <1>11
    <3>2. ASSUME NEW k \in Accepted(split, n)
          PROVE  LET o == OutboundOrder(ids[k], w.par, split, k)
                 IN  /\ k \in 1..n /\ o.child = ids[k]
                     /\ o.child \in Owned(p) /\ o.child \notin FreeIds(child_free')
                     /\ children'[o.child].parent = p
                     /\ children'[o.child].state = "PENDING_NEW"
                     /\ children'[o.child].cum = 0
                     /\ children'[o.child].leaves = o.qty
                     /\ children'[o.child].ex = o.ex
                     /\ o.instr = w.par.instr /\ o.dir = w.par.dir
      <4> DEFINE o    == OutboundOrder(ids[k], w.par, split, k)
                 lots == ToLots(LegQty(split, k), i, split.ex[k])
      <4>1. k \in 1..n
        BY DEF Accepted
      <4>2. /\ o.child = ids[k] /\ o.ex = split.ex[k] /\ o.instr = i /\ o.dir = w.par.dir
            /\ o.qty = lots
        BY DEF OutboundOrder
      <4>3. ids[k] \in Owned(p) /\ ids[k] \in ws
        BY <1>3, <2>7, <4>1 DEF ws
      <4>4. children'[ids[k]] = NewChild(p, i, split, k)
        BY <1>7, <2>2, <4>1
      <4>5. /\ NewChild(p, i, split, k).parent = p
            /\ NewChild(p, i, split, k).state = "PENDING_NEW"
            /\ NewChild(p, i, split, k).cum = 0
            /\ NewChild(p, i, split, k).leaves = lots
            /\ NewChild(p, i, split, k).ex = split.ex[k]
        BY DEF NewChild
      <4>6. ids[k] \notin FreeIds(child_free')
        BY <2>12, <4>3
      <4> HIDE DEF o, lots
      <4>7. /\ k \in 1..n /\ o.child = ids[k]
            /\ o.child \in Owned(p) /\ o.child \notin FreeIds(child_free')
            /\ children'[o.child].parent = p
            /\ children'[o.child].state = "PENDING_NEW"
            /\ children'[o.child].cum = 0
            /\ children'[o.child].leaves = o.qty
            /\ children'[o.child].ex = o.ex
            /\ o.instr = w.par.instr /\ o.dir = w.par.dir
        BY <4>1, <4>2, <4>3, <4>4, <4>5, <4>6
      <4> QED BY <4>7 DEF o
    <3>3. ASSUME NEW j \in Accepted(split, n), NEW k \in Accepted(split, n),
                 OutboundOrder(ids[j], w.par, split, j).child
                   = OutboundOrder(ids[k], w.par, split, k).child
          PROVE  j = k
      BY <1>3, <3>2, <3>3
    <3>4. \A o \in outbound' \ outbound :
            \E k \in Accepted(split, n) : o = OutboundOrder(ids[k], w.par, split, k)
      BY <3>1
    <3> QED BY <3>1, <3>2, <3>3, <3>4 DEF Sends
  <2>19. Sent(p, w, split)
    <3>1. n \in 1..split.count
      BY <1>2, <1>11 DEF IsSplit
    <3>2. open_lots' = AddOpen(w.open, w.par.instr, w.par.dir,
                               split.rem[split.count] - split.rem[n])
      BY <1>5, <2>1 DEF Store
    <3>3. ASSUME NEW k \in 1..n
          PROVE  Room(w.par.instr, children'[parents'[p].children[k]]) <= LegQty(split, k)
      <4>1. k \in 1..split.count
        BY <1>2 DEF IsSplit
      <4>2. children'[parents'[p].children[k]] = NewChild(p, i, split, k)
        BY <1>6, <1>7, <2>2, <2>5
      <4> QED BY <1>1, <4>1, <4>2, LegChildren
    <3> QED BY <1>6, <2>5, <3>1, <3>2, <3>3 DEF Sent
  <2> QED BY <2>5, <2>15, <2>16, <2>17, <2>18, <2>19 DEF Effect
<1> QED BY <1>10, <1>11

-----------------------------------------------------------------------------
(* What follows a report: close, wait or reroute.                          *)

\* w is the state after a handler has updated parent p, the records and the
\* timers of its children, and nothing else.
Touched(p, w) ==
  /\ p \in ParentsInUse /\ IsDraft(w) /\ SlotsOK(w.par)
  /\ w.child_free = child_free /\ w.parent_free = parent_free
  /\ w.par.child_count = parents[p].child_count /\ w.par.children = parents[p].children
  /\ \A c \in ChildIds \ Held(parents[p]) : /\ w.children[c] = children[c]
                                            /\ w.timers[c] = timers[c]
  /\ Family(p, w.par, w.children, w.timers)

\* What a parent holds are children in use.
LEMMA HeldInUse ==
  ASSUME CoreInv, NEW p \in ParentsInUse, NEW s \in 1..parents[p].child_count
  PROVE  /\ parents[p].children[s] \in ChildIds
         /\ parents[p].children[s] \in Held(parents[p])
         /\ parents[p].children[s] \notin FreeIds(child_free)
<1>1. parents[p] \in ParentOrder /\ DOMAIN parents[p].children = 1..parents[p].child_count
  BY DEF CoreInv, TypeOK, ParentsInUse
<1>2. PICK n \in 0..kMaxChildrenPerParent : parents[p].children \in [1..n -> ChildIds]
  BY <1>1 DEF ParentOrder, SlotArray
<1>3. parents[p].children[s] \in ChildIds
  BY <1>1, <1>2
<1>4. parents[p].children[s] \in Held(parents[p])
  BY DEF Held
<1> QED BY <1>3, <1>4 DEF CoreInv

\* When no child is live all of them can go back to the pool.
LEMMA FreedLoose ==
  ASSUME CoreInv, NEW p, NEW w, Touched(p, w), AllChildrenTerminal(w.par, w.children),
         NEW v, IsDraft(v), v.children = w.children, v.timers = w.timers,
         v.parent_free = w.parent_free,
         v.child_free = Push(w.child_free, w.par.child_count, w.par.children)
  PROVE  Loose(p, v)
<1> DEFINE n == parents[p].child_count
           s == parents[p].children
<1>1. p \in ParentsInUse /\ p \in ParentIds /\ p \notin FreeIds(parent_free)
  BY DEF Touched, ParentsInUse
<1>2. n \in Nat
  BY <1>1, CoreAssumption DEF CoreInv, TypeOK, ParentOrder
<1>3. \A k \in 1..n : s[k] \in ChildIds /\ s[k] \notin FreeIds(child_free)
  BY <1>1, HeldInUse
<1>4. \A j, k \in 1..n : s[j] = s[k] => j = k
  BY <1>1 DEF CoreInv, Family
<1>5. w.par.child_count = n /\ w.par.children = s /\ w.child_free = child_free
  BY DEF Touched
<1>6. Held(parents[p]) = {s[k] : k \in 1..n}
  BY DEF Held
<1>7. ASSUME NEW k \in 1..n PROVE w.timers[s[k]] = 0
  <2>1. Timed(w.timers[s[k]], w.children[s[k]])
    BY <1>5 DEF Touched, Family
  <2>2. w.children[s[k]].state \notin Live
    BY <1>5 DEF AllChildrenTerminal
  <2> QED BY <2>1, <2>2 DEF Timed
<1> HIDE DEF n, s
<1>8. IsFreeList(child_free, ChildIds) /\ IsFreeList(parent_free, ParentIds)
  BY ListsFree
<1>9. IsFreeList(v.child_free, ChildIds)
  BY <1>2, <1>3, <1>4, <1>5, <1>8, PushFree
<1>10. FreeIds(v.child_free) = FreeIds(child_free) \cup {s[k] : k \in 1..n}
  BY <1>2, <1>3, <1>4, <1>5, <1>8, PushFree
<1>11. FreeIds(v.child_free) = Owned(p)
  BY <1>1, <1>6, <1>10 DEF Owned
<1>12. \A c \in ChildIds \ Owned(p) : v.children[c] = children[c] /\ v.timers[c] = timers[c]
  BY <1>1 DEF Owned, Touched
<1>13. \A c \in FreeIds(child_free) : c \in ChildIds /\ c \notin Held(parents[p])
  BY <1>1, <1>8, FreeIdsType DEF CoreInv
<1>14. \A c \in Owned(p) : v.timers[c] = 0
  <2>1. \A c \in FreeIds(child_free) : v.timers[c] = 0
    BY <1>13 DEF Touched, CoreInv
  <2> QED BY <1>1, <1>6, <1>7, <2>1 DEF Owned
<1>15. v.parent_free = parent_free
  BY DEF Touched
<1> QED BY <1>1, <1>8, <1>9, <1>11, <1>12, <1>14, <1>15 DEF Loose

\* The draft after FreeChildren.
LEMMA FreeChildrenDraft ==
  ASSUME NEW w, IsDraft(w), NEW par \in ParentOrder,
         NEW open \in [Instruments -> [Dirs -> Int]]
  PROVE  LET v == FreeChildren(w, par, open)
         IN  /\ IsDraft(v)
             /\ v.par = par
             /\ v.children = w.children /\ v.timers = w.timers
             /\ v.parent_free = w.parent_free
             /\ v.child_free = Push(w.child_free, w.par.child_count, w.par.children)
BY DEF IsDraft, FreeChildren

LEMMA CloseStep ==
  ASSUME CoreInv, DivisibleLots,
         NEW p, NEW w, Touched(p, w), w.par.leaves = 0, Close(p, w), OutsideOK'
  PROVE  CoreInv' /\ Effect(p, w.par) /\ AllChildrenTerminal(w.par, w.children)
<1> DEFINE v == FreeChildren(w, w.par, w.open)
<1>1. p \in ParentIds /\ IsDraft(w) /\ w.par \in ParentOrder
      /\ w.open \in [Instruments -> [Dirs -> Int]]
  BY DEF Touched, ParentsInUse, IsDraft
<1>2. AllChildrenTerminal(w.par, w.children)
  <2>1. PICK at \in [1..w.par.child_count -> 0..w.par.leaves] :
          \A s \in 1..w.par.child_count :
            at[s] + Room(w.par.instr, w.children[w.par.children[s]]) <= w.par.leaves
    BY DEF Touched, Family, Fits
  <2>2. ASSUME NEW s \in 1..w.par.child_count
        PROVE  w.children[w.par.children[s]].state \notin Live
    <3> DEFINE ch   == w.children[w.par.children[s]]
               room == Room(w.par.instr, ch)
    <3>1. ChildOK(ch, p) /\ w.par.instr \in Instruments
      BY DEF Touched, Family
    <3>2. at[s] \in 0..0 /\ at[s] + room <= 0
      BY <2>1
    <3>3. room \in Nat /\ (ch.state \in Live => room > 0)
      BY <3>1, RoomBounds
    <3> HIDE DEF room
    <3> QED BY <3>2, <3>3
  <2> QED BY <2>2 DEF AllChildrenTerminal
<1>3. /\ IsDraft(v) /\ v.children = w.children /\ v.timers = w.timers
      /\ v.parent_free = w.parent_free
      /\ v.child_free = Push(w.child_free, w.par.child_count, w.par.children)
  BY <1>1, FreeChildrenDraft
<1> HIDE DEF v
<1>5. Loose(p, v)
  BY <1>2, <1>3, FreedLoose
<1> DEFINE par == [w.par EXCEPT !.state = "FILLED"]
<1>6. SlotsOK(par)
  BY DEF Touched, SlotsOK, ParentOrder, States
<1>7. Store(p, par, FreeParent(p, v))
  BY DEF Close, v
<1>8. RestOK'
  BY DEF Close, RestOK, CoreInv, TypeOK
<1>9. SameOrder(par, w.par)
  BY <1>1 DEF ParentOrder, SameOrder
<1> HIDE DEF par
<1>10. CoreInv' /\ Apart(p) /\ parents'[p] = par
  BY <1>1, <1>5, <1>6, <1>7, <1>8, DeadStep
<1>11. Sends(p, w.par)
  BY NothingSent DEF Close
<1> QED BY <1>2, <1>9, <1>10, <1>11 DEF Effect

LEMMA WaitStep ==
  ASSUME CoreInv, NEW p, NEW w, Touched(p, w), w.par.leaves > 0, w.par.state \in Live,
         ~AllChildrenTerminal(w.par, w.children), Wait(p, w), OutsideOK'
  PROVE  /\ CoreInv' /\ Effect(p, w.par) /\ p \in ParentsInUse'
         /\ children' = w.children /\ child_free' = child_free /\ outbound' = outbound
<1>1. p \in ParentIds /\ p \in ParentsInUse
  BY DEF Touched, ParentsInUse
<1>2. /\ parents' = [parents EXCEPT ![p] = w.par]
      /\ children' = w.children /\ timers' = w.timers
      /\ child_free' = child_free /\ parent_free' = parent_free
  BY DEF Wait, Store, Touched
<1>3. IsFreeList(parent_free, ParentIds) /\ IsFreeList(child_free, ChildIds)
  BY ListsFree
<1>4. RestOK'
  BY DEF Wait, RestOK, CoreInv, TypeOK
<1>5. TypeOK'
  BY <1>1, <1>3, <1>4, StoreType DEF Wait, Touched
<1>6. ParentsInUse' = ParentsInUse /\ parents'[p] = w.par
  BY <1>1, <1>2 DEF ParentsInUse, CoreInv, TypeOK
<1>7. Held(parents'[p]) = Held(parents[p])
  BY <1>6 DEF Held, Touched
<1>8. Family(p, parents'[p], children', timers') /\ Working(parents'[p], children')
  BY <1>2, <1>6 DEF Touched, Working, AllChildrenTerminal
<1>9. \A q \in ParentIds \ {p} :
        /\ parents'[q] = parents[q]
        /\ q \in FreeIds(parent_free') <=> q \in FreeIds(parent_free)
  BY <1>2 DEF CoreInv, TypeOK
<1>10. \A c \in ChildIds \ Owned(p) : /\ children'[c] = children[c] /\ timers'[c] = timers[c]
                                      /\ c \notin FreeIds(child_free')
  BY <1>1, <1>2 DEF Owned, Touched
<1>11. \A c \in FreeIds(child_free) : c \in ChildIds /\ c \notin Held(parents[p])
  BY <1>1, <1>3, FreeIdsType DEF CoreInv
<1>12. \A c \in Owned(p) :
         c \in FreeIds(child_free') <=> ~(p \in ParentsInUse' /\ c \in Held(parents'[p]))
  BY <1>1, <1>2, <1>6, <1>7, <1>11 DEF Owned
<1>13. \A c \in FreeIds(child_free') : timers'[c] = 0
  BY <1>2, <1>11 DEF Touched, CoreInv
<1>14. Held(parents'[p]) \subseteq Owned(p)
  BY <1>1, <1>7 DEF Owned
<1>15. IsFreeList(parent_free', ParentIds) /\ IsFreeList(child_free', ChildIds)
  BY <1>2, <1>3
<1>16. CoreInv'
  BY <1>1, <1>5, <1>8, <1>9, <1>10, <1>12, <1>13, <1>14, <1>15, Preserve
<1>17. Apart(p)
  BY <1>9, <1>10 DEF Apart
<1>18. SameOrder(parents'[p], w.par)
  BY <1>6 DEF SameOrder, Touched, SlotsOK, ParentOrder
<1>19. Sends(p, w.par) /\ outbound' = outbound
  BY NothingSent DEF Wait
<1> QED BY <1>1, <1>2, <1>6, <1>16, <1>17, <1>18, <1>19 DEF Effect

\* clamp_reduce_only never asks for more than it is given.
LEMMA ClampBounds ==
  ASSUME NEW dir \in Dirs, NEW qty \in Nat, NEW constrained \in BOOLEAN,
         NEW net \in Int, NEW committed \in Int
  PROVE  /\ ClampReduceOnly(dir, qty, constrained, net, committed) \in 0..qty
         /\ ~constrained => ClampReduceOnly(dir, qty, constrained, net, committed) = qty
<1>1. CASE ~constrained
  BY <1>1 DEF ClampReduceOnly
<1>2. CASE constrained
  <2> DEFINE headroom == Abs(net) - committed
             reduces  == (dir = "BUY" /\ net < 0) \/ (dir = "SELL" /\ net > 0)
  <2>1. ClampReduceOnly(dir, qty, constrained, net, committed)
          = IF ~reduces \/ headroom <= 0 THEN 0 ELSE IF qty < headroom THEN qty ELSE headroom
    BY <1>2 DEF ClampReduceOnly
  <2>2. headroom \in Int
    BY DEF Abs
  <2> DEFINE clamped == ClampReduceOnly(dir, qty, constrained, net, committed)
  <2> HIDE DEF headroom, reduces
  <2>3. clamped = 0 \/ clamped = qty
        \/ (clamped = headroom /\ ~(headroom <= 0) /\ ~(qty < headroom))
    BY <2>1, Zenon
  <2> HIDE DEF clamped
  <2>4. clamped \in 0..qty
    BY <2>2, <2>3
  <2> QED BY <1>2, <2>4, Zenon DEF clamped
<1> QED BY <1>1, <1>2

LEMMA RerouteStep ==
  ASSUME CoreInv, DivisibleLots, NEW p, NEW w, Touched(p, w), w.par.leaves > 0,
         AllChildrenTerminal(w.par, w.children),
         NEW net \in [Instruments -> Int], RerouteLeaves(p, w, net), OutsideOK'
  PROVE  /\ CoreInv' /\ Effect(p, w.par)
         /\ p \in ParentsInUse' \/ w.par.reduce_only \/ Told
<1> DEFINE par    == w.par
           safe   == ClampReduceOnly(par.dir, par.leaves, par.reduce_only, net[par.instr],
                                     w.open[par.instr][par.dir])
           left   == IF safe < par.leaves THEN safe ELSE par.leaves
           excess == par.leaves - left
           shrunk == [par EXCEPT !.total = @ - excess, !.leaves = left,
                                 !.child_count = 0, !.children = [s \in 1..0 |-> 0]]
           open   == AddOpen(w.open, par.instr, par.dir, -excess)
           sent   == [shrunk EXCEPT !.state = "PENDING_NEW"]
<1>1. /\ p \in ParentIds /\ IsDraft(w) /\ par \in ParentOrder
      /\ w.open \in [Instruments -> [Dirs -> Int]]
      /\ par.instr \in Instruments /\ par.leaves = par.total - par.cum /\ par.cum >= 0
  BY DEF Touched, ParentsInUse, IsDraft, Family
<1>2. /\ par.dir \in Dirs /\ par.leaves \in Nat \ {0} /\ par.reduce_only \in BOOLEAN
      /\ par.total \in Int /\ par.cum \in Int
      /\ net[par.instr] \in Int /\ w.open[par.instr][par.dir] \in Int
  <2>1. par.dir \in Dirs /\ par.leaves \in Int /\ par.reduce_only \in BOOLEAN
        /\ par.total \in Int /\ par.cum \in Int
    BY <1>1 DEF ParentOrder
  <2> QED BY <1>1, <2>1
<1>3. safe \in 0..par.leaves /\ (~par.reduce_only => safe = par.leaves)
  BY <1>2, ClampBounds
<1> HIDE DEF safe
<1>4. left \in 0..par.leaves /\ excess \in Int /\ (~par.reduce_only => left > 0)
  BY <1>2, <1>3
<1>5. \/ /\ par.reduce_only /\ left = 0
         /\ Store(p, [shrunk EXCEPT !.state = IF par.cum > 0 THEN "FILLED" ELSE "REJECTED"],
                  FreeParent(p, FreeChildren(w, shrunk, open)))
         /\ UNCHANGED <<outbound, reject_queue>>
      \/ /\ ~(par.reduce_only /\ left = 0)
         /\ \E split \in OptimalSplits(left) :
              IF split.count = 0 THEN GiveUp(p, FreeChildren(w, shrunk, open), "NO_LIQUIDITY")
              ELSE DispatchChildOrders(p, FreeChildren(w, sent, open), split)
  BY DEF RerouteLeaves, safe
<1> HIDE DEF left
<1>6. open \in [Instruments -> [Dirs -> Int]]
  BY <1>1, <1>2, <1>4 DEF AddOpen
<1>7. /\ SlotsOK(shrunk) /\ shrunk.instr = par.instr /\ shrunk.leaves = left
      /\ shrunk.leaves = shrunk.total - shrunk.cum /\ shrunk.cum = par.cum
      /\ shrunk.child_count = 0 /\ shrunk.children = [s \in 1..0 |-> 0]
  <2>1. [s \in 1..0 |-> 0] \in SlotArray
    <3>1. [s \in 1..0 |-> 0] \in [1..0 -> ChildIds]
      OBVIOUS
    <3>2. 0 \in 0..kMaxChildrenPerParent
      BY CoreAssumption
    <3> QED BY <3>1, <3>2 DEF SlotArray
  <2>2. 0 \in 0..kMaxChildrenPerParent
    BY CoreAssumption
  <2>3. par.total - excess \in Int /\ left \in Int /\ left = par.total - excess - par.cum
    BY <1>1, <1>2, <1>4
  <2> HIDE DEF excess
  <2> QED BY <1>1, <1>2, <2>1, <2>2, <2>3 DEF SlotsOK, ParentOrder
<1>same. SameOrder(shrunk, par) /\ shrunk.reduce_only = par.reduce_only
  BY <1>1, <1>2, <1>4 DEF SameOrder, ParentOrder
<1> HIDE DEF excess, shrunk, open
<1>sent. SameOrder(sent, par)
  BY <1>7, <1>same DEF SameOrder, SlotsOK, ParentOrder
<1>inherit. ASSUME NEW rec, SameOrder(rec, par), rec.leaves \in Int, Effect(p, rec),
                   parents'[p].leaves \in Int
            PROVE  Effect(p, w.par)
  <2>1. SameOrder(parents'[p], w.par)
    BY <1>2, <1>inherit DEF Effect, SameOrder
  <2>2. Sends(p, w.par)
    BY <1>inherit DEF Effect, SameOrder, Sends
  <2> QED BY <1>inherit, <2>1, <2>2 DEF Effect
<1>leaves. ASSUME CoreInv' PROVE parents'[p].leaves \in Int
  <2>1. parents'[p] \in ParentOrder
    BY <1>1, <1>leaves DEF CoreInv, TypeOK
  <2> QED BY <2>1 DEF ParentOrder
<1>8. /\ SlotsOK(sent) /\ sent.instr = par.instr /\ sent.leaves = left
      /\ sent.leaves = sent.total - sent.cum /\ sent.cum = par.cum /\ sent.state = "PENDING_NEW"
  BY <1>7 DEF SlotsOK, ParentOrder, States
<1> HIDE DEF sent
<1>9. ASSUME NEW rec \in ParentOrder
      PROVE  Loose(p, FreeChildren(w, rec, open)) /\ FreeChildren(w, rec, open).par = rec
  <2> DEFINE v == FreeChildren(w, rec, open)
  <2>1. /\ IsDraft(v) /\ v.par = rec /\ v.children = w.children /\ v.timers = w.timers
        /\ v.parent_free = w.parent_free
        /\ v.child_free = Push(w.child_free, w.par.child_count, w.par.children)
    BY <1>1, <1>6, FreeChildrenDraft
  <2> HIDE DEF v
  <2>2. Loose(p, v)
    BY <2>1, FreedLoose
  <2> QED BY <2>1, <2>2 DEF v
<1>10. shrunk \in ParentOrder /\ sent \in ParentOrder
  BY <1>7, <1>8 DEF SlotsOK
<1>11. CASE /\ par.reduce_only
            /\ Store(p, [shrunk EXCEPT !.state = IF par.cum > 0 THEN "FILLED" ELSE "REJECTED"],
                      FreeParent(p, FreeChildren(w, shrunk, open)))
            /\ UNCHANGED <<outbound, reject_queue>>
  <2> DEFINE st  == IF par.cum > 0 THEN "FILLED" ELSE "REJECTED"
             rec == [shrunk EXCEPT !.state = st]
             v   == FreeChildren(w, shrunk, open)
  <2>1. st \in States
    BY DEF States
  <2> HIDE DEF st
  <2>2. SlotsOK(rec)
    BY <1>7, <2>1 DEF SlotsOK, ParentOrder
  <2>3. Store(p, rec, FreeParent(p, v))
    BY <1>11 DEF st
  <2>4. Loose(p, v)
    BY <1>9, <1>10
  <2>5. RestOK'
    BY <1>11 DEF RestOK, CoreInv, TypeOK
  <2>6. SameOrder(rec, par)
    BY <1>7, <1>same DEF SameOrder, SlotsOK, ParentOrder
  <2> HIDE DEF rec, v
  <2>7. CoreInv' /\ Apart(p) /\ parents'[p] = rec
    BY <1>1, <2>2, <2>3, <2>4, <2>5, DeadStep
  <2>8. Sends(p, w.par)
    BY <1>11, NothingSent
  <2> QED BY <1>11, <2>6, <2>7, <2>8 DEF Effect
<1>12. CASE /\ ~(par.reduce_only /\ left = 0)
            /\ \E split \in OptimalSplits(left) :
                 IF split.count = 0
                 THEN GiveUp(p, FreeChildren(w, shrunk, open), "NO_LIQUIDITY")
                 ELSE DispatchChildOrders(p, FreeChildren(w, sent, open), split)
  <2>1. left \in Nat \ {0}
    BY <1>2, <1>4, <1>12
  <2>2. PICK split \in OptimalSplits(left) :
          IF split.count = 0
          THEN GiveUp(p, FreeChildren(w, shrunk, open), "NO_LIQUIDITY")
          ELSE DispatchChildOrders(p, FreeChildren(w, sent, open), split)
    BY <1>12
  <2>3. CASE split.count = 0
    <3> DEFINE v == FreeChildren(w, shrunk, open)
    <3>1. GiveUp(p, v, "NO_LIQUIDITY") /\ Loose(p, v) /\ v.par = shrunk
      BY <1>9, <1>10, <2>2, <2>3
    <3>2. "NO_LIQUIDITY" \in RejectReasons
      BY DEF RejectReasons
    <3> HIDE DEF v
    <3>3. CoreInv' /\ Effect(p, shrunk) /\ Told
      BY <1>1, <1>7, <3>1, <3>2, GiveUpStep
    <3>4. shrunk.leaves \in Int
      BY <1>7, <2>1
    <3> QED BY <1>inherit, <1>leaves, <1>same, <3>3, <3>4
  <2>4. CASE split.count # 0
    <3> DEFINE v == FreeChildren(w, sent, open)
    <3>1. DispatchChildOrders(p, v, split) /\ Loose(p, v) /\ v.par = sent
      BY <1>9, <1>10, <2>2, <2>4
    <3>2. IsSplit(split, left)
      BY <2>1, <2>2, <2>4, OptimalSplitsSplit
    <3> HIDE DEF v
    <3>3. CoreInv' /\ Effect(p, sent) /\ (p \in ParentsInUse' \/ Unsent(p, v, split))
      BY <1>1, <1>8, <2>1, <3>1, <3>2, DispatchStep
    <3>4. sent.leaves \in Int
      BY <1>8, <2>1
    <3>5. p \in ParentsInUse' \/ Told
      BY <3>3 DEF Unsent
    <3> QED BY <1>inherit, <1>leaves, <1>sent, <3>3, <3>4, <3>5
  <2> QED BY <2>3, <2>4
<1> QED BY <1>5, <1>11, <1>12

-----------------------------------------------------------------------------
(* on_execution_report                                                     *)

\* Close, wait or reroute, whichever the handler chooses.
LEMMA ReportStep ==
  ASSUME CoreInv, DivisibleLots, NEW p, NEW w, Touched(p, w),
         w.par.state \in Live, NEW net \in [Instruments -> Int], OutsideOK',
         IF w.par.leaves <= 0 THEN Close(p, w)
         ELSE IF AllChildrenTerminal(w.par, w.children) THEN RerouteLeaves(p, w, net)
         ELSE Wait(p, w)
  PROVE  /\ CoreInv' /\ Effect(p, w.par)
         /\ p \in ParentsInUse' \/ w.par.leaves <= 0 \/ w.par.reduce_only \/ Told
         /\ \/ AllChildrenTerminal(w.par, w.children)
            \/ children' = w.children /\ child_free' = child_free /\ outbound' = outbound
<1>1. w.par.leaves \in Int /\ w.par.leaves >= 0
  BY DEF Touched, SlotsOK, ParentOrder, Family
<1>2. CASE w.par.leaves <= 0
  <2>1. w.par.leaves = 0
    BY <1>1, <1>2
  <2> QED BY <1>2, <2>1, CloseStep
<1>3. CASE ~(w.par.leaves <= 0)
  <2>1. w.par.leaves > 0
    BY <1>1, <1>3
  <2>2. CASE AllChildrenTerminal(w.par, w.children)
    BY <1>3, <2>1, <2>2, RerouteStep
  <2>3. CASE ~AllChildrenTerminal(w.par, w.children)
    BY <1>3, <2>1, <2>3, WaitStep
  <2> QED BY <2>2, <2>3
<1> QED BY <1>2, <1>3

\* A child in use sits in a slot of its parent.
LEMMA Owner ==
  ASSUME CoreInv, NEW c \in ChildIds, c \notin FreeIds(child_free)
  PROVE  LET p == children[c].parent
         IN  /\ p \in ParentsInUse /\ p \in ParentIds
             /\ \E k \in 1..parents[p].child_count : parents[p].children[k] = c
             /\ ChildOK(children[c], p)
             /\ Timed(timers[c], children[c])
<1>1. PICK p \in ParentsInUse : c \in Held(parents[p])
  BY DEF CoreInv
<1>2. PICK k \in 1..parents[p].child_count : parents[p].children[k] = c
  BY <1>1 DEF Held
<1>3. ChildOK(children[c], p) /\ Timed(timers[c], children[c])
  BY <1>1, <1>2 DEF CoreInv, Family
<1>4. children[c].parent = p /\ p \in ParentIds
  BY <1>1, <1>3 DEF ChildOK, ParentsInUse
<1> QED BY <1>1, <1>2, <1>3, <1>4

\* Two places a and b, b after a, of lengths l and m that fit below t; when b's
\* length shrinks by at least d, then a and what follows b fit below t - d.
LEMMA ShrinkAfter ==
  ASSUME NEW a \in Nat, NEW l \in Nat, NEW b \in Nat, NEW m \in Nat, NEW m2 \in Nat,
         NEW t \in Nat, NEW d \in Nat, a + l <= b, b + m <= t, m2 + d <= m
  PROVE  a \in 0..(t - d) /\ a + l <= t - d
OBVIOUS

LEMMA ShrinkAt ==
  ASSUME NEW b \in Nat, NEW m \in Nat, NEW m2 \in Nat, NEW t \in Nat, NEW d \in Nat,
         b + m <= t, m2 + d <= m
  PROVE  b \in 0..(t - d) /\ b + m2 <= t - d
OBVIOUS

LEMMA ShrinkBefore ==
  ASSUME NEW b \in Nat, NEW m \in Nat, NEW m2 \in Nat, NEW a \in Nat, NEW l \in Nat,
         NEW t \in Nat, NEW d \in Nat, b + m <= a, a + l <= t, m2 + d <= m
  PROVE  a - d \in 0..(t - d) /\ (a - d) + l <= t - d
OBVIOUS

\* par2 and cs2 are par and cs after d lots have left the child in slot k.
Shrinks(par, cs, par2, cs2, k, d) ==
  /\ par.leaves \in Nat /\ par.child_count \in Nat /\ k \in 1..par.child_count /\ d \in Nat
  /\ par2.child_count = par.child_count /\ par2.children = par.children
  /\ par2.instr = par.instr /\ par2.leaves = par.leaves - d
  /\ \A s \in 1..par.child_count : Room(par.instr, cs[par.children[s]]) \in Nat
  /\ \A s \in 1..par.child_count :
       s # k => cs2[par.children[s]] = cs[par.children[s]]
  /\ Room(par.instr, cs2[par.children[k]]) \in Nat
  /\ Room(par.instr, cs2[par.children[k]]) + d <= Room(par.instr, cs[par.children[k]])

\* When the parent's leaves shrink by d and those of its k-th child by at least d,
\* the children still fit: the places after k move down by d.
LEMMA FitsShrink ==
  ASSUME NEW par, NEW cs, NEW par2, NEW cs2, NEW k, NEW d,
         Fits(par, cs), Shrinks(par, cs, par2, cs2, k, d)
  PROVE  Fits(par2, cs2)
<1> USE DEF Shrinks
<1> DEFINE n == par.child_count
           T == par.leaves
           L == [s \in 1..n |-> Room(par.instr, cs[par.children[s]])]
           M == [s \in 1..n |-> Room(par.instr, cs2[par.children[s]])]
<1>1. PICK at \in [1..n -> 0..T] :
        /\ \A s \in 1..n : at[s] + Room(par.instr, cs[par.children[s]]) <= T
        /\ \A r, s \in 1..n : r < s => at[r] + Room(par.instr, cs[par.children[r]]) <= at[s]
  BY DEF Fits
<1>2. /\ \A s \in 1..n : /\ L[s] = Room(par.instr, cs[par.children[s]]) /\ L[s] \in Nat
                         /\ M[s] = Room(par.instr, cs2[par.children[s]]) /\ M[s] \in Nat
                         /\ s # k => M[s] = L[s]
      /\ M[k] + d <= L[k]
  OBVIOUS
<1>3. /\ \A s \in 1..n : at[s] + L[s] <= T
      /\ \A r, s \in 1..n : r < s => at[r] + L[r] <= at[s]
  BY <1>1, <1>2
<1> DEFINE bt == [s \in 1..n |-> IF s <= k THEN at[s] ELSE at[s] - d]
<1>4. n \in Nat /\ T \in Nat /\ k \in 1..n /\ d \in Nat
  OBVIOUS
<1> HIDE DEF L, M, n, T
<1>5. ASSUME NEW s \in 1..n
      PROVE  /\ at[s] \in Nat /\ L[s] \in Nat /\ M[s] \in Nat /\ s \in Nat
             /\ at[s] + L[s] <= T
             /\ s <= k => bt[s] = at[s]
             /\ k < s => bt[s] = at[s] - d
  BY <1>1, <1>2, <1>3, <1>4
<1> HIDE DEF bt
<1>6. ASSUME NEW s \in 1..n
      PROVE  bt[s] \in 0..(T - d) /\ bt[s] + M[s] <= T - d
  <2>1. /\ at[k] \in Nat /\ L[k] \in Nat /\ M[k] \in Nat
        /\ at[k] + L[k] <= T /\ M[k] + d <= L[k]
    BY <1>2, <1>4, <1>5
  <2>2. at[s] \in Nat /\ L[s] \in Nat /\ at[s] + L[s] <= T
    BY <1>5
  <2>3. CASE s < k
    <3>1. at[s] + L[s] <= at[k] /\ M[s] = L[s] /\ bt[s] = at[s]
      BY <1>2, <1>3, <1>4, <1>5, <2>3
    <3>2. at[s] \in 0..(T - d) /\ at[s] + L[s] <= T - d
      BY <1>4, <2>1, <2>2, <3>1, ShrinkAfter
    <3> QED BY <3>1, <3>2
  <2>4. CASE s = k
    <3>1. bt[k] = at[k]
      BY <1>4, <1>5
    <3>2. at[k] \in 0..(T - d) /\ at[k] + M[k] <= T - d
      BY <1>4, <2>1, ShrinkAt
    <3> QED BY <2>4, <3>1, <3>2
  <2>5. CASE k < s
    <3> s # k
      BY <1>4, <2>5
    <3>1. at[k] + L[k] <= at[s] /\ M[s] = L[s] /\ bt[s] = at[s] - d
      <4>1. at[k] + L[k] <= at[s]
        BY <1>3, <1>4, <2>5
      <4>2. M[s] = L[s]
        BY <1>2
      <4> QED BY <1>5, <2>5, <4>1, <4>2
    <3>2. at[s] - d \in 0..(T - d) /\ (at[s] - d) + L[s] <= T - d
      BY <1>4, <2>1, <2>2, <3>1, ShrinkBefore
    <3> QED BY <3>1, <3>2
  <2> QED BY <1>4, <2>3, <2>4, <2>5
<1>7. ASSUME NEW r \in 1..n, NEW s \in 1..n, r < s
      PROVE  bt[r] + M[r] <= bt[s]
  <2>1. /\ at[k] \in Nat /\ L[k] \in Nat /\ M[k] \in Nat /\ M[k] + d <= L[k]
    BY <1>2, <1>4, <1>5
  <2>2. /\ at[r] \in Nat /\ L[r] \in Nat /\ at[s] \in Nat /\ at[r] + L[r] <= at[s]
    BY <1>3, <1>5, <1>7
  <2>3. CASE s <= k
    <3>1. bt[r] = at[r] /\ bt[s] = at[s] /\ M[r] = L[r]
      BY <1>2, <1>4, <1>5, <1>7, <2>3
    <3> QED BY <2>2, <3>1
  <2>4. CASE r < k /\ k < s
    <3>1. /\ bt[r] = at[r] /\ bt[s] = at[s] - d /\ M[r] = L[r]
      BY <1>2, <1>4, <1>5, <1>7, <2>4
    <3>2. at[r] + L[r] <= at[k] /\ at[k] + L[k] <= at[s]
      BY <1>3, <1>4, <2>4
    <3>3. at[r] + L[r] <= at[s] - d
      BY <1>4, <2>1, <2>2, <3>2, ShrinkAfter
    <3> QED BY <3>1, <3>3
  <2>5. CASE r = k
    <3>1. k < s
      BY <1>7, <2>5
    <3>2. bt[k] = at[k] /\ bt[s] = at[s] - d
      BY <1>4, <1>5, <3>1
    <3>3. at[k] + L[k] <= at[s]
      BY <2>2, <2>5
    <3>4. at[k] + M[k] <= at[s] - d
      BY <1>4, <2>1, <2>2, <3>3, ShrinkAt
    <3> QED BY <2>5, <3>2, <3>4
  <2>6. CASE k < r
    <3>1. k < s /\ r # k
      BY <1>4, <1>7, <2>6
    <3>2. bt[r] = at[r] - d /\ bt[s] = at[s] - d /\ M[r] = L[r]
      BY <1>2, <1>4, <1>5, <2>6, <3>1
    <3>3. (at[r] - d) + L[r] <= at[s] - d
      BY <1>4, <2>2
    <3> QED BY <3>2, <3>3
  <2> QED BY <1>4, <1>7, <2>3, <2>4, <2>5, <2>6
<1>8. bt \in [1..par2.child_count -> 0..par2.leaves]
  BY <1>6 DEF n, T, bt
<1>9. /\ \A s \in 1..par2.child_count :
           bt[s] + Room(par2.instr, cs2[par2.children[s]]) <= par2.leaves
      /\ \A r, s \in 1..par2.child_count :
           r < s => bt[r] + Room(par2.instr, cs2[par2.children[r]]) <= bt[s]
  <2>1. /\ par2.child_count = n /\ par2.leaves = T - d
        /\ \A s \in 1..n : Room(par2.instr, cs2[par2.children[s]]) = M[s]
    BY <1>2 DEF n, T
  <2>2. ASSUME NEW s \in 1..n
        PROVE  bt[s] + Room(par2.instr, cs2[par2.children[s]]) <= par2.leaves
    <3>1. bt[s] + M[s] <= T - d
      BY <1>6
    <3> QED BY <2>1, <3>1
  <2>3. ASSUME NEW r \in 1..n, NEW s \in 1..n, r < s
        PROVE  bt[r] + Room(par2.instr, cs2[par2.children[r]]) <= bt[s]
    <3>1. bt[r] + M[r] <= bt[s]
      BY <1>7, <2>3
    <3> QED BY <2>1, <3>1
  <2> QED BY <2>1, <2>2, <2>3
<1> QED BY <1>8, <1>9 DEF Fits

\* The draft of a handler that has updated child c of parent p.
LEMMA TouchedIntro ==
  ASSUME CoreInv, DivisibleLots, NEW p \in ParentsInUse, NEW k \in 1..parents[p].child_count,
         NEW par \in ParentOrder, NEW d \in Nat,
         par.child_count = parents[p].child_count, par.children = parents[p].children,
         par.instr = parents[p].instr, par.leaves = parents[p].leaves - d,
         par.leaves = par.total - par.cum, par.cum >= 0,
         NEW c, c = parents[p].children[k], NEW ch \in ChildOrderState, ChildOK(ch, p),
         Room(par.instr, ch) + d <= Room(par.instr, children[c]),
         NEW tm \in [ChildIds -> Nat], Timed(tm[c], ch),
         \A x \in ChildIds \ {c} : tm[x] = timers[x],
         NEW open \in [Instruments -> [Dirs -> Int]],
         NEW w, w = [par |-> par, children |-> [children EXCEPT ![c] = ch], timers |-> tm,
                     open |-> open, child_free |-> child_free, parent_free |-> parent_free]
  PROVE  Touched(p, w)
<1> DEFINE cs == [children EXCEPT ![c] = ch]
           n  == parents[p].child_count
           s  == parents[p].children
<1>1. /\ w.par = par /\ w.children = cs /\ w.timers = tm /\ w.open = open
      /\ w.child_free = child_free /\ w.parent_free = parent_free
  OBVIOUS
<1>2. /\ children \in [ChildIds -> ChildOrderState] /\ p \in ParentIds
      /\ parents[p] \in ParentOrder /\ DOMAIN s = 1..n
      /\ Family(p, parents[p], children, timers) /\ Working(parents[p], children)
  BY DEF CoreInv, TypeOK, ParentsInUse
<1>3. \A j \in 1..n : s[j] \in ChildIds /\ s[j] \in Held(parents[p])
  BY HeldInUse
<1>4. c \in ChildIds /\ c \in Held(parents[p]) /\ c = s[k] /\ k \in 1..n
  BY <1>3
<1>5. \A x \in ChildIds \ {c} : cs[x] = children[x]
  BY <1>2
<1>6. cs[c] = ch /\ cs \in [ChildIds -> ChildOrderState]
  BY <1>2, <1>4
<1>7. IsDraft(w)
  BY <1>1, <1>6 DEF IsDraft
<1>8. SlotsOK(w.par)
  BY <1>1, <1>2 DEF SlotsOK
<1> HIDE DEF cs
<1>9. \A i, j \in 1..n : s[i] = s[j] => i = j
  BY <1>2 DEF Family
<1>10. \A j \in 1..n : j # k => s[j] \in ChildIds \ {c}
  BY <1>3, <1>4, <1>9
<1>11. n \in Nat /\ parents[p].leaves \in Nat
  <2>1. n \in Nat /\ parents[p].leaves \in Int
    BY <1>2, CoreAssumption DEF ParentOrder
  <2> QED BY <1>2, <2>1 DEF Family
<1>12. \A j \in 1..n : ChildOK(children[s[j]], p) /\ Timed(timers[s[j]], children[s[j]])
  BY <1>2 DEF Family
<1>room. /\ \A j \in 1..n : Room(par.instr, children[s[j]]) \in Nat
         /\ Room(par.instr, ch) \in Nat
  <2>1. par.instr \in Instruments
    BY <1>2 DEF Family
  <2> QED BY <1>12, <2>1, RoomBounds
<1>13. ASSUME NEW j \in 1..n
       PROVE  ChildOK(cs[s[j]], p) /\ Timed(tm[s[j]], cs[s[j]])
  <2>1. CASE j = k
    BY <1>4, <1>6, <2>1
  <2>2. CASE j # k
    BY <1>5, <1>10, <1>12, <2>2
  <2> QED BY <2>1, <2>2
<1>14. Fits(par, cs)
  <2>1. Fits(parents[p], children)
    BY <1>2 DEF Family
  <2>3. \A j \in 1..n : j # k => cs[s[j]] = children[s[j]]
    BY <1>5, <1>10
  <2>4. /\ Room(par.instr, cs[s[k]]) \in Nat
        /\ Room(par.instr, cs[s[k]]) + d <= Room(par.instr, children[s[k]])
    BY <1>4, <1>6, <1>room
  <2> HIDE DEF n, s
  <2>5. /\ parents[p].leaves \in Nat /\ parents[p].child_count \in Nat
        /\ k \in 1..parents[p].child_count /\ d \in Nat
        /\ par.child_count = parents[p].child_count /\ par.children = parents[p].children
        /\ par.instr = parents[p].instr /\ par.leaves = parents[p].leaves - d
    BY <1>4, <1>11 DEF n
  <2>6. \A j \in 1..parents[p].child_count :
          Room(parents[p].instr, children[parents[p].children[j]]) \in Nat
    BY <1>room, <2>5, Zenon DEF n, s
  <2>7. \A j \in 1..parents[p].child_count :
          j # k => cs[parents[p].children[j]] = children[parents[p].children[j]]
    BY <2>3, Zenon DEF n, s
  <2>8. /\ Room(parents[p].instr, cs[parents[p].children[k]]) \in Nat
        /\ Room(parents[p].instr, cs[parents[p].children[k]]) + d
             <= Room(parents[p].instr, children[parents[p].children[k]])
    BY <2>4, <2>5, Zenon DEF s
  <2>9. Shrinks(parents[p], children, par, cs, k, d)
    BY <2>5, <2>6, <2>7, <2>8, Zenon DEF Shrinks
  <2> QED BY <2>1, <2>9, FitsShrink, Zenon
<1>15. par.leaves >= 0
  <2>1. par.leaves \in Int
    BY DEF ParentOrder
  <2>2. PICK at \in [1..n -> 0..parents[p].leaves] :
          at[k] + Room(par.instr, children[s[k]]) <= parents[p].leaves
    BY <1>2, <1>4 DEF Family, Fits
  <2>3. at[k] \in Nat /\ Room(par.instr, children[s[k]]) \in Nat /\ Room(par.instr, ch) \in Nat
    BY <1>4, <1>11, <1>room, <2>2
  <2>4. Room(par.instr, ch) + d <= Room(par.instr, children[s[k]])
    BY <1>4
  <2>5. at[k] \in 0..(parents[p].leaves - d)
    BY <1>11, <2>2, <2>3, <2>4, ShrinkAt
  <2> QED BY <1>11, <2>3, <2>5
<1>16. Family(p, w.par, w.children, w.timers)
  <2>1. par.instr \in Instruments
    BY <1>2 DEF Family
  <2>2. Family(p, par, cs, tm)
    BY <1>9, <1>13, <1>14, <1>15, <2>1, Zenon DEF Family
  <2> QED BY <1>1, <2>2
<1>17. \A x \in ChildIds \ Held(parents[p]) : w.children[x] = children[x] /\ w.timers[x] = timers[x]
  BY <1>1, <1>4, <1>5
<1> HIDE DEF n, s
<1> QED BY <1>1, <1>7, <1>8, <1>16, <1>17 DEF Touched

\* cancel leaves no entry of a child that had at most one.
LEMMA CancelTimerClears ==
  ASSUME NEW tm \in [ChildIds -> Nat], NEW c \in ChildIds, tm[c] <= 1
  PROVE  /\ CancelTimer(tm, c) \in [ChildIds -> Nat]
         /\ CancelTimer(tm, c)[c] = 0
         /\ \A x \in ChildIds \ {c} : CancelTimer(tm, c)[x] = tm[x]
<1>1. CancelTimer(tm, c) = [tm EXCEPT ![c] = IF tm[c] > 0 THEN tm[c] - 1 ELSE 0]
  BY DEF CancelTimer
<1>2. (IF tm[c] > 0 THEN tm[c] - 1 ELSE 0) = 0
  <2>1. tm[c] \in Nat
    OBVIOUS
  <2> QED BY <2>1
<1> QED BY <1>1, <1>2

\* What is known of the child and the parent a report is about.
LEMMA ReportFacts ==
  ASSUME CoreInv, NEW c \in ChildIds, ReportDue(c)
  PROVE  LET ch == children[c]
             p  == ch.parent
         IN  /\ ch \in ChildOrderState /\ ChildOK(ch, p)
             /\ ch.leaves \in Nat /\ ch.cum \in Nat /\ ch.qty \in Int
             /\ ch.ex \in Exchanges /\ ch.leaves = ch.qty - ch.cum
             /\ ch.state \in Live
             /\ p \in ParentsInUse /\ p \in ParentIds
             /\ parents[p] \in ParentOrder /\ parents[p].instr \in Instruments
             /\ parents[p].dir \in Dirs
             /\ parents[p].leaves = parents[p].total - parents[p].cum
             /\ parents[p].cum \in Nat /\ parents[p].total \in Int
             /\ parents[p].leaves \in Nat \ {0} /\ parents[p].state \in Live
             /\ \E k \in 1..parents[p].child_count : parents[p].children[k] = c
             /\ Timed(timers[c], ch) /\ timers[c] <= 1
<1> DEFINE ch == children[c]
           p  == ch.parent
<1>1. c \notin FreeIds(child_free) /\ ch.state \in Live
  BY DEF ReportDue, ChildrenInUse
<1>2. /\ p \in ParentsInUse /\ p \in ParentIds
      /\ \E k \in 1..parents[p].child_count : parents[p].children[k] = c
      /\ ChildOK(ch, p)
      /\ Timed(timers[c], ch)
  BY <1>1, Owner
<1>3. ch \in ChildOrderState /\ parents[p] \in ParentOrder
  BY <1>2 DEF CoreInv, TypeOK
<1>4. ch.qty \in Int /\ ch.ex \in Exchanges /\ ch.leaves \in Int
  BY <1>3 DEF ChildOrderState
<1>5. ch.leaves \in Nat /\ ch.cum \in Nat /\ ch.leaves = ch.qty - ch.cum
  BY <1>1, <1>2, <1>4 DEF ChildOK
<1>6. /\ parents[p].dir \in Dirs /\ parents[p].cum \in Int /\ parents[p].total \in Int
      /\ parents[p].leaves \in Int
  BY <1>3 DEF ParentOrder
<1>7. Family(p, parents[p], children, timers) /\ Working(parents[p], children)
  BY <1>2 DEF CoreInv
<1>8. /\ parents[p].instr \in Instruments /\ parents[p].cum \in Nat
      /\ parents[p].leaves = parents[p].total - parents[p].cum
  BY <1>6, <1>7 DEF Family
<1>9. parents[p].state \in Live /\ parents[p].leaves \in Nat \ {0}
  BY <1>6, <1>7 DEF Working
<1>10. timers[c] <= 1
  BY <1>2 DEF Timed
<1> QED BY <1>1, <1>2, <1>3, <1>4, <1>5, <1>6, <1>8, <1>9, <1>10

\* What q native lots of child c count for its parent.
Traded(c, q) == ToCanonicalLots(q, parents[children[c].parent].instr, children[c].ex)

\* What a report on child c does to its parent: the parent has traded d lots more.
Moved(c, d) ==
  LET p == children[c].parent
  IN  /\ Apart(p)
      /\ parents'[p].instr = parents[p].instr /\ parents'[p].dir = parents[p].dir
      /\ parents'[p].reduce_only = parents[p].reduce_only
      /\ parents'[p].cum = parents[p].cum + d
      /\ parents'[p].leaves <= parents[p].leaves - d
      /\ \/ p \in ParentsInUse' \/ parents[p].leaves - d <= 0
         \/ parents[p].reduce_only \/ Told

\* What it does to the children when c has traded q native lots: those other than c are touched only if none of them
\* is live and c is over, too.
Reported(c, q, over) ==
  LET p == children[c].parent
  IN  /\ Moved(c, Traded(c, q))
      /\ Sends(p, parents[p])
      /\ \/ over /\ \A x \in Held(parents[p]) \ {c} : children[x].state \notin Live
         \/ /\ child_free' = child_free /\ outbound' = outbound
            /\ \A x \in ChildIds \ {c} : children'[x] = children[x]
            /\ over \/ /\ children'[c].parent = p
                       /\ children'[c].state \in Live
                       /\ children'[c].ex = children[c].ex
                       /\ children'[c].leaves = children[c].leaves - q

\* How the draft w of a report on child c, with the new record ch2 of the child,
\* turns into the effects of the report.
LEMMA ReportEffect ==
  ASSUME CoreInv, NEW c \in ChildIds, ReportDue(c), NEW p, p = children[c].parent,
         NEW q \in Nat, NEW d, d = Traded(c, q),
         NEW ch2 \in ChildOrderState, NEW w, Touched(p, w),
         w.children = [children EXCEPT ![c] = ch2],
         w.par.instr = parents[p].instr, w.par.dir = parents[p].dir,
         w.par.reduce_only = parents[p].reduce_only, w.par.cum = parents[p].cum + d,
         w.par.leaves = parents[p].leaves - d,
         Effect(p, w.par),
         p \in ParentsInUse' \/ w.par.leaves <= 0 \/ w.par.reduce_only \/ Told,
         \/ AllChildrenTerminal(w.par, w.children)
         \/ children' = w.children /\ child_free' = child_free /\ outbound' = outbound,
         NEW over, over <=> ch2.state \notin Live,
         ~over => /\ ch2.parent = p /\ ch2.ex = children[c].ex
                  /\ ch2.leaves = children[c].leaves - q
  PROVE  Reported(c, q, over)
<1>1. /\ p \in ParentsInUse /\ children \in [ChildIds -> ChildOrderState]
      /\ \E k \in 1..parents[p].child_count : parents[p].children[k] = c
  BY ReportFacts DEF CoreInv, TypeOK
<1>2. w.par.child_count = parents[p].child_count /\ w.par.children = parents[p].children
  BY DEF Touched
<1>3. w.children[c] = ch2 /\ \A x \in ChildIds \ {c} : w.children[x] = children[x]
  BY <1>1
<1>4. Apart(p) /\ SameOrder(parents'[p], w.par) /\ Sends(p, w.par)
  BY DEF Effect
<1>5. Sends(p, parents[p])
  BY <1>4 DEF Sends
<1>6. /\ parents'[p].instr = parents[p].instr /\ parents'[p].dir = parents[p].dir
      /\ parents'[p].reduce_only = parents[p].reduce_only
      /\ parents'[p].cum = parents[p].cum + d
      /\ parents'[p].leaves <= parents[p].leaves - d
  BY <1>4 DEF SameOrder
<1>7. \/ p \in ParentsInUse' \/ parents[p].leaves - d <= 0
      \/ parents[p].reduce_only \/ Told
  OBVIOUS
<1>8. ASSUME AllChildrenTerminal(w.par, w.children)
      PROVE  over /\ \A x \in Held(parents[p]) \ {c} : children[x].state \notin Live
  <2>1. \A s \in 1..parents[p].child_count : w.children[parents[p].children[s]].state \notin Live
    BY <1>2, <1>8 DEF AllChildrenTerminal
  <2>2. over
    BY <1>1, <1>3, <2>1
  <2>3. ASSUME NEW x \in Held(parents[p]) \ {c} PROVE children[x].state \notin Live
    <3>1. PICK s \in 1..parents[p].child_count : x = parents[p].children[s]
      BY DEF Held
    <3>2. x \in ChildIds
      BY <1>1, <3>1, HeldInUse
    <3> QED BY <1>3, <2>1, <3>1, <3>2
  <2> QED BY <2>2, <2>3
<1>9. ASSUME children' = w.children /\ child_free' = child_free /\ outbound' = outbound
      PROVE  /\ child_free' = child_free /\ outbound' = outbound
             /\ \A x \in ChildIds \ {c} : children'[x] = children[x]
             /\ over \/ /\ children'[c].parent = p
                        /\ children'[c].state \in Live
                        /\ children'[c].ex = children[c].ex
                        /\ children'[c].leaves = children[c].leaves - q
  BY <1>3, <1>9
<1> QED BY <1>4, <1>5, <1>6, <1>7, <1>8, <1>9, Zenon DEF Reported, Moved

LEMMA FillStep ==
  ASSUME CoreInv, DivisibleLots, NEW c \in ChildIds, ReportDue(c),
         NEW q \in 1..children[c].leaves, HandleFill(c, q)
  PROVE  /\ CoreInv' /\ Reported(c, q, q = children[c].leaves)
         /\ LET par == parents[children[c].parent]
            IN  net_qty_lots'
                  = [net_qty_lots EXCEPT ![par.instr] = @ + Signed(par.dir, Traded(c, q))]
<1> DEFINE ch   == children[c]
           p    == ch.parent
           par  == parents[p]
           fill == ToCanonicalLots(q, par.instr, ch.ex)
           left == ch.qty - (ch.cum + q)
           st   == IF left = 0 THEN "FILLED" ELSE "PARTIALLY_FILLED"
           ch2  == [ch EXCEPT !.cum = @ + q, !.leaves = left, !.state = st]
           par2 == [par EXCEPT !.cum = @ + fill, !.leaves = par.total - (par.cum + fill),
                               !.state = "PARTIALLY_FILLED"]
           tm   == CancelTimer(timers, c)
           open == AddOpen(open_lots, par.instr, par.dir, -fill)
           w    == [par |-> par2, children |-> [children EXCEPT ![c] = ch2], timers |-> tm,
                    open |-> open, child_free |-> child_free, parent_free |-> parent_free]
<1>1. /\ ch \in ChildOrderState /\ ChildOK(ch, p)
      /\ ch.leaves \in Nat /\ ch.cum \in Nat /\ ch.qty \in Int
      /\ ch.ex \in Exchanges /\ ch.leaves = ch.qty - ch.cum /\ ch.state \in Live
  BY ReportFacts
<1>2. /\ p \in ParentsInUse /\ p \in ParentIds /\ par \in ParentOrder
      /\ par.instr \in Instruments /\ par.dir \in Dirs
      /\ par.leaves = par.total - par.cum
      /\ par.cum \in Nat /\ par.total \in Int /\ par.leaves \in Int
  BY ReportFacts
<1>3. PICK k \in 1..par.child_count : par.children[k] = c
  BY ReportFacts
<1>4. timers[c] <= 1 /\ timers \in [ChildIds -> Nat]
      /\ open_lots \in [Instruments -> [Dirs -> Int]] /\ net_qty_lots \in [Instruments -> Int]
  BY ReportFacts DEF CoreInv, TypeOK
<1>5. q \in Nat \ {0} /\ q <= ch.leaves
  BY <1>1
<1>6. fill \in Nat /\ fill = Traded(c, q)
  BY <1>1, <1>2, <1>5, Canonical DEF Traded
<1>7. /\ net_qty_lots' = [net_qty_lots EXCEPT ![par.instr] = @ + Signed(par.dir, fill)]
      /\ IF w.par.leaves = 0 THEN Close(p, w)
         ELSE IF AllChildrenTerminal(w.par, w.children) THEN RerouteLeaves(p, w, net_qty_lots')
         ELSE Wait(p, w)
      /\ UNCHANGED <<unwind_only, signals, cancels>>
  BY DEF HandleFill
<1>8. tm \in [ChildIds -> Nat] /\ tm[c] = 0 /\ \A x \in ChildIds \ {c} : tm[x] = timers[x]
  BY <1>4, CancelTimerClears
<1>9. open \in [Instruments -> [Dirs -> Int]]
  <2> HIDE DEF fill
  <2> QED BY <1>2, <1>4, <1>6 DEF AddOpen
<1> HIDE DEF tm, open
<1>10. left \in Nat /\ left + q = ch.leaves
  BY <1>1, <1>5
<1>room. /\ left = 0 => ToCanonicalLots(left, par.instr, ch.ex) = 0
         /\ left # 0 => ToCanonicalLots(left, par.instr, ch.ex) > 0
         /\ ToCanonicalLots(left, par.instr, ch.ex) \in Nat
         /\ ToCanonicalLots(left, par.instr, ch.ex) + fill <= Room(par.instr, ch)
  <2> HIDE DEF left, par
  <2>1. ToCanonicalLots(left + q, par.instr, ch.ex) = ToCanonicalLots(left, par.instr, ch.ex) + fill
    BY <1>1, <1>2, <1>5, <1>10, Canonical
  <2>2. ToCanonicalLots(ch.leaves, par.instr, ch.ex) <= Room(par.instr, ch)
    BY <1>1, <1>2, RoomBounds
  <2>3. ToCanonicalLots(left, par.instr, ch.ex) + fill <= Room(par.instr, ch)
    BY <1>10, <2>1, <2>2
  <2> QED BY <1>1, <1>2, <1>10, <2>3, Canonical
<1>11. st \in States /\ st # "PENDING_NEW" /\ (st \in Live => left # 0)
       /\ (st = "PARTIALLY_FILLED" => left # 0)
  BY DEF States, Live
<1>over. q = ch.leaves <=> st \notin Live
  BY <1>1, <1>5, <1>10 DEF Live
<1> HIDE DEF st
<1>12. /\ ch2.parent = ch.parent /\ ch2.ex = ch.ex /\ ch2.qty = ch.qty /\ ch2.cum = ch.cum + q
       /\ ch2.leaves = left /\ ch2.state = st
       /\ ch2 \in ChildOrderState
  <2>1. ch.cum + q \in Int /\ left \in Int
    BY <1>1, <1>5, <1>10
  <2> QED BY <1>1, <1>11, <2>1 DEF ChildOrderState
<1>13. /\ par2.instr = par.instr /\ par2.child_count = par.child_count
       /\ par2.children = par.children /\ par2.cum = par.cum + fill /\ par2.total = par.total
       /\ par2.leaves = par.total - (par.cum + fill) /\ par2.state = "PARTIALLY_FILLED"
       /\ par2.dir = par.dir /\ par2.reduce_only = par.reduce_only
       /\ par2 \in ParentOrder
  <2>1. par.cum + fill \in Int /\ par.total - (par.cum + fill) \in Int
    BY <1>2, <1>6
  <2> HIDE DEF fill
  <2> QED BY <1>2, <2>1 DEF ParentOrder, States
<1> HIDE DEF ch2, par2
<1>14. ChildOK(ch2, p) /\ Timed(0, ch2)
  <2>1. ch2.leaves \in Nat /\ ch2.cum \in Nat /\ ch2.cum > 0 /\ left = ch2.qty - ch2.cum
    BY <1>1, <1>5, <1>10, <1>12
  <2>2. left # 0 => left > 0
    BY <1>10
  <2> HIDE DEF left
  <2> QED BY <1>1, <1>11, <1>12, <2>1, <2>2 DEF ChildOK, Timed
<1>15. /\ par2.leaves = par.leaves - fill /\ par2.leaves = par2.total - par2.cum /\ par2.cum >= 0
  <2> HIDE DEF fill
  <2> QED BY <1>2, <1>6, <1>13
<1>16. Touched(p, w)
  <2>1. Room(par2.instr, ch2) + fill <= Room(par2.instr, children[c])
    <3>1. /\ par2.instr = par.instr
          /\ Room(par.instr, ch2) = LET n == ToCanonicalLots(left, par.instr, ch.ex)
                                    IN  IF n = 0 /\ st \in Live THEN 1 ELSE n
      BY <1>12, <1>13 DEF Room
    <3>2. Room(par.instr, ch2) = ToCanonicalLots(left, par.instr, ch.ex)
      <4> HIDE DEF left
      <4> QED BY <1>11, <1>room, <3>1
    <3> QED BY <1>room, <3>1, <3>2
  <2> HIDE DEF w
  <2>2. w = [par |-> par2, children |-> [children EXCEPT ![c] = ch2], timers |-> tm,
             open |-> open, child_free |-> child_free, parent_free |-> parent_free]
    BY DEF w
  <2>3. fill \in Nat /\ Timed(tm[c], ch2)
    BY <1>6, <1>8, <1>14
  <2> HIDE DEF left, fill
  <2> QED BY <1>2, <1>3, <1>8, <1>9, <1>12, <1>13, <1>14, <1>15, <2>1, <2>2, <2>3, TouchedIntro
<1>17. w.par = par2 /\ w.par.state \in Live /\ w.children = [children EXCEPT ![c] = ch2]
  BY <1>13 DEF Live
<1> HIDE DEF w
<1>18. w.par.leaves \in Int /\ w.par.leaves >= 0
  BY <1>16 DEF Touched, SlotsOK, ParentOrder, Family
<1>19. net_qty_lots' \in [Instruments -> Int]
  <2>1. Signed(par.dir, fill) \in Int
    BY <1>6 DEF Signed
  <2> HIDE DEF fill
  <2> QED BY <1>2, <1>4, <1>7, <2>1
<1>20. OutsideOK'
  BY <1>7, <1>19 DEF OutsideOK, CoreInv, TypeOK
<1>21. IF w.par.leaves <= 0 THEN Close(p, w)
       ELSE IF AllChildrenTerminal(w.par, w.children) THEN RerouteLeaves(p, w, net_qty_lots')
       ELSE Wait(p, w)
  <2>1. w.par.leaves <= 0 <=> w.par.leaves = 0
    BY <1>18
  <2> QED BY <1>7, <2>1, Zenon
<1>22. ch2.leaves = ch.leaves - q
  BY <1>1, <1>5, <1>10, <1>12
<1> HIDE DEF p
<1>23. /\ CoreInv' /\ Effect(p, w.par)
       /\ p \in ParentsInUse' \/ w.par.leaves <= 0 \/ w.par.reduce_only \/ Told
       /\ \/ AllChildrenTerminal(w.par, w.children)
          \/ children' = w.children /\ child_free' = child_free /\ outbound' = outbound
  BY <1>16, <1>17, <1>19, <1>20, <1>21, ReportStep
<1>24. Reported(c, q, q = children[c].leaves)
  <2> DEFINE over == q = ch.leaves
  <2>1. over <=> ch2.state \notin Live
    BY <1>12, <1>over
  <2>2. ~over => /\ ch2.parent = p /\ ch2.ex = children[c].ex
                 /\ ch2.leaves = children[c].leaves - q
    BY <1>12, <1>22 DEF p
  <2>3. /\ w.par.instr = parents[p].instr /\ w.par.dir = parents[p].dir
        /\ w.par.reduce_only = parents[p].reduce_only /\ w.par.cum = parents[p].cum + fill
        /\ w.par.leaves = parents[p].leaves - fill
    BY <1>13, <1>15, <1>17
  <2>4. q \in Nat /\ p = children[c].parent /\ ch2 \in ChildOrderState
    BY <1>5, <1>12 DEF p
  <2>5. fill = Traded(c, q)
    BY <1>6
  <2> HIDE DEF over, fill
  <2>6. Reported(c, q, over)
    BY <1>16, <1>17, <1>23, <2>1, <2>2, <2>3, <2>4, <2>5, ReportEffect, SMTT(30)
  <2> QED BY <2>6 DEF over
<1> QED BY <1>6, <1>7, <1>23, <1>24 DEF p

\* The record of a child that is over.
LEMMA OverChild ==
  ASSUME NEW ch \in ChildOrderState, NEW n \in Int, NEW st \in States
  PROVE  [ch EXCEPT !.leaves = n, !.state = st] \in ChildOrderState
BY DEF ChildOrderState

LEMMA CancelStep ==
  ASSUME CoreInv, DivisibleLots, NEW c \in ChildIds, ReportDue(c),
         NEW final \in States, final \notin Live,
         NEW tm \in [ChildIds -> Nat], tm[c] <= 1,
         \A x \in ChildIds \ {c} : tm[x] = timers[x],
         HandleCancelReject(c, final, tm), cancels' \in 0..MaxCancels
  PROVE  CoreInv' /\ Reported(c, 0, TRUE) /\ net_qty_lots' = net_qty_lots
<1> DEFINE ch   == children[c]
           p    == ch.parent
           par  == parents[p]
           lost == ToCanonicalLots(ch.leaves, par.instr, ch.ex)
           ch2  == [ch EXCEPT !.leaves = 0, !.state = final]
           tm2  == CancelTimer(tm, c)
           open == AddOpen(open_lots, par.instr, par.dir, -lost)
           w    == [par |-> par, children |-> [children EXCEPT ![c] = ch2], timers |-> tm2,
                    open |-> open, child_free |-> child_free, parent_free |-> parent_free]
<1>1. /\ ch \in ChildOrderState /\ ChildOK(ch, p)
      /\ ch.leaves \in Nat /\ ch.ex \in Exchanges
  BY ReportFacts
<1>2. /\ p \in ParentsInUse /\ p \in ParentIds /\ par \in ParentOrder
      /\ par.instr \in Instruments /\ par.dir \in Dirs /\ par.state \in Live
      /\ par.leaves = par.total - par.cum
      /\ par.cum \in Nat /\ par.total \in Int /\ par.leaves \in Int
  BY ReportFacts
<1>3. PICK k \in 1..par.child_count : par.children[k] = c
  BY ReportFacts
<1>4. open_lots \in [Instruments -> [Dirs -> Int]] /\ net_qty_lots \in [Instruments -> Int]
  BY DEF CoreInv, TypeOK
<1>5. lost \in Nat
  BY <1>1, <1>2, Canonical
<1>6. /\ IF w.par.leaves <= 0 THEN Close(p, w)
         ELSE IF AllChildrenTerminal(w.par, w.children) THEN RerouteLeaves(p, w, net_qty_lots)
         ELSE Wait(p, w)
      /\ UNCHANGED <<net_qty_lots, unwind_only, signals>>
  BY DEF HandleCancelReject
<1>7. tm2 \in [ChildIds -> Nat] /\ tm2[c] = 0 /\ \A x \in ChildIds \ {c} : tm2[x] = timers[x]
  BY CancelTimerClears
<1> HIDE DEF lost
<1>8. open \in [Instruments -> [Dirs -> Int]]
  BY <1>2, <1>4, <1>5 DEF AddOpen
<1> HIDE DEF tm2, open
<1>9. /\ ch2.parent = ch.parent /\ ch2.cum = ch.cum /\ ch2.leaves = 0 /\ ch2.state = final
      /\ ch2.ex = ch.ex
      /\ ch2 \in ChildOrderState
  <2>1. ch \in ChildOrderState /\ 0 \in Int
    BY <1>1
  <2> HIDE DEF ch
  <2>2. ch2 \in ChildOrderState
    BY <2>1, OverChild, Zenon
  <2> QED BY <2>1, <2>2 DEF ChildOrderState
<1> HIDE DEF ch2
<1>10. ChildOK(ch2, p) /\ Timed(tm2[c], ch2)
  BY <1>1, <1>7, <1>9 DEF ChildOK, Timed
<1>room. Room(par.instr, ch2) + 0 <= Room(par.instr, children[c]) /\ Traded(c, 0) = 0
  <2>1. ToCanonicalLots(0, par.instr, ch.ex) = 0
    BY <1>1, <1>2, Canonical
  <2>2. Room(par.instr, ch2) = 0
    BY <1>9, <2>1 DEF Room
  <2>3. Room(par.instr, ch) \in Nat
    BY <1>1, <1>2, RoomBounds
  <2> QED BY <2>1, <2>2, <2>3 DEF Traded
<1>11. Touched(p, w)
  <2>1. par.leaves = par.leaves - 0 /\ par.cum >= 0
    BY <1>2
  <2> HIDE DEF w
  <2>2. w = [par |-> par, children |-> [children EXCEPT ![c] = ch2], timers |-> tm2,
             open |-> open, child_free |-> child_free, parent_free |-> parent_free]
    BY DEF w
  <2> QED BY <1>2, <1>3, <1>7, <1>8, <1>9, <1>10, <1>room, <2>1, <2>2, TouchedIntro
<1>12. w.par = par /\ w.children = [children EXCEPT ![c] = ch2]
  OBVIOUS
<1>13. OutsideOK'
  BY <1>6 DEF OutsideOK, CoreInv, TypeOK
<1>14. /\ w.par.instr = parents[p].instr /\ w.par.dir = parents[p].dir
       /\ w.par.reduce_only = parents[p].reduce_only /\ w.par.cum = parents[p].cum + 0
       /\ w.par.leaves = parents[p].leaves - 0
  BY <1>2
<1> HIDE DEF w, par
<1>15. /\ CoreInv' /\ Effect(p, w.par)
       /\ p \in ParentsInUse' \/ w.par.leaves <= 0 \/ w.par.reduce_only \/ Told
       /\ \/ AllChildrenTerminal(w.par, w.children)
          \/ children' = w.children /\ child_free' = child_free /\ outbound' = outbound
  BY <1>2, <1>4, <1>6, <1>11, <1>12, <1>13, ReportStep
<1>16. Reported(c, 0, TRUE)
  <2>1. TRUE <=> ch2.state \notin Live
    BY <1>9
  <2>2. 0 \in Nat /\ p = children[c].parent /\ ch2 \in ChildOrderState
    BY <1>9
  <2> HIDE DEF p
  <2> QED BY <1>11, <1>12, <1>14, <1>15, <1>room, <2>1, <2>2, ReportEffect
<1> QED BY <1>6, <1>15, <1>16

\* An acknowledgement leaves a live child live, whatever it has traded before, and
\* changes nothing else.
LEMMA NewStep ==
  ASSUME CoreInv, DivisibleLots, NEW c \in ChildIds, ReportDue(c), HandleNew(c)
  PROVE  /\ CoreInv' /\ Reported(c, 0, FALSE)
         /\ \A x \in ChildIds : /\ children'[x].leaves = children[x].leaves
                                /\ children'[x].ex = children[x].ex
                                /\ children'[x].state \in Live <=> children[x].state \in Live
<1> DEFINE ch  == children[c]
           p   == ch.parent
           par == parents[p]
           ch2 == [ch EXCEPT !.state = "PENDING_NEW"]
           w   == [par |-> par, children |-> [children EXCEPT ![c] = ch2], timers |-> timers,
                   open |-> open_lots, child_free |-> child_free, parent_free |-> parent_free]
<1>1. /\ ch \in ChildOrderState /\ ChildOK(ch, p) /\ ch.state \in Live
      /\ ch.leaves \in Nat /\ ch.ex \in Exchanges /\ Timed(timers[c], ch)
  BY ReportFacts
<1>2. /\ p \in ParentsInUse /\ p \in ParentIds /\ par \in ParentOrder
      /\ par.instr \in Instruments /\ par.dir \in Dirs /\ par.state \in Live
      /\ par.leaves = par.total - par.cum
      /\ par.cum \in Nat /\ par.total \in Int /\ par.leaves \in Nat \ {0}
  BY ReportFacts
<1>3. PICK k \in 1..par.child_count : par.children[k] = c
  BY ReportFacts
<1>4. /\ parents \in [ParentIds -> ParentOrder]
      /\ children \in [ChildIds -> ChildOrderState] /\ timers \in [ChildIds -> Nat]
      /\ open_lots \in [Instruments -> [Dirs -> Int]]
  BY DEF CoreInv, TypeOK
<1>5. /\ ch2.parent = ch.parent /\ ch2.cum = ch.cum /\ ch2.leaves = ch.leaves
      /\ ch2.qty = ch.qty /\ ch2.ex = ch.ex /\ ch2.state = "PENDING_NEW"
      /\ ch2 \in ChildOrderState
  BY <1>1 DEF ChildOrderState, States
<1>6. [children EXCEPT ![c].state = "PENDING_NEW"] = [children EXCEPT ![c] = ch2]
  BY <1>4
<1> HIDE DEF ch2
<1>7. "PENDING_NEW" \in Live
  BY DEF Live
<1>8. ChildOK(ch2, p) /\ Timed(timers[c], ch2)
  BY <1>1, <1>5, <1>7 DEF ChildOK, Timed
<1>9. Room(par.instr, ch2) + 0 <= Room(par.instr, children[c]) /\ Traded(c, 0) = 0
  <2>1. ToCanonicalLots(0, par.instr, ch.ex) = 0
    BY <1>1, <1>2, Canonical
  <2>2. Room(par.instr, ch2) = Room(par.instr, ch)
    BY <1>1, <1>5, <1>7 DEF Room
  <2>3. Room(par.instr, ch) \in Nat
    BY <1>1, <1>2, RoomBounds
  <2> QED BY <2>1, <2>2, <2>3 DEF Traded
<1>10. /\ w.par = par /\ w.children = [children EXCEPT ![c] = ch2] /\ w.timers = timers
       /\ w.open = open_lots /\ w.child_free = child_free /\ w.parent_free = parent_free
  OBVIOUS
<1>11. Touched(p, w)
  <2>1. par.leaves = par.leaves - 0 /\ par.cum >= 0
    BY <1>2
  <2> HIDE DEF w
  <2>2. w = [par |-> par, children |-> [children EXCEPT ![c] = ch2], timers |-> timers,
             open |-> open_lots, child_free |-> child_free, parent_free |-> parent_free]
    BY DEF w
  <2> QED BY <1>2, <1>3, <1>4, <1>5, <1>8, <1>9, <2>1, <2>2, TouchedIntro
<1> HIDE DEF w
<1>12. Wait(p, w)
  <2>1. parents = [parents EXCEPT ![p] = par]
    BY <1>2, <1>4
  <2> HIDE DEF p, par
  <2> QED BY <1>6, <1>10, <2>1, Zenon DEF HandleNew, Wait, Store
<1>13. w.children[c] = ch2 /\ \A x \in ChildIds \ {c} : w.children[x] = children[x]
  BY <1>4, <1>10
<1>14. ~AllChildrenTerminal(w.par, w.children)
  <2>1. w.children[w.par.children[k]].state \in Live
    BY <1>3, <1>5, <1>7, <1>10, <1>13
  <2> QED BY <1>3, <1>10, <2>1 DEF AllChildrenTerminal
<1>15. OutsideOK'
  BY DEF HandleNew, OutsideOK, CoreInv, TypeOK
<1>16. w.par.leaves > 0 /\ w.par.state \in Live
  BY <1>2, <1>10
<1>17. /\ CoreInv' /\ Effect(p, w.par) /\ p \in ParentsInUse'
       /\ children' = w.children /\ child_free' = child_free /\ outbound' = outbound
  BY <1>11, <1>12, <1>14, <1>15, <1>16, WaitStep
<1>18. Reported(c, 0, FALSE)
  <2>1. FALSE <=> ch2.state \notin Live
    BY <1>5, <1>7
  <2>2. 0 \in Nat /\ p = children[c].parent /\ ch2 \in ChildOrderState
    BY <1>5
  <2>3. /\ w.par.instr = parents[p].instr /\ w.par.dir = parents[p].dir
        /\ w.par.reduce_only = parents[p].reduce_only /\ w.par.cum = parents[p].cum + 0
        /\ w.par.leaves = parents[p].leaves - 0
    BY <1>2, <1>10
  <2>4. ch2.parent = p /\ ch2.ex = children[c].ex /\ ch2.leaves = children[c].leaves - 0
    BY <1>1, <1>5
  <2>5. 0 = Traded(c, 0)
    BY <1>9
  <2> HIDE DEF p, par
  <2> QED BY <1>10, <1>11, <1>17, <2>1, <2>2, <2>3, <2>4, <2>5, ReportEffect
<1>19. ASSUME NEW x \in ChildIds
       PROVE  /\ children'[x].leaves = children[x].leaves /\ children'[x].ex = children[x].ex
              /\ children'[x].state \in Live <=> children[x].state \in Live
  <2>1. CASE x = c
    BY <1>1, <1>5, <1>7, <1>13, <1>17, <2>1
  <2>2. CASE x # c
    BY <1>13, <1>17, <2>2
  <2> QED BY <2>1, <2>2
<1> QED BY <1>17, <1>18, <1>19

\* Only a live child has a timer to fire.
LEMMA TimeoutStep ==
  ASSUME CoreInv, DivisibleLots, NEW c \in ChildIds, ChildTimeout(c),
         cancels' \in 0..MaxCancels
  PROVE  /\ CoreInv' /\ ReportDue(c) /\ Reported(c, 0, TRUE)
         /\ net_qty_lots' = net_qty_lots
<1> DEFINE fired == [timers EXCEPT ![c] = @ - 1]
<1>1. timers \in [ChildIds -> Nat] /\ timers[c] > 0
  BY DEF CoreInv, TypeOK, ChildTimeout
<1>2. c \notin FreeIds(child_free)
  BY <1>1 DEF CoreInv
<1>3. Timed(timers[c], children[c])
  BY <1>2, Owner
<1>4. children[c].state \in Live /\ timers[c] = 1
  BY <1>1, <1>3 DEF Timed
<1>5. ReportDue(c)
  BY <1>2, <1>4 DEF ReportDue, ChildrenInUse
<1>6. HandleCancelReject(c, "CANCELED", fired)
  BY <1>4 DEF ChildTimeout
<1>7. fired \in [ChildIds -> Nat] /\ fired[c] = 0 /\ \A x \in ChildIds \ {c} : fired[x] = timers[x]
  BY <1>1, <1>4
<1>8. "CANCELED" \in States /\ "CANCELED" \notin Live
  BY DEF States, Live
<1>9. fired[c] <= 1
  BY <1>7
<1> HIDE DEF fired
<1> QED BY <1>5, <1>6, <1>7, <1>8, <1>9, CancelStep, Zenon

-----------------------------------------------------------------------------
(* on_strategy_order                                                       *)

\* A step that keeps the parents in use, their records, children and timers.
LEMMA QuietStep ==
  ASSUME CoreInv, RestOK',
         UNCHANGED <<children, parent_free, child_free, timers, open_lots>>,
         parents' \in [ParentIds -> ParentOrder],
         \A p \in ParentIds : DOMAIN parents'[p].children = 1..parents'[p].child_count,
         \A p \in ParentsInUse : parents'[p] = parents[p]
  PROVE  CoreInv'
<1>1. TypeOK'
  BY DEF CoreInv, TypeOK, RestOK, OutsideOK
<1>2. ParentsInUse' = ParentsInUse
  BY DEF ParentsInUse
<1> QED BY <1>1, <1>2 DEF CoreInv

\* The parent that an allocation returns.
LEMMA AllocParent ==
  ASSUME CoreInv, parent_free.top > 0
  PROVE  LET p == parent_free.ids[parent_free.top]
         IN  /\ p \in ParentIds /\ p \notin ParentsInUse
             /\ IsFreeList(Pop(parent_free, 1), ParentIds)
             /\ FreeIds(Pop(parent_free, 1)) = FreeIds(parent_free) \ {p}
<1> DEFINE p == parent_free.ids[parent_free.top]
<1>1. IsFreeList(parent_free, ParentIds)
  BY ListsFree
<1>2. parent_free.top \in Nat /\ parent_free.ids \in [1..parent_free.top -> ParentIds]
      /\ 1 \in 0..parent_free.top /\ parent_free.top \in 1..parent_free.top
  BY <1>1 DEF IsFreeList
<1>3. p \in ParentIds /\ p \in FreeIds(parent_free)
  BY <1>2 DEF FreeIds
<1>4. IsFreeList(Pop(parent_free, 1), ParentIds)
  BY <1>1, <1>2, PopFree
<1>5. FreeIds(Pop(parent_free, 1))
        = FreeIds(parent_free) \ {Popped(parent_free, 1)[i] : i \in 1..1}
  BY <1>1, <1>2, PopFree
<1>6. {Popped(parent_free, 1)[i] : i \in 1..1} = {p}
  <2>1. 1..1 = {1}
    OBVIOUS
  <2>2. Popped(parent_free, 1)[1] = p
    <3>1. parent_free.top + 1 - 1 = parent_free.top
      BY <1>2
    <3> QED BY <2>1, <3>1 DEF Popped
  <2> QED BY <2>1, <2>2
<1> QED BY <1>3, <1>4, <1>5, <1>6 DEF ParentsInUse

\* A signal that becomes no order has at most changed the record of a free parent.
Refused ==
  /\ Told
  /\ UNCHANGED <<children, parent_free, child_free, open_lots, timers, outbound>>
  /\ \A q \in ParentsInUse : parents'[q] = parents[q]

\* What is left of the signal after clamp_reduce_only.
Clamped(sig) ==
  ClampReduceOnly(sig.dir, sig.qty, Constrained(sig, unwind_only),
                  net_qty_lots[sig.instr], open_lots[sig.instr][sig.dir])

\* The quantity of par was reserved, routed and sent.
Reserved(p, par) ==
  \E split :
    /\ IsSplit(split, par.leaves)
    /\ Liquidity = "deep" => split.rem[split.count] = 0
    /\ Sent(p, [par |-> par, open |-> AddOpen(open_lots, par.instr, par.dir, par.leaves)], split)

\* The signal has passed the risk checks and opened p as an order with record par; if
\* there is no child for it, it is gone at once, and without a trace when the books
\* cover every target.
Opened(sig, p, par) ==
  /\ p \notin ParentsInUse
  /\ par.instr = sig.instr /\ par.instr \in Instruments /\ par.dir = sig.dir
  /\ par.reduce_only = Constrained(sig, unwind_only')
  /\ par.cum = 0 /\ par.leaves \in Nat \ {0} /\ par.leaves = Clamped(sig)
  /\ ~BreaksPositionLimit(sig, par.leaves, net_qty_lots[sig.instr])
  /\ Effect(p, par)
  /\ \/ p \in ParentsInUse' /\ Reserved(p, par)
     \/ /\ Told
        /\ Liquidity = "deep" =>
             UNCHANGED <<open_lots, child_free, parent_free, timers, outbound>>

Signaled(sig) == Refused \/ \E p \in ParentIds, par \in ParentOrder : Opened(sig, p, par)

\* Releasing what was reserved.
LEMMA AddOpenBack ==
  ASSUME NEW open \in [Instruments -> [Dirs -> Int]], NEW i \in Instruments,
         NEW dir \in Dirs, NEW n \in Int
  PROVE  AddOpen(AddOpen(open, i, dir, n), i, dir, 0 - n) = open
<1> DEFINE up   == AddOpen(open, i, dir, n)
           down == AddOpen(up, i, dir, 0 - n)
<1>1. /\ up \in [Instruments -> [Dirs -> Int]]
      /\ \A j \in Instruments, d \in Dirs :
           up[j][d] = IF j = i /\ d = dir THEN open[j][d] + n ELSE open[j][d]
  BY DEF AddOpen
<1> HIDE DEF up
<1>2. /\ down \in [Instruments -> [Dirs -> Int]]
      /\ \A j \in Instruments, d \in Dirs :
           down[j][d] = IF j = i /\ d = dir THEN up[j][d] + (0 - n) ELSE up[j][d]
  BY <1>1 DEF AddOpen
<1> HIDE DEF down
<1>3. ASSUME NEW j \in Instruments PROVE down[j] = open[j]
  <2>1. ASSUME NEW d \in Dirs PROVE down[j][d] = open[j][d]
    <3>1. open[j][d] \in Int
      OBVIOUS
    <3> QED BY <1>1, <1>2, <3>1
  <2>2. down[j] \in [Dirs -> Int] /\ open[j] \in [Dirs -> Int]
    BY <1>2
  <2> QED BY <2>1, <2>2
<1>4. down = open
  BY <1>2, <1>3
<1> QED BY <1>4 DEF up, down

LEMMA RefuseStep ==
  ASSUME CoreInv, NEW p \in ParentIds, p \notin ParentsInUse, NEW par, SlotsOK(par),
         NEW sig \in Signals, NEW reason \in RejectReasons, Refuse(p, par, sig, reason),
         OutsideOK'
  PROVE  CoreInv' /\ Refused
<1> DEFINE rec == [par EXCEPT !.state = "REJECTED"]
<1>1. SlotsOK(rec)
  BY DEF SlotsOK, ParentOrder, States
<1>2. parents' = [parents EXCEPT ![p] = rec] /\ parents \in [ParentIds -> ParentOrder]
  BY DEF Refuse, CoreInv, TypeOK
<1> HIDE DEF rec
<1>3. parents' \in [ParentIds -> ParentOrder]
  BY <1>1, <1>2 DEF SlotsOK
<1>4. \A q \in ParentIds : DOMAIN parents'[q].children = 1..parents'[q].child_count
  BY <1>1, <1>2 DEF SlotsOK, CoreInv, TypeOK
<1>5. \A q \in ParentsInUse : parents'[q] = parents[q]
  BY <1>2 DEF ParentsInUse
<1>6. RestOK'
  <2>1. sig.instr \in Nat /\ sig.dir \in Dirs /\ sig.qty \in Int
    BY CoreAssumption
  <2>2. reject_queue' \in Seq(OrderReject) /\ Len(reject_queue') <= kRejectQueue
    BY <2>1, NotifyType DEF Refuse, CoreInv
  <2> QED BY <2>2 DEF Refuse, RestOK, CoreInv, TypeOK
<1>7. CoreInv'
  BY <1>3, <1>4, <1>5, <1>6, QuietStep DEF Refuse
<1>8. Told
  BY NotifyTells DEF Refuse, CoreInv
<1> QED BY <1>5, <1>7, <1>8 DEF Refuse, Refused

LEMMA ValidateAnswers ==
  ASSUME NEW sig, NEW qty, NEW net, NEW margin_ok \in BOOLEAN
  PROVE  LET answer == Validate(sig, qty, net, margin_ok)
         IN  /\ answer # "OK" => answer \in RejectReasons
             /\ answer = "OK" => /\ sig.instr \in Instruments
                                 /\ ~BreaksPositionLimit(sig, qty, net)
<1>1. CASE sig.instr \notin Instruments
  BY <1>1 DEF Validate, RejectReasons
<1>2. CASE sig.instr \in Instruments
  <2> DEFINE answer == Validate(sig, qty, net, margin_ok)
  <2>1. answer = "RISK_FAT_FINGER" \/ answer = "RISK_POSITION_LIMIT" \/ answer = "RISK_NOTIONAL"
        \/ answer = "RISK_MARGIN" \/ answer = "OK"
    BY Zenon DEF Validate
  <2>2. answer = "OK" => ~BreaksPositionLimit(sig, qty, net)
    BY <1>2 DEF Validate
  <2> HIDE DEF answer
  <2>3. answer # "OK" => answer \in RejectReasons
    BY <2>1 DEF RejectReasons
  <2> QED BY <1>2, <2>2, <2>3 DEF answer
<1> QED BY <1>1, <1>2

LEMMA RouteStep ==
  ASSUME CoreInv, DivisibleLots, parent_free.top > 0,
         NEW p, p = parent_free.ids[parent_free.top], NEW sig \in Signals,
         NEW par, SlotsOK(par), par.instr = sig.instr, par.dir = sig.dir,
         par.total = par.leaves, par.cum = 0,
         par.leaves \in Nat,
         par.instr \in Instruments => par.leaves # 0 /\ par.leaves = Clamped(sig),
         par.reduce_only = Constrained(sig, unwind_only'),
         Route(p, par, sig), OutsideOK'
  PROVE  CoreInv' /\ Signaled(sig)
<1>1. /\ p \in ParentIds /\ p \notin ParentsInUse
      /\ IsFreeList(Pop(parent_free, 1), ParentIds)
      /\ FreeIds(Pop(parent_free, 1)) = FreeIds(parent_free) \ {p}
  BY AllocParent
<1> DEFINE net  == IF sig.instr \in Instruments THEN net_qty_lots[sig.instr] ELSE 0
           open == AddOpen(open_lots, sig.instr, sig.dir, par.leaves)
           sent == [par EXCEPT !.state = "PENDING_NEW"]
           w    == [par |-> sent, children |-> children, timers |-> timers, open |-> open,
                    child_free |-> child_free, parent_free |-> Pop(parent_free, 1)]
<1>2. PICK margin_ok \in MarginOk :
        IF Validate(sig, par.leaves, net, margin_ok) # "OK"
        THEN Refuse(p, par, sig, Validate(sig, par.leaves, net, margin_ok))
        ELSE \E split \in IF sig.type = "MAKER" THEN MakerSplits(par.leaves)
                                                ELSE OptimalSplits(par.leaves) :
               IF split.count = 0 THEN Refuse(p, par, sig, "NO_LIQUIDITY")
               ELSE DispatchChildOrders(p, w, split)
  BY DEF Route
<1> DEFINE answer == Validate(sig, par.leaves, net, margin_ok)
<1>3. margin_ok \in BOOLEAN
  BY RiskAssumption
<1>4. /\ answer # "OK" => answer \in RejectReasons
      /\ answer = "OK" => /\ sig.instr \in Instruments
                          /\ ~BreaksPositionLimit(sig, par.leaves, net)
  BY <1>3, ValidateAnswers
<1> HIDE DEF answer
<1>5. CASE answer # "OK"
  <2>1. Refuse(p, par, sig, answer)
    BY <1>2, <1>5 DEF answer
  <2> QED BY <1>1, <1>4, <1>5, <2>1, RefuseStep DEF Signaled
<1>6. CASE answer = "OK"
  <2>1. PICK split \in IF sig.type = "MAKER" THEN MakerSplits(par.leaves)
                                            ELSE OptimalSplits(par.leaves) :
          IF split.count = 0 THEN Refuse(p, par, sig, "NO_LIQUIDITY")
          ELSE DispatchChildOrders(p, w, split)
    BY <1>2, <1>6 DEF answer
  <2>2. CASE split.count = 0
    <3>1. "NO_LIQUIDITY" \in RejectReasons
      BY DEF RejectReasons
    <3> QED BY <1>1, <2>1, <2>2, <3>1, RefuseStep DEF Signaled
  <2>3. CASE split.count # 0
    <3>1. sig.instr \in Instruments /\ par.leaves \in Nat \ {0} /\ sig.dir \in Dirs
      BY <1>4, <1>6, CoreAssumption
    <3>2. /\ IsSplit(split, par.leaves)
          /\ Liquidity = "deep" => split.rem[split.count] = 0
      <4>1. CASE sig.type = "MAKER"
        BY <2>1, <2>3, <3>1, <4>1, MakerSplitsSplit
      <4>2. CASE sig.type # "MAKER"
        BY <2>1, <2>3, <3>1, <4>2, OptimalSplitsSplit
      <4> QED BY <4>1, <4>2
    <3>3. /\ sent \in ParentOrder /\ sent.instr = par.instr /\ sent.leaves = par.leaves
          /\ sent.total = par.total /\ sent.cum = par.cum /\ sent.state = "PENDING_NEW"
          /\ sent.dir = par.dir /\ sent.reduce_only = par.reduce_only
      BY DEF SlotsOK, ParentOrder, States
    <3>4. open \in [Instruments -> [Dirs -> Int]]
      BY <3>1 DEF AddOpen, CoreInv, TypeOK
    <3> HIDE DEF sent, open
    <3>5. /\ w.par = sent /\ w.children = children /\ w.timers = timers /\ w.open = open
          /\ w.child_free = child_free /\ w.parent_free = Pop(parent_free, 1)
          /\ w = [par |-> w.par, children |-> w.children, timers |-> w.timers, open |-> w.open,
                  child_free |-> w.child_free, parent_free |-> w.parent_free]
      OBVIOUS
    <3>6. DispatchChildOrders(p, w, split)
      BY <2>1, <2>3
    <3> HIDE DEF w
    <3>7. Loose(p, w)
      <4>1. IsDraft(w)
        BY <3>3, <3>4, <3>5 DEF IsDraft, CoreInv, TypeOK
      <4>2. Owned(p) = FreeIds(child_free)
        BY <1>1 DEF Owned
      <4>3. IsFreeList(child_free, ChildIds)
        BY ListsFree
      <4>4. \A c \in FreeIds(child_free) : timers[c] = 0
        BY DEF CoreInv
      <4> QED BY <1>1, <3>5, <4>1, <4>2, <4>3, <4>4 DEF Loose
    <3>8. /\ w.par.instr \in Instruments /\ w.par.leaves > 0
          /\ w.par.leaves = w.par.total - w.par.cum /\ w.par.cum >= 0
          /\ w.par.state = "PENDING_NEW" /\ w.par.leaves = par.leaves
      BY <3>1, <3>3, <3>5
    <3>9. /\ CoreInv' /\ Effect(p, w.par)
          /\ (p \in ParentsInUse' /\ Sent(p, w, split)) \/ Unsent(p, w, split)
      BY <1>1, <3>2, <3>6, <3>7, <3>8, DispatchStep
    <3>10. Effect(p, par)
      BY <3>3, <3>5, <3>9 DEF Effect, SameOrder, Sends
    <3>11. ASSUME Unsent(p, w, split)
           PROVE  /\ Told
                  /\ Liquidity = "deep" =>
                       UNCHANGED <<open_lots, child_free, parent_free, timers, outbound>>
      <4>1. /\ Told /\ outbound' = outbound /\ child_free' = child_free /\ timers' = timers
            /\ parent_free' = PushOne(Pop(parent_free, 1), p)
            /\ open_lots' = AddOpen(open, sig.instr, sig.dir,
                                    split.rem[split.count] - split.rem[0])
        BY <3>3, <3>5, <3>11 DEF Unsent
      <4>2. parent_free' = parent_free
        BY <4>1, ListsFree, PopPush
      <4>3. ASSUME Liquidity = "deep" PROVE open_lots' = open_lots
        <5>1. split.rem[split.count] = 0 /\ split.rem[0] = par.leaves
          BY <3>2, <4>3 DEF IsSplit
        <5>2. open_lots' = AddOpen(AddOpen(open_lots, sig.instr, sig.dir, par.leaves),
                                   sig.instr, sig.dir, 0 - par.leaves)
          BY <4>1, <5>1, Zenon DEF open
        <5>3. open_lots \in [Instruments -> [Dirs -> Int]] /\ par.leaves \in Int
          BY <3>1 DEF CoreInv, TypeOK
        <5> QED BY <3>1, <5>2, <5>3, AddOpenBack
      <4> QED BY <4>1, <4>2, <4>3
    <3>12. ~BreaksPositionLimit(sig, par.leaves, net_qty_lots[sig.instr])
      BY <1>4, <1>6, <3>1
    <3>13. par \in ParentOrder
      BY DEF SlotsOK
    <3>14. ASSUME Sent(p, w, split) PROVE Reserved(p, par)
      <4> DEFINE v == [par |-> par, open |-> AddOpen(open_lots, par.instr, par.dir, par.leaves)]
      <4>1. /\ v.par = par /\ v.open = w.open /\ w.par.leaves = par.leaves
            /\ w.par.instr = par.instr /\ w.par.dir = par.dir
        BY <3>3, <3>5 DEF open
      <4> HIDE DEF v
      <4>2. Sent(p, v, split)
        BY <3>14, <4>1 DEF Sent
      <4> QED BY <3>2, <4>2 DEF Reserved, v
    <3>15. Opened(sig, p, par)
      BY <1>1, <3>1, <3>9, <3>10, <3>11, <3>12, <3>14 DEF Opened
    <3> QED BY <1>1, <3>9, <3>13, <3>15 DEF Signaled
  <2> QED BY <2>2, <2>3
<1> QED BY <1>5, <1>6

LEMMA AdmitStep ==
  ASSUME CoreInv, DivisibleLots, parent_free.top > 0, NEW sig \in Signals,
         Admit(sig), net_qty_lots' \in [Instruments -> Int],
         signals' \in 0..MaxSignals, cancels' \in 0..MaxCancels
  PROVE  CoreInv' /\ Signaled(sig)
<1> DEFINE p       == parent_free.ids[parent_free.top]
           i       == sig.instr
           ok      == i \in Instruments
           clamped == IF ok THEN ClampReduceOnly(sig.dir, sig.qty,
                                                 Constrained(sig, unwind_only),
                                                 net_qty_lots[i], open_lots[i][sig.dir])
                            ELSE sig.qty
           ro      == Constrained(sig, unwind_only')
           par     == NewParent(i, sig.dir, ro, clamped)
<1>1. /\ unwind_only' \in {unwind_only} \cup
                          {[unwind_only EXCEPT ![i] = b] : b \in IF ok THEN UnwindModes ELSE {}}
      /\ IF ok /\ clamped = 0
         THEN Refuse(p, par, sig, "REDUCE_ONLY_VIOLATION")
         ELSE Route(p, par, sig)
  BY DEF Admit
<1>2. /\ sig.instr \in Nat /\ sig.dir \in Dirs /\ sig.qty \in Nat
      /\ sig.reduce_only \in BOOLEAN /\ UnwindModes \subseteq BOOLEAN
  BY CoreAssumption
<1>3. /\ unwind_only \in [Instruments -> BOOLEAN] /\ net_qty_lots \in [Instruments -> Int]
      /\ open_lots \in [Instruments -> [Dirs -> Int]]
  BY DEF CoreInv, TypeOK
<1>4. unwind_only' \in [Instruments -> BOOLEAN]
  BY <1>1, <1>2, <1>3
<1>5. OutsideOK'
  BY <1>4 DEF OutsideOK
<1>6. clamped \in Nat
  <2>1. CASE ok
    <3>1. Constrained(sig, unwind_only) \in BOOLEAN
      BY Zenon DEF Constrained
    <3>2. net_qty_lots[i] \in Int /\ open_lots[i][sig.dir] \in Int
      BY <1>2, <1>3, <2>1
    <3>3. clamped \in 0..sig.qty
      BY <1>2, <2>1, <3>1, <3>2, ClampBounds
    <3> QED BY <1>2, <3>3
  <2>2. CASE ~ok
    BY <1>2, <2>2
  <2> QED BY <2>1, <2>2
<1>7. ro \in BOOLEAN
  BY Zenon DEF Constrained
<1> HIDE DEF clamped, ro
<1>8. /\ SlotsOK(par) /\ par.instr = i /\ par.dir = sig.dir /\ par.cum = 0
      /\ par.reduce_only = ro /\ par.total = clamped /\ par.leaves = clamped
  <2>1. [s \in 1..0 |-> 0] \in SlotArray /\ 0 \in 0..kMaxChildrenPerParent
    <3>1. [s \in 1..0 |-> 0] \in [1..0 -> ChildIds]
      OBVIOUS
    <3>2. 0 \in 0..kMaxChildrenPerParent
      BY CoreAssumption
    <3> QED BY <3>1, <3>2 DEF SlotArray
  <2>2. "NEW" \in States /\ clamped \in Int
    BY <1>6 DEF States
  <2>3. par = [instr |-> i, dir |-> sig.dir, reduce_only |-> ro, total |-> clamped, cum |-> 0,
               leaves |-> clamped, state |-> "NEW", child_count |-> 0,
               children |-> [s \in 1..0 |-> 0]]
    BY DEF NewParent
  <2> HIDE DEF par
  <2>4. par \in ParentOrder
    BY <1>2, <1>7, <2>1, <2>2, <2>3 DEF ParentOrder
  <2> QED BY <2>3, <2>4 DEF SlotsOK
<1> HIDE DEF par
<1>9. CASE ok /\ clamped = 0
  <2>1. Refuse(p, par, sig, "REDUCE_ONLY_VIOLATION")
    BY <1>1, <1>9
  <2>2. "REDUCE_ONLY_VIOLATION" \in RejectReasons
    BY DEF RejectReasons
  <2>3. p \in ParentIds /\ p \notin ParentsInUse
    BY AllocParent
  <2> HIDE DEF p
  <2>4. CoreInv' /\ Refused
    BY <1>5, <1>8, <2>1, <2>2, <2>3, RefuseStep
  <2> QED BY <2>4 DEF Signaled
<1>10. CASE ~(ok /\ clamped = 0)
  <2>1. Route(p, par, sig)
    BY <1>1, <1>10
  <2>2. par.instr \in Instruments => par.leaves # 0 /\ par.leaves = Clamped(sig)
    BY <1>8, <1>10 DEF clamped, Clamped
  <2>3. par.reduce_only = Constrained(sig, unwind_only')
    BY <1>8 DEF ro
  <2>4. CoreInv' /\ Signaled(sig)
    BY <1>5, <1>6, <1>8, <2>1, <2>2, <2>3, RouteStep
  <2> QED BY <2>4
<1> QED BY <1>9, <1>10

LEMMA SignalStep ==
  ASSUME CoreInv, DivisibleLots, NEW sig \in Signals, OnStrategyOrder(sig)
  PROVE  CoreInv' /\ Signaled(sig)
<1>1. /\ net_qty_lots' \in [Instruments -> Int] /\ signals' \in 0..MaxSignals
      /\ cancels' \in 0..MaxCancels
  BY CoreAssumption DEF OnStrategyOrder, CoreInv, TypeOK
<1>2. PICK approved \in Approvals(sig) :
        IF approved /\ parent_free.top > 0 THEN Admit(sig)
        ELSE /\ NotifyReject(sig.instr, sig.dir, sig.qty,
                             IF approved THEN "PARENT_POOL_EXHAUSTED" ELSE "NOTIONAL_GATE_BLOCK")
             /\ UNCHANGED <<parents, children, parent_free, child_free, open_lots,
                            unwind_only, timers, outbound>>
  BY DEF OnStrategyOrder
<1>3. CASE approved /\ parent_free.top > 0
  BY <1>1, <1>2, <1>3, AdmitStep
<1>4. CASE ~(approved /\ parent_free.top > 0)
  <2> DEFINE reason == IF approved THEN "PARENT_POOL_EXHAUSTED" ELSE "NOTIONAL_GATE_BLOCK"
  <2>1. reason \in RejectReasons
    BY DEF RejectReasons
  <2>2. NotifyReject(sig.instr, sig.dir, sig.qty, reason)
    BY <1>2, <1>4
  <2>3. UNCHANGED <<parents, children, parent_free, child_free, open_lots, unwind_only,
                    timers, outbound>>
    BY <1>2, <1>4
  <2> HIDE DEF reason
  <2>4. sig.instr \in Nat /\ sig.dir \in Dirs /\ sig.qty \in Int
    BY CoreAssumption
  <2>5. reject_queue' \in Seq(OrderReject) /\ Len(reject_queue') <= kRejectQueue
    BY <2>1, <2>2, <2>4, NotifyType DEF CoreInv
  <2>6. RestOK'
    BY <1>1, <2>3, <2>5 DEF RestOK, OutsideOK, CoreInv, TypeOK
  <2>7. /\ parents' \in [ParentIds -> ParentOrder]
        /\ \A p \in ParentIds : DOMAIN parents'[p].children = 1..parents'[p].child_count
        /\ \A p \in ParentsInUse : parents'[p] = parents[p]
    BY <2>3 DEF CoreInv, TypeOK
  <2>8. CoreInv'
    BY <2>3, <2>6, <2>7, QuietStep
  <2>9. Told
    BY <2>2, NotifyTells DEF CoreInv
  <2> QED BY <2>3, <2>7, <2>8, <2>9 DEF Signaled, Refused
<1> QED BY <1>3, <1>4

-----------------------------------------------------------------------------
(* The theorem                                                             *)

LEMMA CoreInit ==
  ASSUME Init
  PROVE  CoreInv
<1>1. /\ IsFreeList(parent_free, ParentIds) /\ FreeIds(parent_free) = ParentIds
      /\ IsFreeList(child_free, ChildIds) /\ FreeIds(child_free) = ChildIds
  BY CoreAssumption, FullListFree DEF Init, ParentIds, ChildIds
<1>2. ParentsInUse = {}
  BY <1>1 DEF ParentsInUse
<1>3. 0 \in ParentIds /\ 0 \in Exchanges /\ 0 \in 0..kMaxChildrenPerParent
  BY CoreAssumption, LotsAssumption DEF ParentIds, Exchanges
<1>4. ZeroChild \in ChildOrderState
  BY <1>3 DEF ZeroChild, ChildOrderState, States
<1>5. ZeroParent \in ParentOrder /\ DOMAIN ZeroParent.children = 1..ZeroParent.child_count
  <2>1. [s \in 1..0 |-> 0] \in SlotArray
    <3>1. [s \in 1..0 |-> 0] \in [1..0 -> ChildIds]
      OBVIOUS
    <3> QED BY <1>3, <3>1 DEF SlotArray
  <2>2. "NEW" \in States /\ "BUY" \in Dirs
    BY DEF States, Dirs
  <2>3. ZeroParent = [instr |-> 0, dir |-> "BUY", reduce_only |-> FALSE, total |-> 0, cum |-> 0,
                      leaves |-> 0, state |-> "NEW", child_count |-> 0,
                      children |-> [s \in 1..0 |-> 0]]
    BY DEF ZeroParent, NewParent
  <2> QED BY <1>3, <2>1, <2>2, <2>3 DEF ParentOrder
<1>6. parents \in [ParentIds -> ParentOrder] /\ children \in [ChildIds -> ChildOrderState]
  BY <1>4, <1>5 DEF Init
<1>7. \A p \in ParentIds : DOMAIN parents[p].children = 1..parents[p].child_count
  BY <1>5 DEF Init
<1>8. /\ net_qty_lots \in [Instruments -> Int] /\ open_lots \in [Instruments -> [Dirs -> Int]]
      /\ unwind_only \in [Instruments -> BOOLEAN] /\ timers \in [ChildIds -> Nat]
      /\ outbound \subseteq OutboundOrders
  BY DEF Init
<1>9. reject_queue \in Seq(OrderReject) /\ Len(reject_queue) <= kRejectQueue
      /\ signals \in 0..MaxSignals /\ cancels \in 0..MaxCancels
  BY CoreAssumption DEF Init
<1>10. TypeOK
  BY <1>1, <1>6, <1>7, <1>8, <1>9 DEF TypeOK, IsFreeList
<1>11. \A c \in ChildIds : timers[c] = 0
  BY DEF Init
<1> QED BY <1>1, <1>2, <1>10, <1>11 DEF CoreInv

LEMMA CoreNext ==
  ASSUME DivisibleLots, CoreInv, [Next]_vars
  PROVE  CoreInv'
<1>1. CASE UNCHANGED vars
  <2>1. RestOK'
    BY <1>1 DEF vars, RestOK, OutsideOK, CoreInv, TypeOK
  <2> QED BY <1>1, <2>1, QuietStep DEF vars, CoreInv, TypeOK
<1>2. ASSUME NEW sig \in Signals, OnStrategyOrder(sig) PROVE CoreInv'
  BY <1>2, SignalStep
<1>3. ASSUME Counted PROVE cancels' \in 0..MaxCancels
  BY <1>3, CoreAssumption DEF Counted, CoreInv, TypeOK
<1>4. ASSUME NEW c \in ChildIds, OnExecutionReport(c) PROVE CoreInv'
  <2>1. ReportDue(c)
    BY <1>4 DEF OnExecutionReport
  <2>2. CASE \E q \in 1..children[c].leaves : HandleFill(c, q)
    BY <2>1, <2>2, FillStep
  <2>3. CASE \E final \in {"CANCELED", "REJECTED"} :
               HandleCancelReject(c, final, timers) /\ Counted
    <3>1. PICK final \in {"CANCELED", "REJECTED"} : HandleCancelReject(c, final, timers) /\ Counted
      BY <2>3
    <3>2. final \in States /\ final \notin Live
      BY <3>1 DEF States, Live
    <3>3. timers \in [ChildIds -> Nat] /\ timers[c] <= 1
      BY <2>1, ReportFacts DEF CoreInv, TypeOK
    <3> QED BY <1>3, <2>1, <3>1, <3>2, <3>3, CancelStep
  <2>4. CASE HandleNew(c)
    BY <2>1, <2>4, NewStep
  <2> QED BY <1>4, <2>2, <2>3, <2>4 DEF OnExecutionReport
<1>5. ASSUME NEW c \in ChildIds, ChildTimeout(c), Counted PROVE CoreInv'
  BY <1>3, <1>5, TimeoutStep
<1>6. ASSUME NEW i \in Instruments, NEW b \in UnwindModes, SetUnwindMode(i, b) PROVE CoreInv'
  <2>1. unwind_only' \in [Instruments -> BOOLEAN]
    BY <1>6, CoreAssumption DEF SetUnwindMode, CoreInv, TypeOK
  <2>2. RestOK'
    BY <1>6, <2>1 DEF SetUnwindMode, RestOK, OutsideOK, CoreInv, TypeOK
  <2> QED BY <1>6, <2>2, QuietStep DEF SetUnwindMode, CoreInv, TypeOK
<1>7. ASSUME TakeReject PROVE CoreInv'
  <2>1. reject_queue' \in Seq(OrderReject) /\ Len(reject_queue') <= kRejectQueue
    <3>1. /\ reject_queue \in Seq(OrderReject) /\ Len(reject_queue) <= kRejectQueue
          /\ reject_queue # <<>> /\ reject_queue' = Tail(reject_queue) /\ kRejectQueue \in Nat
      BY <1>7, CoreAssumption DEF TakeReject, CoreInv, TypeOK
    <3> QED BY <3>1
  <2>2. RestOK'
    BY <1>7, <2>1 DEF TakeReject, RestOK, OutsideOK, CoreInv, TypeOK
  <2> QED BY <1>7, <2>2, QuietStep DEF TakeReject, CoreInv, TypeOK
<1>8. ASSUME NEW o \in outbound, TakeOrder(o) PROVE CoreInv'
  <2>1. RestOK'
    BY <1>8 DEF TakeOrder, RestOK, OutsideOK, CoreInv, TypeOK
  <2> QED BY <1>8, <2>1, QuietStep DEF TakeOrder, CoreInv, TypeOK
<1> QED BY <1>1, <1>2, <1>4, <1>5, <1>6, <1>7, <1>8 DEF Next

-----------------------------------------------------------------------------
(* What a step does to the parents and the positions.                      *)

\* A report makes a parent trade q canonical lots of those it wants, possibly none.
Trades(c, q) ==
  /\ ReportDue(c) /\ q \in 0..parents[children[c].parent].leaves
  /\ Moved(c, q)
  /\ LET par == parents[children[c].parent]
     IN  net_qty_lots' = [net_qty_lots EXCEPT ![par.instr] = @ + Signed(par.dir, q)]
  /\ signals' = signals

\* A signal is handled.
Handles(sig) ==
  /\ Signaled(sig)
  /\ net_qty_lots' = net_qty_lots

\* Every other step leaves both alone.
Rests == UNCHANGED <<parents, parent_free, net_qty_lots, signals>>

\* A trade of no lots leaves the position alone.
LEMMA NoTrade ==
  ASSUME TypeOK, NEW i \in Instruments, NEW dir, net_qty_lots' = net_qty_lots
  PROVE  net_qty_lots' = [net_qty_lots EXCEPT ![i] = @ + Signed(dir, 0)]
<1>1. net_qty_lots \in [Instruments -> Int]
  BY DEF TypeOK
<1>2. net_qty_lots[i] + Signed(dir, 0) = net_qty_lots[i]
  BY <1>1 DEF Signed
<1>3. [net_qty_lots EXCEPT ![i] = net_qty_lots[i]] = net_qty_lots
  BY <1>1
<1> QED BY <1>2, <1>3

\* What a live child may still trade is part of what its parent wants.
LEMMA ChildWithin ==
  ASSUME DivisibleLots, CoreInv, NEW c \in ChildIds, ReportDue(c),
         NEW q \in 0..children[c].leaves
  PROVE  Traded(c, q) \in 0..parents[children[c].parent].leaves
<1> DEFINE ch  == children[c]
           p   == ch.parent
           par == parents[p]
<1>1. /\ p \in ParentsInUse /\ par.leaves \in Nat /\ par.instr \in Instruments
      /\ ch.leaves \in Nat /\ ch.ex \in Exchanges /\ ChildOK(ch, p)
  BY ReportFacts
<1>2. PICK k \in 1..par.child_count : par.children[k] = c
  BY ReportFacts
<1>3. PICK at \in [1..par.child_count -> 0..par.leaves] :
        \A s \in 1..par.child_count :
          at[s] + Room(par.instr, children[par.children[s]]) <= par.leaves
  BY <1>1 DEF CoreInv, Family, Fits
<1>4. at[k] \in Nat /\ at[k] + Room(par.instr, ch) <= par.leaves
  BY <1>1, <1>2, <1>3
<1>5. /\ Room(par.instr, ch) \in Nat /\ ToCanonicalLots(ch.leaves, par.instr, ch.ex) \in Nat
      /\ ToCanonicalLots(ch.leaves, par.instr, ch.ex) <= Room(par.instr, ch)
  BY <1>1, RoomBounds
<1>6. q \in Nat /\ ch.leaves - q \in Nat /\ q + (ch.leaves - q) = ch.leaves
  BY <1>1
<1>7. /\ ToCanonicalLots(q, par.instr, ch.ex) \in Nat
      /\ ToCanonicalLots(ch.leaves - q, par.instr, ch.ex) \in Nat
      /\ ToCanonicalLots(q + (ch.leaves - q), par.instr, ch.ex)
           = ToCanonicalLots(q, par.instr, ch.ex) + ToCanonicalLots(ch.leaves - q, par.instr, ch.ex)
  BY <1>1, <1>6, Canonical
<1>8. ToCanonicalLots(q, par.instr, ch.ex) \in 0..par.leaves
  BY <1>1, <1>4, <1>5, <1>6, <1>7
<1> QED BY <1>8 DEF Traded

LEMMA CoreSteps ==
  ASSUME DivisibleLots, CoreInv, [Next]_vars
  PROVE  \/ \E sig \in Signals : Handles(sig)
         \/ \E c \in ChildIds, q \in Nat : Trades(c, q)
         \/ Rests
<1>1. CASE UNCHANGED vars
  BY <1>1 DEF vars, Rests
<1>2. ASSUME NEW sig \in Signals, OnStrategyOrder(sig) PROVE Handles(sig)
  BY <1>2, SignalStep DEF OnStrategyOrder, Handles
<1>3. ASSUME Counted PROVE cancels' \in 0..MaxCancels
  BY <1>3, CoreAssumption DEF Counted, CoreInv, TypeOK
<1>4. ASSUME NEW c \in ChildIds, ReportDue(c), Reported(c, 0, TRUE),
             net_qty_lots' = net_qty_lots, signals' = signals
      PROVE  Trades(c, 0)
  <2>1. /\ parents[children[c].parent].leaves \in Nat
        /\ parents[children[c].parent].instr \in Instruments /\ children[c].ex \in Exchanges
    BY <1>4, ReportFacts
  <2>2. Moved(c, 0)
    <3>1. Traded(c, 0) = 0
      BY <2>1, Canonical DEF Traded
    <3> QED BY <1>4, <3>1 DEF Reported
  <2>3. net_qty_lots' = [net_qty_lots EXCEPT ![parents[children[c].parent].instr] =
                           @ + Signed(parents[children[c].parent].dir, 0)]
    BY <1>4, <2>1, NoTrade DEF CoreInv
  <2>4. 0 \in 0..parents[children[c].parent].leaves
    BY <2>1
  <2> QED BY <1>4, <2>2, <2>3, <2>4, Zenon DEF Trades
<1>5. ASSUME NEW c \in ChildIds, OnExecutionReport(c)
      PROVE  (\E q \in Nat : Trades(c, q)) \/ Rests
  <2>1. ReportDue(c) /\ children[c].leaves \in Nat
    BY <1>5, ReportFacts DEF OnExecutionReport
  <2>2. CASE \E q \in 1..children[c].leaves : HandleFill(c, q)
    <3>1. PICK q \in 1..children[c].leaves : HandleFill(c, q)
      BY <2>2
    <3>2. Reported(c, q, q = children[c].leaves)
      BY <2>1, <3>1, FillStep
    <3>3. Moved(c, Traded(c, q))
      BY <3>2 DEF Reported
    <3>4. LET par == parents[children[c].parent]
          IN  net_qty_lots' = [net_qty_lots EXCEPT ![par.instr] = @ + Signed(par.dir, Traded(c, q))]
      BY <2>1, <3>1, FillStep
    <3>5. Traded(c, q) \in 0..parents[children[c].parent].leaves /\ Traded(c, q) \in Nat
      <4>1. q \in 0..children[c].leaves /\ parents[children[c].parent].leaves \in Nat
        BY <2>1, ReportFacts
      <4> QED BY <2>1, <4>1, ChildWithin
    <3>6. signals' = signals
      BY <3>1 DEF HandleFill
    <3>7. Trades(c, Traded(c, q))
      BY <2>1, <3>3, <3>4, <3>5, <3>6 DEF Trades
    <3> QED BY <3>5, <3>7
  <2>3. CASE \E final \in {"CANCELED", "REJECTED"} :
               HandleCancelReject(c, final, timers) /\ Counted
    <3>1. PICK final \in {"CANCELED", "REJECTED"} : HandleCancelReject(c, final, timers) /\ Counted
      BY <2>3
    <3>2. final \in States /\ final \notin Live
      BY <3>1 DEF States, Live
    <3>3. timers \in [ChildIds -> Nat] /\ timers[c] <= 1
      BY <2>1, ReportFacts DEF CoreInv, TypeOK
    <3>4. cancels' \in 0..MaxCancels /\ signals' = signals
      BY <1>3, <3>1 DEF HandleCancelReject
    <3>5. \A x \in ChildIds \ {c} : timers[x] = timers[x]
      OBVIOUS
    <3>6. Reported(c, 0, TRUE) /\ net_qty_lots' = net_qty_lots
      BY <2>1, <3>1, <3>2, <3>3, <3>4, <3>5, CancelStep, Zenon
    <3>7. Trades(c, 0) /\ 0 \in Nat
      BY <1>4, <2>1, <3>4, <3>6
    <3> QED BY <3>7
  <2>4. CASE HandleNew(c)
    BY <2>4 DEF HandleNew, Rests
  <2> QED BY <1>5, <2>2, <2>3, <2>4 DEF OnExecutionReport
<1>6. ASSUME NEW c \in ChildIds, ChildTimeout(c), Counted PROVE Trades(c, 0)
  <2>1. ReportDue(c) /\ Reported(c, 0, TRUE) /\ net_qty_lots' = net_qty_lots
    BY <1>3, <1>6, TimeoutStep, Zenon
  <2>2. signals' = signals
    BY <1>6 DEF ChildTimeout, HandleCancelReject
  <2> QED BY <1>4, <2>1, <2>2
<1>7. ASSUME \/ \E i \in Instruments, b \in UnwindModes : SetUnwindMode(i, b)
             \/ TakeReject
             \/ \E o \in outbound : TakeOrder(o)
      PROVE  Rests
  BY <1>7 DEF SetUnwindMode, TakeReject, TakeOrder, Rests
<1>8. 0 \in Nat
  OBVIOUS
<1> QED BY <1>1, <1>2, <1>5, <1>6, <1>7, <1>8 DEF Next

-----------------------------------------------------------------------------
(* The invariants of the runs                                              *)

\* The four invariants of the runs follow from CoreInv.
LEMMA CoreInvImplies ==
  ASSUME DivisibleLots, CoreInv
  PROVE  PoolIntegrity /\ NoParkedParent /\ TimersMatch /\ NoOverfill
<1>1. \A p \in ParentsInUse : /\ Family(p, parents[p], children, timers)
                              /\ Working(parents[p], children) /\ p \in ParentIds
  BY DEF CoreInv, ParentsInUse
<1>2. ASSUME NEW c \in ChildrenInUse
      PROVE  /\ children[c].parent \in ParentsInUse
             /\ \E s \in Slots(children[c].parent) : SlotChild(children[c].parent, s) = c
             /\ Timed(timers[c], children[c])
  BY Owner DEF ChildrenInUse, Slots, SlotChild
<1>3. PoolIntegrity
  <2>1. ASSUME NEW p \in ParentsInUse, NEW s \in Slots(p)
        PROVE  /\ SlotChild(p, s) \in ChildrenInUse
               /\ children[SlotChild(p, s)].parent = p
               /\ \A r \in Slots(p) : SlotChild(p, r) = SlotChild(p, s) => r = s
    <3>1. s \in 1..parents[p].child_count /\ SlotChild(p, s) = parents[p].children[s]
      BY DEF Slots, SlotChild
    <3>2. SlotChild(p, s) \in ChildrenInUse
      BY <3>1, HeldInUse DEF ChildrenInUse
    <3>3. children[SlotChild(p, s)].parent = p
      BY <1>1, <3>1 DEF Family, ChildOK
    <3>4. \A r \in Slots(p) : SlotChild(p, r) = SlotChild(p, s) => r = s
      BY <1>1, <3>1 DEF Family, Slots, SlotChild
    <3> QED BY <3>2, <3>3, <3>4
  <2> QED BY <1>2, <2>1 DEF PoolIntegrity, CoreInv, IsFreeList
<1>4. NoParkedParent
  BY <1>1 DEF NoParkedParent, Working, Slots, SlotChild
<1>5. TimersMatch
  <2> SUFFICES ASSUME NEW c \in ChildIds
               PROVE  /\ timers[c] \in {0, 1}
                      /\ timers[c] = 1 => ReportDue(c)
                      /\ ~SlotOverflow /\ ReportDue(c) /\ children[c].cum = 0 => timers[c] = 1
    BY DEF TimersMatch
  <2>1. CASE c \in ChildrenInUse
    BY <1>2, <2>1 DEF Timed, ReportDue
  <2>2. CASE c \notin ChildrenInUse
    BY <2>2 DEF CoreInv, ChildrenInUse, ReportDue
  <2> QED BY <2>1, <2>2
<1>6. NoOverfill
  <2> SUFFICES ASSUME NEW p \in ParentsInUse
               PROVE  LET par == parents[p]
                      IN  /\ par.leaves = par.total - par.cum
                          /\ par.cum >= 0 /\ par.leaves > 0
                          /\ \E at \in [Slots(p) -> 0..par.leaves] :
                               /\ \A s \in Slots(p) : at[s] + Worked(p, s) <= par.leaves
                               /\ \A r, s \in Slots(p) : r < s => at[r] + Worked(p, r) <= at[s]
    BY DEF NoOverfill
  <2> DEFINE par     == parents[p]
             room(s) == Room(par.instr, children[par.children[s]])
  <2>1. /\ par.leaves = par.total - par.cum /\ par.cum >= 0 /\ par.leaves > 0
        /\ par.instr \in Instruments /\ par.leaves \in Int
    BY <1>1 DEF Family, Working, CoreInv, TypeOK, ParentOrder
  <2>2. PICK at \in [1..par.child_count -> 0..par.leaves] :
          /\ \A s \in 1..par.child_count : at[s] + room(s) <= par.leaves
          /\ \A r, s \in 1..par.child_count : r < s => at[r] + room(r) <= at[s]
    BY <1>1 DEF Family, Fits
  <2>3. ASSUME NEW s \in Slots(p)
        PROVE  /\ s \in 1..par.child_count /\ room(s) \in Nat /\ Worked(p, s) \in Nat
               /\ Worked(p, s) <= room(s)
    <3>1. s \in 1..par.child_count /\ SlotChild(p, s) = par.children[s]
      BY DEF Slots, SlotChild
    <3>2. ChildOK(children[par.children[s]], p)
      BY <1>1, <3>1 DEF Family
    <3> QED BY <2>1, <3>1, <3>2, RoomBounds DEF Worked
  <2> HIDE DEF par, room
  <2>4. ASSUME NEW s \in Slots(p) PROVE at[s] \in Int /\ at[s] + Worked(p, s) <= par.leaves
    <3>1. at[s] \in Int /\ at[s] + room(s) <= par.leaves
      BY <2>1, <2>2, <2>3
    <3>2. room(s) \in Nat /\ Worked(p, s) \in Nat /\ Worked(p, s) <= room(s)
      BY <2>3
    <3> QED BY <2>1, <3>1, <3>2
  <2>5. ASSUME NEW r \in Slots(p), NEW s \in Slots(p), r < s
        PROVE  at[r] + Worked(p, r) <= at[s]
    <3>1. at[r] \in Int /\ at[s] \in Int
      BY <2>4
    <3>2. at[r] + room(r) <= at[s]
      BY <2>2, <2>3, <2>5
    <3>3. room(r) \in Nat /\ Worked(p, r) \in Nat /\ Worked(p, r) <= room(r)
      BY <2>3
    <3> QED BY <3>1, <3>2, <3>3
  <2>6. at \in [Slots(p) -> 0..par.leaves]
    BY <2>2 DEF Slots, par
  <2>7. \E x \in [Slots(p) -> 0..par.leaves] :
          /\ \A s \in Slots(p) : x[s] + Worked(p, s) <= par.leaves
          /\ \A r, s \in Slots(p) : r < s => x[r] + Worked(p, r) <= x[s]
    BY <2>4, <2>5, <2>6
  <2> QED BY <2>1, <2>7 DEF par
<1> QED BY <1>3, <1>4, <1>5, <1>6

\* For every size of the pools and queues, every set of signals and every way the
\* routing engine may split an order: whatever handlers run in whatever order,
\* the core's variables keep their types, no id is freed twice, lost or shared, no
\* parent is parked, timers and children match and no parent is overfilled. The
\* exchanges may quote an instrument in different lots, as long as each is a whole
\* multiple of the canonical one; the wheel may refuse timers.
THEOREM CoreIsSafe ==
  ASSUME DivisibleLots
  PROVE  Spec => [](TypeOK /\ PoolIntegrity /\ NoParkedParent /\ TimersMatch /\ NoOverfill)
<1>1. Init => CoreInv
  BY CoreInit
<1>2. CoreInv /\ [Next]_vars => CoreInv'
  BY CoreNext
<1>3. CoreInv => TypeOK /\ PoolIntegrity /\ NoParkedParent /\ TimersMatch /\ NoOverfill
  BY CoreInvImplies DEF CoreInv
<1> QED BY <1>1, <1>2, <1>3, PTL DEF Spec

\* free_parent and free_child are called exactly once per allocation: no id is on a
\* free list twice, and no two parents ever share a child.
THEOREM PoolsStaySound == ASSUME DivisibleLots PROVE Spec => []PoolIntegrity
<1>1. Spec => [](TypeOK /\ PoolIntegrity /\ NoParkedParent /\ TimersMatch /\ NoOverfill)
  BY CoreIsSafe
<1> QED BY <1>1, PTL

\* A parent that is not closed always has a child that the core counts as live.
THEOREM NoParentIsParked == ASSUME DivisibleLots PROVE Spec => []NoParkedParent
<1>1. Spec => [](TypeOK /\ PoolIntegrity /\ NoParkedParent /\ TimersMatch /\ NoOverfill)
  BY CoreIsSafe
<1> QED BY <1>1, PTL

\* No timer outlives the child it was armed for and no child has two, whether or
\* not the wheel refuses inserts; and where it refuses none, a live child that has
\* traded nothing always has one, late acknowledgements included.
THEOREM PendingIsTimed == ASSUME DivisibleLots PROVE Spec => []TimersMatch
<1>1. Spec => [](TypeOK /\ PoolIntegrity /\ NoParkedParent /\ TimersMatch /\ NoOverfill)
  BY CoreIsSafe
<1> QED BY <1>1, PTL

\* Splitting, losing, canceling and rerouting never make the children of a parent
\* work more lots than the parent still wants.
THEOREM NoneIsOverfilled == ASSUME DivisibleLots PROVE Spec => []NoOverfill
<1>1. Spec => [](TypeOK /\ PoolIntegrity /\ NoParkedParent /\ TimersMatch /\ NoOverfill)
  BY CoreIsSafe
<1> QED BY <1>1, PTL

-----------------------------------------------------------------------------
(* What the strategies are told                                            *)

\* A parent that a report moves and that then leaves the pool has traded all it
\* wanted, or was reduce-only, or is rejected.
LEMMA TradesTell ==
  ASSUME CoreInv, NEW c \in ChildIds, NEW q \in Nat, Trades(c, q), NEW p \in ParentIds,
         Dies(p), ~parents[p].reduce_only, parents'[p].cum < parents[p].total
  PROVE  Told
<1>1. p = children[c].parent
  BY DEF Trades, Moved, Apart, Dies, ParentsInUse
<1>2. /\ parents[p].leaves = parents[p].total - parents[p].cum
      /\ parents[p].total \in Int /\ parents[p].cum \in Nat
  BY <1>1, ReportFacts DEF Trades
<1>3. parents'[p].cum = parents[p].cum + q
  BY <1>1 DEF Trades, Moved
<1>4. ~(parents[p].leaves - q <= 0)
  BY <1>2, <1>3
<1> QED BY <1>1, <1>4 DEF Trades, Moved, Dies

\* A signal takes no parent in use away.
LEMMA HandlesKeep ==
  ASSUME CoreInv, NEW sig \in Signals, Handles(sig)
  PROVE  /\ \A p \in ParentsInUse : p \in ParentsInUse' /\ parents'[p] = parents[p]
         /\ ParentsInUse' = ParentsInUse => Told
<1>1. CASE Refused
  BY <1>1 DEF Refused, ParentsInUse
<1>2. CASE \E p \in ParentIds, par \in ParentOrder : Opened(sig, p, par)
  <2>1. PICK p \in ParentIds, par \in ParentOrder : Opened(sig, p, par)
    BY <1>2
  <2>2. p \notin ParentsInUse /\ Apart(p)
    BY <2>1 DEF Opened, Effect
  <2>3. p \in ParentsInUse' \/ Told
    BY <2>1 DEF Opened
  <2> QED BY <2>2, <2>3 DEF Apart, ParentsInUse
<1> QED BY <1>1, <1>2 DEF Handles, Signaled

\* Every place where a signal or an order dies tells the strategies, whatever the
\* interleaving of signals, reports and timeouts: no signal vanishes, and no order
\* that may still grow the position is dropped short of its quantity in silence.
THEOREM NobodyDiesSilently == ASSUME DivisibleLots PROVE Spec => NoSilentDeath
<1> DEFINE A == /\ signals' # signals /\ ParentsInUse' = ParentsInUse => Told
                /\ \A p \in ParentIds :
                     Dies(p) /\ ~parents[p].reduce_only /\ parents'[p].cum < parents[p].total => Told
<1>1. ASSUME CoreInv, [Next]_vars PROVE A
  <2>1. ASSUME NEW sig \in Signals, Handles(sig) PROVE A
    BY <1>1, <2>1, HandlesKeep DEF Dies
  <2>2. ASSUME NEW c \in ChildIds, NEW q \in Nat, Trades(c, q) PROVE A
    <3>1. signals' = signals
      BY <2>2 DEF Trades
    <3> QED BY <1>1, <2>2, <3>1, TradesTell
  <2>3. ASSUME Rests PROVE A
    BY <2>3 DEF Rests, Dies, ParentsInUse
  <2> HIDE DEF A
  <2> QED BY <1>1, <2>1, <2>2, <2>3, CoreSteps
<1>2. CoreInv /\ [Next]_vars => [A]_vars
  BY <1>1
<1>3. Init => CoreInv
  BY CoreInit
<1>4. CoreInv /\ [Next]_vars => CoreInv'
  BY CoreNext
<1> QED BY <1>2, <1>3, <1>4, PTL DEF Spec, NoSilentDeath

\* A signal that becomes no order has reserved, allocated, armed and sent nothing in
\* the end, even when it died after reserve_open for want of a child, as long as
\* the books cover every target.
THEOREM NoTraceIsLeft ==
  ASSUME DivisibleLots, Liquidity = "deep"
  PROVE  Spec => RefusedLeavesNoTrace
<1> DEFINE A == signals' # signals /\ ParentsInUse' = ParentsInUse =>
                  UNCHANGED <<open_lots, child_free, parent_free, timers, outbound>>
<1>1. ASSUME CoreInv, [Next]_vars PROVE A
  <2>1. ASSUME NEW sig \in Signals, Handles(sig) PROVE A
    <3>1. CASE Refused
      BY <3>1 DEF Refused
    <3>2. CASE \E p \in ParentIds, par \in ParentOrder : Opened(sig, p, par)
      BY <3>2 DEF Opened
    <3> QED BY <2>1, <3>1, <3>2 DEF Handles, Signaled
  <2>2. ASSUME (\E c \in ChildIds, q \in Nat : Trades(c, q)) \/ Rests PROVE A
    BY <2>2 DEF Trades, Rests
  <2> HIDE DEF A
  <2> QED BY <1>1, <2>1, <2>2, CoreSteps
<1>2. CoreInv /\ [Next]_vars => [A]_vars
  BY <1>1
<1>3. Init => CoreInv
  BY CoreInit
<1>4. CoreInv /\ [Next]_vars => CoreInv'
  BY CoreNext
<1> QED BY <1>2, <1>3, <1>4, PTL DEF Spec, RefusedLeavesNoTrace

-----------------------------------------------------------------------------
(* The position limit                                                      *)

\* At any time an instrument has at most one open order.
OnePerInstrument ==
  \A p, q \in ParentsInUse : parents[p].instr = parents[q].instr => p = q

\* The position stays within its limit even if all that an open order still wants
\* is traded.
Headroom ==
  \A i \in Instruments : MaxNetLots[i] > 0 =>
    /\ Abs(net_qty_lots[i]) <= MaxNetLots[i]
    /\ \A p \in ParentsInUse : parents[p].instr = i =>
         Abs(net_qty_lots[i] + Signed(parents[p].dir, parents[p].leaves)) <= MaxNetLots[i]

\* Part of a trade that keeps the limit keeps it, too.
LEMMA PartOfTrade ==
  ASSUME NEW n \in Int, NEW m \in Nat, NEW dir \in Dirs, NEW a \in Nat, NEW b \in Nat, a <= b,
         Abs(n) <= m, Abs(n + Signed(dir, b)) <= m
  PROVE  Abs(n + Signed(dir, a)) <= m
BY DEF Abs, Signed

\* Two trades in the same direction are one.
LEMMA TwoTrades ==
  ASSUME NEW n \in Int, NEW dir, NEW a \in Nat, NEW b \in Nat
  PROVE  (n + Signed(dir, a)) + Signed(dir, b) = n + Signed(dir, a + b)
BY DEF Signed

\* The records of the parents in use.
LEMMA InUseFacts ==
  ASSUME CoreInv, NEW p \in ParentsInUse
  PROVE  /\ p \in ParentIds
         /\ parents[p].instr \in Instruments /\ parents[p].dir \in Dirs
         /\ parents[p].leaves \in Nat \ {0}
<1>1. p \in ParentIds /\ parents[p] \in ParentOrder
  BY DEF CoreInv, TypeOK, ParentsInUse
<1>2. Family(p, parents[p], children, timers) /\ Working(parents[p], children)
  BY DEF CoreInv
<1>3. parents[p].dir \in Dirs /\ parents[p].leaves \in Int
  BY <1>1 DEF ParentOrder
<1> QED BY <1>1, <1>2, <1>3 DEF Family, Working

\* The same after a step.
LEMMA InUseFactsNext ==
  ASSUME CoreInv', NEW p \in ParentsInUse'
  PROVE  /\ p \in ParentIds
         /\ parents'[p].instr \in Instruments /\ parents'[p].dir \in Dirs
         /\ parents'[p].leaves \in Nat \ {0}
<1>1. p \in ParentIds /\ parents'[p] \in ParentOrder
  BY DEF CoreInv, TypeOK, ParentsInUse
<1>2. Family(p, parents'[p], children', timers') /\ Working(parents'[p], children')
  BY DEF CoreInv
<1>3. parents'[p].dir \in Dirs /\ parents'[p].leaves \in Int
  BY <1>1 DEF ParentOrder
<1> QED BY <1>1, <1>2, <1>3 DEF Family, Working

LEMMA HeadroomNext ==
  ASSUME DivisibleLots, CoreInv, CoreInv', OnePerInstrument, Headroom, [Next]_vars
  PROVE  Headroom'
<1>1. net_qty_lots \in [Instruments -> Int] /\ MaxNetLots \in [Instruments -> Nat]
  BY RiskAssumption DEF CoreInv, TypeOK
<1>2. ASSUME NEW sig \in Signals, Handles(sig) PROVE Headroom'
  <2> SUFFICES ASSUME NEW i \in Instruments, MaxNetLots[i] > 0,
                      NEW p \in ParentsInUse', parents'[p].instr = i
               PROVE  Abs(net_qty_lots[i] + Signed(parents'[p].dir, parents'[p].leaves))
                        <= MaxNetLots[i]
    <3>1. net_qty_lots' = net_qty_lots
      BY <1>2 DEF Handles
    <3> QED BY <3>1 DEF Headroom
  <2>1. CASE p \in ParentsInUse
    <3>1. parents'[p] = parents[p]
      BY <1>2, <2>1, HandlesKeep
    <3> QED BY <2>1, <3>1 DEF Headroom
  <2>2. CASE p \notin ParentsInUse
    <3>1. PICK x \in ParentIds, par \in ParentOrder : Opened(sig, x, par)
      BY <1>2, <2>2 DEF Handles, Signaled, Refused, ParentsInUse
    <3>2. x = p
      BY <2>2, <3>1 DEF Opened, Effect, Apart, ParentsInUse
    <3>3. /\ parents'[p].instr = sig.instr /\ parents'[p].dir = sig.dir
          /\ parents'[p].leaves <= par.leaves /\ par.leaves \in Nat
          /\ ~BreaksPositionLimit(sig, par.leaves, net_qty_lots[sig.instr])
      BY <3>1, <3>2 DEF Opened, Effect, SameOrder
    <3>4. parents'[p].dir \in Dirs /\ parents'[p].leaves \in Nat
      BY InUseFactsNext
    <3> DEFINE n == net_qty_lots[i]
               m == MaxNetLots[i]
               d == sig.dir
    <3>5. n \in Int /\ m \in Nat /\ Abs(n) <= m /\ d \in Dirs
      BY <1>1, <3>3, <3>4 DEF Headroom
    <3>6. ~(Abs(n + Signed(d, par.leaves)) > m)
      BY <3>3 DEF BreaksPositionLimit
    <3>7. Abs(n + Signed(d, par.leaves)) \in Int
      BY <3>3, <3>5 DEF Abs, Signed
    <3> HIDE DEF n, m, d
    <3>8. Abs(n + Signed(d, par.leaves)) <= m
      BY <3>5, <3>6, <3>7
    <3>9. Abs(n + Signed(d, parents'[p].leaves)) <= m
      BY <3>3, <3>4, <3>5, <3>8, PartOfTrade
    <3> QED BY <3>3, <3>9 DEF n, m, d
  <2> QED BY <2>1, <2>2
<1>3. ASSUME NEW c \in ChildIds, NEW q \in Nat, Trades(c, q) PROVE Headroom'
  <2> DEFINE p == children[c].parent
             i == parents[p].instr
             n == net_qty_lots[i]
             m == MaxNetLots[i]
             d == parents[p].dir
             l == parents[p].leaves
  <2>1. p \in ParentsInUse
    BY <1>3, ReportFacts DEF Trades
  <2>2. i \in Instruments /\ d \in Dirs /\ l \in Nat
    BY <2>1, InUseFacts
  <2>3. n \in Int /\ m \in Nat /\ q <= l
    BY <1>1, <1>3, <2>2 DEF Trades
  <2>4. m > 0 => Abs(n) <= m /\ Abs(n + Signed(d, l)) <= m
    BY <2>1, <2>2 DEF Headroom
  <2>5. Apart(p) /\ parents'[p].dir = d /\ parents'[p].instr = i /\ parents'[p].leaves <= l - q
    BY <1>3 DEF Trades, Moved
  <2>6. /\ net_qty_lots'[i] = n + Signed(d, q)
        /\ \A j \in Instruments \ {i} : net_qty_lots'[j] = net_qty_lots[j]
    BY <1>1, <1>3, <2>2 DEF Trades
  <2>7. \A x \in ParentsInUse' : x # p => x \in ParentsInUse /\ parents'[x] = parents[x]
    BY <2>5 DEF Apart, ParentsInUse
  <2>8. ASSUME m > 0 PROVE Abs(net_qty_lots'[i]) <= m
    <3> HIDE DEF n, m, d, l
    <3>1. Abs(n + Signed(d, q)) <= m
      BY <2>2, <2>3, <2>4, <2>8, PartOfTrade
    <3> QED BY <2>6, <3>1
  <2>9. ASSUME m > 0, p \in ParentsInUse'
        PROVE  Abs(net_qty_lots'[i] + Signed(d, parents'[p].leaves)) <= m
    <3> DEFINE k == parents'[p].leaves
    <3>1. k \in Nat /\ k <= l - q
      BY <2>5, <2>9, InUseFactsNext
    <3> HIDE DEF n, m, d, l, k
    <3>2. q + k \in Nat /\ q + k <= l
      BY <2>2, <2>3, <3>1
    <3>3. Abs(n + Signed(d, q + k)) <= m
      BY <2>2, <2>3, <2>4, <2>9, <3>2, PartOfTrade
    <3>4. (n + Signed(d, q)) + Signed(d, k) = n + Signed(d, q + k)
      BY <2>3, <3>1, TwoTrades
    <3> QED BY <2>6, <3>3, <3>4 DEF k
  <2>10. ASSUME NEW x \in ParentsInUse', x # p PROVE parents[x].instr # i
    BY <2>1, <2>7, <2>10 DEF OnePerInstrument
  <2> SUFFICES ASSUME NEW j \in Instruments, MaxNetLots[j] > 0
               PROVE  /\ Abs(net_qty_lots'[j]) <= MaxNetLots[j]
                      /\ \A x \in ParentsInUse' : parents'[x].instr = j =>
                           Abs(net_qty_lots'[j] + Signed(parents'[x].dir, parents'[x].leaves))
                             <= MaxNetLots[j]
    BY DEF Headroom
  <2>11. CASE j = i
    <3>1. \A x \in ParentsInUse' : parents'[x].instr = j => x = p
      BY <2>7, <2>10, <2>11
    <3> QED BY <2>5, <2>8, <2>9, <2>11, <3>1
  <2>12. CASE j # i
    <3>1. \A x \in ParentsInUse' : parents'[x].instr = j =>
            x \in ParentsInUse /\ parents'[x] = parents[x]
      BY <2>5, <2>7, <2>12
    <3>2. net_qty_lots'[j] = net_qty_lots[j]
      BY <2>6, <2>12
    <3> QED BY <3>1, <3>2 DEF Headroom
  <2> QED BY <2>11, <2>12
<1>4. ASSUME Rests PROVE Headroom'
  BY <1>4 DEF Rests, Headroom, ParentsInUse
<1> QED BY <1>2, <1>3, <1>4, CoreSteps

\* As long as no instrument has two open orders at a time, the position never leaves
\* its limit, although check_position looks at the confirmed position only and
\* what it has admitted is split, lost, rerouted and filled in parts.
THEOREM LimitHolds ==
  ASSUME DivisibleLots
  PROVE  Spec /\ []OnePerInstrument => []PositionWithinLimit
<1>1. Init => CoreInv
  BY CoreInit
<1>2. Init => Headroom
  <2>1. ASSUME Init PROVE ParentsInUse = {} /\ \A i \in Instruments : net_qty_lots[i] = 0
    BY <2>1, CoreAssumption, FullListFree DEF Init, ParentsInUse, ParentIds
  <2> QED BY <2>1, RiskAssumption DEF Headroom, Abs
<1>3. CoreInv /\ [Next]_vars => CoreInv'
  BY CoreNext
<1>4. CoreInv /\ CoreInv' /\ OnePerInstrument /\ Headroom /\ [Next]_vars => Headroom'
  BY HeadroomNext
<1>5. Headroom => PositionWithinLimit
  BY DEF Headroom, PositionWithinLimit
<1> QED BY <1>1, <1>2, <1>3, <1>4, <1>5, PTL DEF Spec

-----------------------------------------------------------------------------
(* The ledger                                                              *)

\* The orders of the ledger.
Orders == [p \in ParentIds |-> LedgerOrder(p)]

LEMMA OrderAt ==
  ASSUME NEW p \in ParentIds
  PROVE  /\ Orders[p] = LedgerOrder(p) /\ Orders'[p] = LedgerOrder(p)'
         /\ p \in ParentsInUse =>
              LedgerOrder(p) = [instr |-> parents[p].instr, dir |-> parents[p].dir,
                                want |-> parents[p].leaves]
         /\ p \notin ParentsInUse => LedgerOrder(p) = Ledger!NoOrder
         /\ p \in ParentsInUse' =>
              LedgerOrder(p)' = [instr |-> parents'[p].instr, dir |-> parents'[p].dir,
                                 want |-> parents'[p].leaves]
         /\ p \notin ParentsInUse' => LedgerOrder(p)' = Ledger!NoOrder
BY DEF Orders, LedgerOrder, Ledger!NoOrder

\* A parent with the same record and the same place in the free list is the same order.
LEMMA OrderKept ==
  ASSUME NEW p \in ParentIds, p \in ParentsInUse' <=> p \in ParentsInUse,
         p \in ParentsInUse => parents'[p] = parents[p]
  PROVE  Orders'[p] = Orders[p]
BY OrderAt

\* An order that wants something is none of the empty ones.
LEMMA IsOrder ==
  ASSUME NEW i, NEW d, NEW n \in Nat \ {0}
  PROVE  [instr |-> i, dir |-> d, want |-> n] # Ledger!NoOrder
<1>1. [instr |-> i, dir |-> d, want |-> n].want = n /\ Ledger!NoOrder.want = 0
  BY DEF Ledger!NoOrder
<1> QED BY <1>1

LEMMA LedgerStep ==
  ASSUME DivisibleLots, CoreInv, CoreInv', [Next]_vars
  PROVE  [Ledger!LedgerNext]_(Ledger!ledgerVars)
<1> USE DEF Orders
<1>1. ASSUME \A p \in ParentIds : Orders'[p] = Orders[p], net_qty_lots' = net_qty_lots
      PROVE  [Ledger!LedgerNext]_(Ledger!ledgerVars)
  <2>1. Orders' = Orders
    BY <1>1
  <2> QED BY <1>1, <2>1 DEF Ledger!ledgerVars
<1> HIDE DEF Orders
<1>2. net_qty_lots \in [Instruments -> Int]
  BY DEF CoreInv, TypeOK
<1>3. ASSUME NEW sig \in Signals, Handles(sig) PROVE [Ledger!LedgerNext]_(Ledger!ledgerVars)
  <2>1. /\ net_qty_lots' = net_qty_lots
        /\ \A x \in ParentsInUse : x \in ParentsInUse' /\ parents'[x] = parents[x]
    BY <1>3, HandlesKeep DEF Handles
  <2>2. CASE ParentsInUse' \subseteq ParentsInUse
    <3>1. \A x \in ParentIds : Orders'[x] = Orders[x]
      BY <2>1, <2>2, OrderKept
    <3> QED BY <1>1, <2>1, <3>1
  <2>3. CASE ~(ParentsInUse' \subseteq ParentsInUse)
    <3>1. PICK p \in ParentIds, par \in ParentOrder : Opened(sig, p, par)
      BY <1>3, <2>3 DEF Handles, Signaled, Refused, ParentsInUse
    <3>2. Apart(p)
      BY <3>1 DEF Opened, Effect
    <3>3. p \in ParentsInUse' /\ p \notin ParentsInUse
      BY <2>3, <3>1, <3>2 DEF Opened, Apart, ParentsInUse
    <3>4. \A x \in ParentIds \ {p} : Orders'[x] = Orders[x]
      <4>1. \A x \in ParentIds \ {p} : x \in ParentsInUse' <=> x \in ParentsInUse
        BY <3>2 DEF Apart, ParentsInUse
      <4> QED BY <2>1, <4>1, OrderKept
    <3>5. parents'[p].instr \in Instruments /\ parents'[p].dir \in Dirs
          /\ parents'[p].leaves \in Nat \ {0}
      BY <3>3, InUseFactsNext
    <3>6. /\ Orders[p] = Ledger!NoOrder
          /\ Orders'[p] = [instr |-> parents'[p].instr, dir |-> parents'[p].dir,
                           want |-> parents'[p].leaves]
      BY <3>3, OrderAt
    <3>7. Orders'[p] # Ledger!NoOrder
      BY <3>5, <3>6, IsOrder
    <3>8. /\ Orders'[p].instr \in Instruments /\ Orders'[p].dir \in Ledger!Sides
          /\ Orders'[p].want > 0
      BY <3>5, <3>6 DEF Ledger!Sides, Dirs
    <3>9. Ledger!Accept(p)
      BY <2>1, <3>6, <3>7, <3>8 DEF Ledger!Accept, Orders
    <3>10. Ledger!LedgerNext
      BY <3>4, <3>9 DEF Ledger!LedgerNext, Orders
    <3> QED BY <3>10
  <2> QED BY <2>2, <2>3
<1>4. ASSUME NEW c \in ChildIds, NEW q \in Nat, Trades(c, q)
      PROVE  [Ledger!LedgerNext]_(Ledger!ledgerVars)
  <2>1. PICK p \in ParentIds : p = children[c].parent
    BY <1>4, ReportFacts DEF Trades
  <2> DEFINE o == Orders[p]
             i == parents[p].instr
             d == parents[p].dir
             l == parents[p].leaves
  <2>2. p \in ParentsInUse
    BY <1>4, <2>1, ReportFacts DEF Trades
  <2>3. i \in Instruments /\ d \in Dirs /\ l \in Nat \ {0}
    BY <2>2, InUseFacts
  <2>4. q \in 0..l
    BY <1>4, <2>1 DEF Trades
  <2>5. o = [instr |-> i, dir |-> d, want |-> l]
    BY <2>2, OrderAt
  <2>6. Apart(p) /\ parents'[p].dir = d /\ parents'[p].instr = i /\ parents'[p].leaves <= l - q
    BY <1>4, <2>1 DEF Trades, Moved
  <2>7. net_qty_lots' = [net_qty_lots EXCEPT ![i] = IF d = "BUY" THEN @ + q ELSE @ - q]
    <3>1. net_qty_lots' = [net_qty_lots EXCEPT ![i] = net_qty_lots[i] + Signed(d, q)]
      BY <1>4, <2>1 DEF Trades
    <3>2. net_qty_lots[i] + Signed(d, q) = IF d = "BUY" THEN net_qty_lots[i] + q
                                                       ELSE net_qty_lots[i] - q
      <4>1. net_qty_lots[i] \in Int
        BY <1>2, <2>3
      <4> HIDE DEF d, i
      <4> QED BY <4>1 DEF Signed
    <3> QED BY <3>1, <3>2
  <2>8. \A x \in ParentIds \ {p} : Orders'[x] = Orders[x]
    <3>1. \A x \in ParentIds \ {p} : /\ x \in ParentsInUse' <=> x \in ParentsInUse
                                     /\ parents'[x] = parents[x]
      BY <2>6 DEF Apart, ParentsInUse
    <3> QED BY <3>1, OrderKept
  <2>9. ASSUME Orders'[p] # Ledger!NoOrder
        PROVE  /\ Orders'[p].instr = i /\ Orders'[p].dir = d
               /\ Orders'[p].want > 0 /\ Orders'[p].want <= l - q
    <3>1. p \in ParentsInUse'
      BY <2>9, OrderAt
    <3>2. Orders'[p] = [instr |-> parents'[p].instr, dir |-> parents'[p].dir,
                        want |-> parents'[p].leaves]
      BY <3>1, OrderAt
    <3>3. parents'[p].leaves \in Nat \ {0}
      BY <3>1, InUseFactsNext
    <3> QED BY <2>6, <3>2, <3>3
  <2>10. o # Ledger!NoOrder
    BY <2>3, <2>5, IsOrder
  <2>11. o.instr = i /\ o.dir = d /\ o.want = l
    BY <2>5
  <2> HIDE DEF o, i, d, l
  <2>12. q \in 0..o.want
    BY <2>4, <2>11
  <2>13. Ledger!Trade(p, q)
    BY <2>7, <2>9, <2>10, <2>11 DEF Ledger!Trade, Orders, o
  <2>14. Ledger!LedgerNext
    BY <2>8, <2>12, <2>13 DEF Ledger!LedgerNext, Orders, o
  <2> QED BY <2>14
<1>5. ASSUME Rests PROVE [Ledger!LedgerNext]_(Ledger!ledgerVars)
  <2>1. /\ ParentsInUse' = ParentsInUse /\ parents' = parents
        /\ net_qty_lots' = net_qty_lots
    BY <1>5 DEF Rests, ParentsInUse
  <2>2. \A x \in ParentIds : Orders'[x] = Orders[x]
    BY <2>1, OrderKept
  <2> QED BY <1>1, <2>1, <2>2
<1> QED BY <1>3, <1>4, <1>5, CoreSteps

\* The execution core implements the ledger, for every size of its pools, every set of
\* signals and every split: seen from outside, a position moves only when one open
\* order trades, in its direction and by no more than it still wants, and no
\* handler touches two orders.
THEOREM CoreImplementsLedger ==
  ASSUME DivisibleLots
  PROVE  Spec => ImplementsLedger
<1>1. Init => CoreInv
  BY CoreInit
<1>2. Init => Ledger!LedgerInit
  <2>1. ASSUME Init PROVE ParentsInUse = {} /\ net_qty_lots = [i \in Instruments |-> 0]
    BY <2>1, CoreAssumption, FullListFree DEF Init, ParentsInUse, ParentIds
  <2> QED BY <2>1 DEF Ledger!LedgerInit, LedgerOrder, Ledger!NoOrder
<1>3. CoreInv /\ [Next]_vars => CoreInv'
  BY CoreNext
<1>4. CoreInv /\ CoreInv' /\ [Next]_vars => [Ledger!LedgerNext]_(Ledger!ledgerVars)
  BY LedgerStep
<1> QED BY <1>1, <1>2, <1>3, <1>4, PTL DEF Spec, ImplementsLedger, Ledger!LedgerSpec

-----------------------------------------------------------------------------
(* Reservations                                                            *)

\* What a child still works at its exchange.
Load(ch) == IF ch.state \in Live THEN ch.leaves ELSE 0

\* The live children of par together work all that it still wants: at[s] is what those
\* in the first s slots work.
WorkedBy(par, cs) ==
  \E at \in [0..par.child_count -> 0..par.leaves] :
    /\ at[0] = 0 /\ at[par.child_count] = par.leaves
    /\ \A s \in 1..par.child_count : at[s] = at[s - 1] + Load(cs[par.children[s]])

\* Nothing was lost so far: no cancel, reject or timeout, and no order fell short at
\* its dispatch.
NothingLost ==
  /\ cancels = 0
  /\ \A p \in ParentsInUse : WorkedBy(parents[p], children)

\* What parent p wants to trade on instrument i in direction dir, nothing if it is
\* not such an order.
Wish(i, dir) ==
  [p \in ParentIds |-> IF p \in ParentsInUse /\ parents[p].instr = i /\ parents[p].dir = dir
                       THEN parents[p].leaves ELSE 0]

LEMMA WishType ==
  ASSUME CoreInv, NEW i, NEW dir, NEW p \in ParentIds
  PROVE  Wish(i, dir)[p] \in Nat
<1>1. ParentsInUse \subseteq ParentIds
  BY DEF ParentsInUse
<1>2. p \in ParentsInUse => parents[p].leaves \in Nat
  BY InUseFacts
<1> QED BY <1>1, <1>2 DEF Wish

LEMMA ParentsFinite == IsFiniteSet(ParentIds)
<1>1. 0 \in Int /\ kMaxParentOrders - 1 \in Int
  BY CoreAssumption
<1> QED BY <1>1, FS_Interval DEF ParentIds

\* Outstanding is a sum over all parent records.
Summed == \A i, dir : Outstanding(i, dir) = Total(Wish(i, dir), ParentIds)

LEMMA OutstandingTotal == CoreInv => Summed
<1> SUFFICES ASSUME CoreInv, NEW i, NEW dir
             PROVE  Outstanding(i, dir) = Total(Wish(i, dir), ParentIds)
  BY DEF Summed
<1> DEFINE J == {p \in ParentsInUse : parents[p].instr = i /\ parents[p].dir = dir}
           body(it) == [s \in SUBSET J |-> IF s = {} THEN 0
                          ELSE parents[Pick(s)].leaves + it[s \ {Pick(s)}]]
           sum == CHOOSE it : it = body(it)
<1>1. PICK F : F = Wish(i, dir)
  OBVIOUS
<1>2. J \in SUBSET ParentIds
  BY DEF ParentsInUse
<1>3. IsFiniteSet(J)
  BY <1>2, ParentsFinite, FS_Subset
<1>4. \A p \in ParentIds : F[p] \in Int
  <2>1. ASSUME NEW p \in ParentIds PROVE F[p] \in Nat
    BY <1>1, WishType
  <2> QED BY <2>1
<1>5. (\A p \in J : F[p] = parents[p].leaves) /\ (\A p \in ParentIds \ J : F[p] = 0)
  BY <1>1, <1>2 DEF Wish
<1>6. Outstanding(i, dir) = sum[J]
  BY DEF Outstanding, MapThenSumSet, MapThenFoldSet, Pick
<1>7. ASSUME NEW it PROVE IsSum(it, F, J) <=> it = body(it)
  <2>1. \A s \in SUBSET J : s # {} => F[Pick(s)] = parents[Pick(s)].leaves
    <3> SUFFICES ASSUME NEW s \in SUBSET J, s # {} PROVE F[Pick(s)] = parents[Pick(s)].leaves
      OBVIOUS
    <3>1. Pick(s) \in J
      BY PickIn
    <3> HIDE DEF J
    <3> QED BY <1>5, <3>1
  <2> HIDE DEF J
  <2>2. [s \in SUBSET J |-> IF s = {} THEN 0 ELSE F[Pick(s)] + it[s \ {Pick(s)}]] = body(it)
    BY <2>1
  <2> QED BY <2>2 DEF IsSum
<1> HIDE DEF J
<1>8. \A x \in J : F[x] \in Int
  BY <1>2, <1>4
<1>9. PICK it : IsSum(it, F, J)
  BY <1>3, <1>8, SumExists
<1>10. \E f : f = body(f)
  BY <1>7, <1>9
<1>11. sum = body(sum)
  <2> HIDE DEF body
  <2> QED BY <1>10
<1>12. IsSum(sum, F, J)
  BY <1>7, <1>11
<1> HIDE DEF sum, body
<1>13. PICK g : g = sum
  OBVIOUS
<1>14. IsSum(g, F, J)
  BY <1>12, <1>13
<1>15. Total(F, J) = g[J]
  BY <1>3, <1>8, <1>14, TotalOf, Zenon
<1>16. Total(F, J) = Total(F, ParentIds)
  BY <1>2, <1>4, <1>5, ParentsFinite, TotalSupport
<1> QED BY <1>1, <1>6, <1>13, <1>15, <1>16

LEMMA WishTypeNext ==
  ASSUME CoreInv', NEW i, NEW dir, NEW p \in ParentIds
  PROVE  Wish(i, dir)'[p] \in Nat
<1>1. ParentsInUse' \subseteq ParentIds
  BY DEF ParentsInUse
<1>2. p \in ParentsInUse' => parents'[p].leaves \in Nat
  BY InUseFactsNext
<1> QED BY <1>1, <1>2 DEF Wish

\* When only parent p changes, so does only its part of what is outstanding.
LEMMA OutstandingMoves ==
  ASSUME CoreInv, CoreInv', NEW p \in ParentIds, Apart(p), NEW i, NEW dir
  PROVE  Outstanding(i, dir)' = Outstanding(i, dir) - Wish(i, dir)[p] + Wish(i, dir)'[p]
<1>1. PICK F : F = Wish(i, dir)
  OBVIOUS
<1>2. PICK G : G = Wish(i, dir)'
  OBVIOUS
<1>3. Outstanding(i, dir) = Total(F, ParentIds)
  BY <1>1, OutstandingTotal DEF Summed
<1>4. Outstanding(i, dir)' = Total(G, ParentIds)
  <2>1. CoreInv' => Summed'
    BY OutstandingTotal, PTL
  <2>2. \A j, d : Outstanding(j, d)' = Total(Wish(j, d)', ParentIds)
    BY <2>1 DEF Summed
  <2> QED BY <1>2, <2>2
<1>5. (\A x \in ParentIds : F[x] \in Int) /\ (\A x \in ParentIds : G[x] \in Int)
  <2>1. ASSUME NEW x \in ParentIds PROVE F[x] \in Nat /\ G[x] \in Nat
    BY <1>1, <1>2, WishType, WishTypeNext
  <2> QED BY <2>1
<1>6. \A x \in ParentIds \ {p} : F[x] = G[x]
  BY <1>1, <1>2 DEF Apart, Wish, ParentsInUse
<1>7. Total(G, ParentIds) = Total(F, ParentIds) - F[p] + G[p]
  BY <1>5, <1>6, ParentsFinite, TotalMoves
<1> QED BY <1>1, <1>2, <1>3, <1>4, <1>7

\* A parent whose only live child is the one in slot k wants what that child works.
LEMMA LastWorker ==
  ASSUME NEW par, NEW cs, WorkedBy(par, cs), par.child_count \in Nat, par.leaves \in Int,
         NEW k \in 1..par.child_count, Load(cs[par.children[k]]) \in Int,
         \A s \in 1..par.child_count : s # k => Load(cs[par.children[s]]) = 0
  PROVE  par.leaves = Load(cs[par.children[k]])
<1> DEFINE n == par.child_count
           v == Load(cs[par.children[k]])
<1>1. PICK at \in [0..n -> 0..par.leaves] :
        /\ at[0] = 0 /\ at[n] = par.leaves
        /\ \A s \in 1..n : at[s] = at[s - 1] + Load(cs[par.children[s]])
  BY DEF WorkedBy
<1> DEFINE G == {m \in Nat : m <= n => at[m] = IF m < k THEN 0 ELSE v}
<1>2. n \in Nat /\ k \in 1..n /\ v \in Int
  OBVIOUS
<1>3. \A s \in 1..n : at[s] = at[s - 1] + IF s = k THEN v ELSE 0
  BY <1>1
<1> HIDE DEF v, n
<1>4. 0 \in G
  BY <1>1, <1>2
<1>5. ASSUME NEW m \in Nat, m \in G PROVE m + 1 \in G
  <2> SUFFICES ASSUME m + 1 <= n PROVE at[m + 1] = IF m + 1 < k THEN 0 ELSE v
    OBVIOUS
  <2>1. at[m] = IF m < k THEN 0 ELSE v
    BY <1>2, <1>5
  <2>2. m + 1 \in 1..n /\ (m + 1) - 1 = m
    BY <1>2
  <2>3. at[m + 1] = at[m] + IF m + 1 = k THEN v ELSE 0
    BY <1>3, <2>2
  <2> QED BY <1>2, <2>1, <2>3
<1>6. n \in G
  <2> HIDE DEF G
  <2> QED BY <1>2, <1>4, <1>5, NatInduct
<1> QED BY <1>1, <1>2, <1>6 DEF n, v

\* If the children of a parent work all of it and none more than its leg, then every leg
\* that is needed got a child.
LEMMA NoGap ==
  ASSUME NEW par, NEW cs, WorkedBy(par, cs), par.leaves \in Int, NEW split,
         IsSplit(split, par.leaves), par.child_count \in 1..split.count,
         \A s \in 1..par.child_count :
           /\ Load(cs[par.children[s]]) \in Int
           /\ Load(cs[par.children[s]]) <= LegQty(split, s)
  PROVE  split.rem[par.child_count] = 0
<1> DEFINE n == par.child_count
           l == par.leaves
           rem == split.rem
<1>1. PICK at \in [0..n -> 0..l] :
        /\ at[0] = 0 /\ at[n] = l
        /\ \A s \in 1..n : at[s] = at[s - 1] + Load(cs[par.children[s]])
  BY DEF WorkedBy
<1>2. /\ n \in Nat /\ l \in Int /\ split.count \in Nat /\ n <= split.count
      /\ rem[0] = l
  BY DEF IsSplit
<1>2r. \A s \in 0..split.count : rem[s] \in 0..l
  BY DEF IsSplit
<1>2a. \A s \in 0..n : at[s] \in Int /\ rem[s] \in 0..l /\ rem[s] \in Int
  <2> DEFINE t == split.count
  <2>1. t \in Nat /\ n <= t /\ n \in Nat /\ \A s \in 0..t : rem[s] \in 0..l
    BY <1>2, <1>2r
  <2> HIDE DEF n, l, rem, t
  <2>2. ASSUME NEW s \in 0..n PROVE at[s] \in 0..l /\ rem[s] \in 0..l
    BY <1>1, <2>1
  <2> QED BY <1>2, <2>2
<1>3. \A s \in 1..n : at[s] \in Int /\ at[s - 1] \in Int /\ at[s] <= at[s - 1] + (rem[s - 1] - rem[s])
  <2> SUFFICES ASSUME NEW s \in 1..n
               PROVE  /\ at[s] \in Int /\ at[s - 1] \in Int
                      /\ at[s] <= at[s - 1] + (rem[s - 1] - rem[s])
    OBVIOUS
  <2>1. s \in 0..n /\ s - 1 \in 0..n
    BY <1>2
  <2>2. at[s] \in Int /\ at[s - 1] \in Int /\ rem[s] \in Int /\ rem[s - 1] \in Int
    BY <1>2a, <2>1
  <2> DEFINE v == Load(cs[par.children[s]])
  <2>3. v \in Int /\ v <= rem[s - 1] - rem[s] /\ at[s] = at[s - 1] + v
    BY <1>1 DEF LegQty
  <2> HIDE DEF v, rem
  <2> QED BY <2>2, <2>3
<1> DEFINE G == {m \in Nat : m <= n => at[m] <= l - rem[m]}
<1> HIDE DEF n, l, rem
<1>4. 0 \in G
  BY <1>1, <1>2
<1>5. ASSUME NEW m \in Nat, m \in G PROVE m + 1 \in G
  <2> SUFFICES ASSUME m + 1 <= n PROVE at[m + 1] <= l - rem[m + 1]
    OBVIOUS
  <2>1. m + 1 \in 1..n /\ (m + 1) - 1 = m /\ m \in 0..n /\ m + 1 \in 0..n
    BY <1>2
  <2>2. rem[m] \in Int /\ rem[m + 1] \in Int /\ at[m] <= l - rem[m]
    BY <1>2, <1>2a, <1>5, <2>1
  <2>3. at[m + 1] \in Int /\ at[m] \in Int /\ at[m + 1] <= at[m] + (rem[m] - rem[m + 1])
    BY <1>3, <2>1
  <2> QED BY <1>2, <2>2, <2>3
<1>6. n \in G
  <2> HIDE DEF G
  <2> QED BY <1>2, <1>4, <1>5, NatInduct
<1>7. at[n] = l /\ at[n] <= l - rem[n] /\ rem[n] \in 0..l
  BY <1>1, <1>2, <1>2a, <1>6
<1>8. rem[n] = 0
  BY <1>2, <1>7
<1> QED BY <1>8 DEF n, rem

\* The children in the first slots work no more than those in more slots.
LEMMA WorkedUpward ==
  ASSUME NEW n \in Nat, NEW at, \A s \in 0..n : at[s] \in Int,
         \A s \in 1..n : at[s - 1] <= at[s]
  PROVE  \A s \in 0..n : \A r \in 0..s : at[r] <= at[s]
<1> DEFINE G == {m \in Nat : m <= n => \A r \in 0..m : at[r] <= at[m]}
<1>1. 0 \in G
  OBVIOUS
<1>2. ASSUME NEW m \in Nat, m \in G PROVE m + 1 \in G
  <2> SUFFICES ASSUME m + 1 <= n, NEW r \in 0..(m + 1) PROVE at[r] <= at[m + 1]
    OBVIOUS
  <2>1. m + 1 \in 1..n /\ m + 1 \in 0..n /\ m \in 0..n /\ (m + 1) - 1 = m /\ m <= n
    OBVIOUS
  <2>2. at[m] <= at[m + 1] /\ at[m] \in Int /\ at[m + 1] \in Int
    BY <2>1
  <2>3. CASE r = m + 1
    BY <2>2, <2>3
  <2>4. CASE r # m + 1
    <3>1. r \in 0..m /\ r \in 0..n
      BY <2>1, <2>4
    <3>2. at[r] <= at[m] /\ at[r] \in Int
      BY <1>2, <2>1, <3>1
    <3> QED BY <2>2, <3>2
  <2> QED BY <2>3, <2>4
<1>3. \A m \in Nat : m \in G
  <2> HIDE DEF G
  <2> QED BY <1>1, <1>2, NatInduct
<1> QED BY <1>3

\* When child k works q less and the parent wants q less, it is still worked in full.
LEMMA WorkedFill ==
  ASSUME NEW par, NEW par2, NEW cs, NEW cs2, NEW q \in Nat, WorkedBy(par, cs),
         par.child_count \in Nat, par.leaves \in Int,
         par2.child_count = par.child_count, par2.children = par.children,
         par2.leaves = par.leaves - q, NEW k \in 1..par.child_count,
         q <= Load(cs[par.children[k]]),
         Load(cs2[par.children[k]]) = Load(cs[par.children[k]]) - q,
         \A s \in 1..par.child_count :
           /\ Load(cs[par.children[s]]) \in Nat
           /\ s # k => Load(cs2[par.children[s]]) = Load(cs[par.children[s]])
  PROVE  WorkedBy(par2, cs2)
<1>1. PICK n, l : n = par.child_count /\ l = par.leaves
  OBVIOUS
<1>2. PICK v : v = [s \in 1..n |-> Load(cs[par.children[s]])]
  OBVIOUS
<1>3. PICK v2 : v2 = [s \in 1..n |-> Load(cs2[par.children[s]])]
  OBVIOUS
<1>4. /\ n \in Nat /\ l \in Int /\ k \in 1..n /\ q <= v[k] /\ v2[k] = v[k] - q
      /\ \A s \in 1..n : v[s] \in Nat /\ (s # k => v2[s] = v[s])
  BY <1>1, <1>2, <1>3
<1>5. PICK at \in [0..n -> 0..l] : /\ at[0] = 0 /\ at[n] = l
                                   /\ \A s \in 1..n : at[s] = at[s - 1] + v[s]
  BY <1>1, <1>2 DEF WorkedBy
<1>6. \A s \in 0..n : at[s] \in Int /\ 0 <= at[s] /\ at[s] <= l
  BY <1>4, <1>5
<1>7. \A s \in 1..n : at[s - 1] <= at[s]
  <2> SUFFICES ASSUME NEW s \in 1..n PROVE at[s - 1] <= at[s]
    OBVIOUS
  <2>1. s - 1 \in 0..n /\ s \in 0..n
    BY <1>4
  <2>2. at[s - 1] \in Int /\ v[s] \in Nat /\ at[s] = at[s - 1] + v[s]
    BY <1>4, <1>5, <1>6, <2>1
  <2> QED BY <2>2
<1>8. \A s \in 0..n : \A r \in 0..s : at[r] <= at[s]
  BY <1>4, <1>6, <1>7, WorkedUpward
<1>9. k - 1 \in 0..n /\ k \in 0..n /\ at[k] = at[k - 1] + v[k] /\ v[k] \in Nat /\ q <= v[k]
  BY <1>4, <1>5
<1>10. ASSUME NEW s \in 0..n, s < k PROVE at[s] \in 0..(l - q)
  <2>1. s \in 0..(k - 1)
    BY <1>4, <1>10
  <2>2. at[s] <= at[k - 1]
    BY <1>8, <1>9, <2>1
  <2>3. at[s] \in Int /\ 0 <= at[s] /\ at[k - 1] \in Int /\ at[k] \in Int /\ at[k] <= l
    BY <1>6, <1>9
  <2> QED BY <1>4, <1>9, <2>2, <2>3
<1>11. ASSUME NEW s \in 0..n, ~(s < k) PROVE at[s] - q \in 0..(l - q)
  <2>1. k \in 0..s
    BY <1>4, <1>11
  <2>2. at[k] <= at[s]
    BY <1>8, <2>1
  <2>3. /\ at[s] \in Int /\ at[s] <= l /\ at[k] \in Int
        /\ at[k - 1] \in Int /\ 0 <= at[k - 1]
    BY <1>6, <1>9
  <2>4. PICK a \in Int : a = at[s]
    BY <2>3
  <2>5. q <= a /\ a <= l /\ l \in Int
    BY <1>4, <1>9, <2>2, <2>3, <2>4
  <2>6. a - q \in 0..(l - q)
    BY <2>5
  <2> QED BY <2>4, <2>6
<1> DEFINE at2 == [s \in 0..n |-> IF s < k THEN at[s] ELSE at[s] - q]
<1>12. at2 \in [0..n -> 0..(l - q)]
  BY <1>10, <1>11
<1>13. at2[0] = 0 /\ at2[n] = l - q
  BY <1>4, <1>5
<1>14. ASSUME NEW s \in 1..n PROVE at2[s] = at2[s - 1] + v2[s]
  <2>1. s - 1 \in 0..n /\ s \in 0..n
    BY <1>4
  <2>2. /\ at[s] = at[s - 1] + v[s] /\ v[s] \in Nat /\ at[s - 1] \in Int /\ at[s] \in Int
        /\ v2[s] = IF s = k THEN v[s] - q ELSE v[s]
    BY <1>4, <1>5, <1>6, <2>1
  <2>3. /\ at2[s] = IF s < k THEN at[s] ELSE at[s] - q
        /\ at2[s - 1] = IF s - 1 < k THEN at[s - 1] ELSE at[s - 1] - q
    BY <2>1
  <2>4. s \in Int /\ k \in Int
    BY <1>4
  <2> HIDE DEF at2
  <2>5. CASE s < k
    <3>1. s - 1 < k /\ s # k
      BY <2>4, <2>5
    <3> QED BY <2>2, <2>3, <2>5, <3>1
  <2>6. CASE s = k
    <3>1. s - 1 < k /\ ~(s < k)
      BY <2>4, <2>6
    <3>2. at2[s] = at[s] - q /\ at2[s - 1] = at[s - 1] /\ v2[s] = v[s] - q
      BY <2>2, <2>3, <2>6, <3>1
    <3> QED BY <2>2, <3>2
  <2>7. CASE s > k
    <3>1. ~(s - 1 < k) /\ ~(s < k) /\ s # k
      BY <2>4, <2>7
    <3>2. at2[s] = at[s] - q /\ at2[s - 1] = at[s - 1] - q /\ v2[s] = v[s]
      BY <2>2, <2>3, <3>1
    <3> QED BY <2>2, <3>2
  <2> QED BY <2>4, <2>5, <2>6, <2>7
<1> HIDE DEF at2
<1>15. \A s \in 1..n : v2[s] = Load(cs2[par2.children[s]])
  BY <1>3
<1>16. /\ at2 \in [0..par2.child_count -> 0..par2.leaves]
       /\ at2[0] = 0 /\ at2[par2.child_count] = par2.leaves
       /\ \A s \in 1..par2.child_count : at2[s] = at2[s - 1] + Load(cs2[par2.children[s]])
  BY <1>1, <1>12, <1>13, <1>14, <1>15
<1> QED BY <1>16 DEF WorkedBy

\* A fill of an order that is worked in full takes it down by q, or closes it.
LEMMA FillWhole ==
  ASSUME CoreInv, UniformLots, NEW c \in ChildIds, ReportDue(c),
         NEW q \in 1..children[c].leaves, HandleFill(c, q),
         WorkedBy(parents[children[c].parent], children)
  PROVE  LET p == children[c].parent
         IN  /\ open_lots' = AddOpen(open_lots, parents[p].instr, parents[p].dir, -q)
             /\ \/ p \notin ParentsInUse' /\ parents[p].leaves = q
                \/ /\ parents'[p].leaves = parents[p].leaves - q /\ parent_free' = parent_free
                   /\ WorkedBy(parents'[p], children')
<1> DEFINE ch   == children[c]
           p    == ch.parent
           par  == parents[p]
           left == ch.qty - (ch.cum + q)
           w    == [par |-> [par EXCEPT !.cum = @ + q, !.leaves = par.total - (par.cum + q),
                                        !.state = "PARTIALLY_FILLED"],
                    children |-> [children EXCEPT ![c] =
                                    [ch EXCEPT !.cum = @ + q, !.leaves = left,
                                               !.state = IF left = 0 THEN "FILLED"
                                                                     ELSE "PARTIALLY_FILLED"]],
                    timers |-> CancelTimer(timers, c),
                    open |-> AddOpen(open_lots, par.instr, par.dir, -q),
                    child_free |-> child_free, parent_free |-> parent_free]
<1>1. /\ ch \in ChildOrderState /\ ch.leaves \in Nat /\ ch.cum \in Nat /\ ch.qty \in Int
      /\ ch.ex \in Exchanges /\ ch.leaves = ch.qty - ch.cum
  BY ReportFacts
<1>2. /\ p \in ParentsInUse /\ p \in ParentIds /\ par \in ParentOrder
      /\ par.instr \in Instruments /\ par.leaves = par.total - par.cum
      /\ par.cum \in Nat /\ par.total \in Int /\ par.leaves \in Int
  BY ReportFacts
<1>3. PICK k \in 1..par.child_count : par.children[k] = c
  BY ReportFacts
<1>4. q \in Nat \ {0} /\ q <= ch.leaves
  BY <1>1
<1>5. ToCanonicalLots(q, par.instr, ch.ex) = q
  BY <1>1, <1>2, <1>4, UniformToCanonical
<1>6. IF w.par.leaves = 0 THEN Close(p, w)
      ELSE IF AllChildrenTerminal(w.par, w.children) THEN RerouteLeaves(p, w, net_qty_lots')
      ELSE Wait(p, w)
  BY <1>5 DEF HandleFill
<1>7. /\ w.par.leaves = par.leaves - q
      /\ w.par.child_count = par.child_count /\ w.par.children = par.children
      /\ w.parent_free = parent_free /\ w.open = AddOpen(open_lots, par.instr, par.dir, -q)
  <2>1. w.par.leaves = par.total - (par.cum + q)
    BY <1>2 DEF ParentOrder
  <2>2. par.total - (par.cum + q) = par.leaves - q
    BY <1>2, <1>4
  <2> QED BY <1>2, <2>1, <2>2 DEF ParentOrder
<1>8. /\ w.children[c].state = IF left = 0 THEN "FILLED" ELSE "PARTIALLY_FILLED"
      /\ w.children[c].leaves = left
      /\ \A x \in ChildIds \ {c} : w.children[x] = children[x]
  <2>1. children \in [ChildIds -> ChildOrderState]
    BY DEF CoreInv, TypeOK
  <2> QED BY <1>1, <2>1 DEF ChildOrderState
<1> HIDE DEF w
<1>9. ASSUME AllChildrenTerminal(w.par, w.children) PROVE w.par.leaves = 0
  <2>1. \A s \in 1..par.child_count : w.children[par.children[s]].state \notin Live
    BY <1>7, <1>9 DEF AllChildrenTerminal
  <2>2. left = 0
    BY <1>3, <1>8, <2>1 DEF Live
  <2>3. q = ch.leaves
    BY <1>1, <1>4, <2>2
  <2>4. ASSUME NEW s \in 1..par.child_count, s # k PROVE Load(children[par.children[s]]) = 0
    <3>1. par.children[s] # c
      BY <1>2, <1>3, <2>4 DEF CoreInv, Family
    <3>2. par.children[s] \in ChildIds
      BY <1>2, HeldInUse
    <3> QED BY <1>8, <2>1, <3>1, <3>2 DEF Load
  <2>5. Load(children[par.children[k]]) = q /\ par.child_count \in Nat
    BY <1>2, <1>3, <2>3 DEF Load, ReportDue, ParentOrder
  <2>6. par.leaves = q
    <3> HIDE DEF par
    <3> QED BY <1>2, <1>4, <2>4, <2>5, LastWorker DEF par
  <2> QED BY <1>4, <1>7, <2>6
<1>10. CASE w.par.leaves = 0
  <2>1. Close(p, w)
    BY <1>6, <1>10
  <2>2. open_lots' = w.open /\ parent_free' = PushOne(parent_free, p)
    BY <1>7, <2>1 DEF Close, Store, FreeParent, FreeChildren
  <2>3. p \notin ParentsInUse'
    <3>1. IsFreeList(parent_free, ParentIds) /\ p \notin FreeIds(parent_free)
      BY <1>2, ListsFree DEF ParentsInUse
    <3>2. p \in FreeIds(PushOne(parent_free, p))
      BY <1>2, <3>1, PushOneFree
    <3> QED BY <2>2, <3>2 DEF ParentsInUse
  <2>4. par.leaves = q
    BY <1>2, <1>4, <1>7, <1>10
  <2> QED BY <1>7, <2>2, <2>3, <2>4
<1>11. CASE w.par.leaves # 0
  <2>1. Wait(p, w)
    BY <1>6, <1>9, <1>11
  <2>2. open_lots' = w.open /\ parent_free' = parent_free /\ parents'[p] = w.par
    BY <1>2, <1>7, <2>1 DEF Wait, Store, CoreInv, TypeOK
  <2>3. children' = w.children
    BY <2>1 DEF Wait, Store
  <2>4. WorkedBy(w.par, w.children)
    <3>1. ASSUME NEW s \in 1..par.child_count
          PROVE  /\ Load(children[par.children[s]]) \in Nat
                 /\ s # k => Load(w.children[par.children[s]]) = Load(children[par.children[s]])
      <4>1. ChildOK(children[par.children[s]], p)
        BY <1>2 DEF CoreInv, Family
      <4>2. s # k => par.children[s] # c
        BY <1>2, <1>3 DEF CoreInv, Family
      <4>3. par.children[s] \in ChildIds
        BY <1>2, HeldInUse
      <4> QED BY <1>8, <4>1, <4>2, <4>3 DEF Load, ChildOK
    <3>2. Load(children[c]) = ch.leaves /\ Load(w.children[c]) = left
      <4>1. left # 0 => "PARTIALLY_FILLED" \in Live
        BY DEF Live
      <4>2. "FILLED" \notin Live
        BY DEF Live
      <4> QED BY <1>8, <4>1, <4>2 DEF Load, ReportDue
    <3>3. left = ch.leaves - q
      BY <1>1, <1>4
    <3>4. par.child_count \in Nat
      BY <1>2 DEF ParentOrder
    <3>5. PICK rec, cs : rec = par /\ cs = children
      OBVIOUS
    <3>6. PICK cs2, rec2 : cs2 = w.children /\ rec2 = w.par
      OBVIOUS
    <3>7. /\ WorkedBy(rec, cs) /\ rec.child_count \in Nat /\ rec.leaves \in Int
          /\ rec2.child_count = rec.child_count /\ rec2.children = rec.children
          /\ rec2.leaves = rec.leaves - q
          /\ k \in 1..rec.child_count
          /\ q <= Load(cs[rec.children[k]])
          /\ Load(cs2[rec.children[k]]) = Load(cs[rec.children[k]]) - q
      BY <1>2, <1>3, <1>4, <1>7, <3>2, <3>3, <3>4, <3>5, <3>6
    <3>8. \A s \in 1..rec.child_count :
            /\ Load(cs[rec.children[s]]) \in Nat
            /\ s # k => Load(cs2[rec.children[s]]) = Load(cs[rec.children[s]])
      BY <3>1, <3>5, <3>6
    <3>9. q \in Nat
      BY <1>4
    <3> HIDE DEF par, ch, left
    <3>10. WorkedBy(rec2, cs2)
      BY <3>7, <3>8, <3>9, WorkedFill
    <3> QED BY <3>6, <3>10
  <2> QED BY <1>7, <2>2, <2>3, <2>4
<1> QED BY <1>10, <1>11

\* A new order that is worked in full has reserved what it wants.
LEMMA OpenWhole ==
  ASSUME UniformLots, CoreInv, CoreInv', Liquidity = "deep",
         NEW p \in ParentsInUse', NEW par \in ParentOrder,
         par.instr \in Instruments, par.leaves \in Nat \ {0}, Reserved(p, par),
         WorkedBy(parents'[p], children')
  PROVE  /\ parents'[p].leaves = par.leaves
         /\ open_lots' \in [Instruments -> [Dirs -> Int]]
         /\ \A i \in Instruments, dir \in Dirs :
              open_lots'[i][dir] = IF i = par.instr /\ dir = par.dir
                                   THEN open_lots[i][dir] + par.leaves ELSE open_lots[i][dir]
<1> DEFINE up == AddOpen(open_lots, par.instr, par.dir, par.leaves)
<1>1. PICK split : /\ IsSplit(split, par.leaves) /\ split.rem[split.count] = 0
                   /\ Sent(p, [par |-> par, open |-> up], split)
  BY DEF Reserved
<1>2. PICK n \in 1..split.count :
        /\ parents'[p].child_count = n /\ parents'[p].leaves = par.leaves
        /\ open_lots' = AddOpen(up, par.instr, par.dir, split.rem[split.count] - split.rem[n])
        /\ \A s \in 1..n :
             Room(par.instr, children'[parents'[p].children[s]]) <= LegQty(split, s)
  BY <1>1 DEF Sent
<1>3. open_lots \in [Instruments -> [Dirs -> Int]] /\ par.dir \in Dirs /\ par.leaves \in Int
  BY DEF CoreInv, TypeOK, ParentOrder
<1>4. split.count \in Nat /\ n \in Nat
  BY <1>1 DEF IsSplit
<1>5. ASSUME NEW s \in 1..n
      PROVE  LET v == Load(children'[parents'[p].children[s]])
             IN  v \in Int /\ v <= LegQty(split, s)
  <2>1. ChildOK(children'[parents'[p].children[s]], p)
    BY <1>2 DEF CoreInv, Family
  <2>2. children'[parents'[p].children[s]].leaves \in Nat
    BY <2>1 DEF ChildOK
  <2>3. LegQty(split, s) \in Nat
    BY <1>1, <1>4, LegBounds
  <2>4. PICK ch : ch = children'[parents'[p].children[s]]
    OBVIOUS
  <2>5. Room(par.instr, ch) = ch.leaves
    BY <2>1, <2>4, RoomBounds, UniformDivides
  <2>6. Room(par.instr, ch) <= LegQty(split, s)
    BY <1>2, <2>4
  <2> QED BY <2>2, <2>3, <2>4, <2>5, <2>6 DEF Load
<1>6. split.rem[n] = 0
  <2>1. PICK rec, cs : rec = parents'[p] /\ cs = children'
    OBVIOUS
  <2>2. rec.child_count = n /\ rec.leaves = par.leaves /\ WorkedBy(rec, cs)
    BY <1>2, <2>1
  <2>3. \A s \in 1..n : /\ Load(cs[rec.children[s]]) \in Int
                        /\ Load(cs[rec.children[s]]) <= LegQty(split, s)
    BY <1>5, <2>1
  <2> QED BY <1>1, <1>3, <2>2, <2>3, NoGap
<1>7. open_lots' = AddOpen(up, par.instr, par.dir, 0)
  BY <1>1, <1>2, <1>6
<1>8. /\ up \in [Instruments -> [Dirs -> Int]]
      /\ \A j \in Instruments, d \in Dirs :
           up[j][d] = IF j = par.instr /\ d = par.dir THEN open_lots[j][d] + par.leaves
                                                      ELSE open_lots[j][d]
  BY <1>3 DEF AddOpen, up
<1> HIDE DEF up
<1>9. /\ open_lots' \in [Instruments -> [Dirs -> Int]]
      /\ \A j \in Instruments, d \in Dirs :
           open_lots'[j][d] = IF j = par.instr /\ d = par.dir THEN up[j][d] + 0 ELSE up[j][d]
  BY <1>3, <1>7, <1>8 DEF AddOpen
<1>10. \A j \in Instruments, d \in Dirs : open_lots'[j][d] = up[j][d]
  BY <1>8, <1>9
<1> QED BY <1>2, <1>8, <1>9, <1>10

\* Only a fill, a signal that opens an order, or nothing of all that reservations are
\* about: how a step looks when nothing is lost.
Fills(c, q) ==
  /\ ReportDue(c) /\ q \in 1..children[c].leaves
  /\ HandleFill(c, q)

Idle ==
  /\ UNCHANGED <<parents, parent_free, net_qty_lots, open_lots, cancels>>
  /\ \A x \in ChildIds : Load(children'[x]) = Load(children[x])

LEMMA QuietSteps ==
  ASSUME UniformLots, CoreInv, NothingLost, cancels' = 0, [Next]_vars
  PROVE  \/ \E sig \in Signals : OnStrategyOrder(sig) /\ Handles(sig)
         \/ \E c \in ChildIds, q \in Nat : Fills(c, q)
         \/ Idle
<1>1. ~Counted
  BY DEF Counted, NothingLost
<1>2. ASSUME NEW sig \in Signals, OnStrategyOrder(sig) PROVE Handles(sig)
  BY <1>2, SignalStep, UniformDivides DEF OnStrategyOrder, Handles
<1>3. ASSUME NEW c \in ChildIds, OnExecutionReport(c)
      PROVE  (\E q \in Nat : Fills(c, q)) \/ Idle
  <2>1. ReportDue(c) /\ children[c].leaves \in Nat
    BY <1>3, ReportFacts DEF OnExecutionReport
  <2>2. CASE \E q \in 1..children[c].leaves : HandleFill(c, q)
    BY <2>1, <2>2 DEF Fills
  <2>3. CASE HandleNew(c)
    <3>1. \A x \in ChildIds : /\ children'[x].leaves = children[x].leaves
                              /\ children'[x].state \in Live <=> children[x].state \in Live
      BY <2>1, <2>3, NewStep, UniformDivides
    <3>2. \A x \in ChildIds : Load(children'[x]) = Load(children[x])
      BY <3>1 DEF Load
    <3> QED BY <2>3, <3>2 DEF HandleNew, Idle
  <2> QED BY <1>1, <1>3, <2>2, <2>3 DEF OnExecutionReport
<1>4. ASSUME \/ UNCHANGED vars
             \/ \E i \in Instruments, b \in UnwindModes : SetUnwindMode(i, b)
             \/ TakeReject
             \/ \E o \in outbound : TakeOrder(o)
      PROVE  Idle
  BY <1>4 DEF SetUnwindMode, TakeReject, TakeOrder, vars, Idle
<1> QED BY <1>1, <1>2, <1>3, <1>4 DEF Next

\* The terms of a reservation that OutstandingMoves and open_lots agree on.
LEMMA OpenMoves ==
  ASSUME CoreInv, CoreInv', OpenMatchesLeaves, NEW p \in ParentIds, Apart(p),
         \A i \in Instruments, dir \in Dirs :
           open_lots'[i][dir] = open_lots[i][dir] - Wish(i, dir)[p] + Wish(i, dir)'[p]
  PROVE  OpenMatchesLeaves'
<1> SUFFICES ASSUME NEW i \in Instruments, NEW dir \in Dirs
             PROVE  open_lots'[i][dir] = Outstanding(i, dir)'
  BY DEF OpenMatchesLeaves
<1>1. Outstanding(i, dir)' = Outstanding(i, dir) - Wish(i, dir)[p] + Wish(i, dir)'[p]
  BY OutstandingMoves
<1>2. open_lots[i][dir] = Outstanding(i, dir)
  BY DEF OpenMatchesLeaves
<1> QED BY <1>1, <1>2

\* Nothing that is reserved or wanted changes.
LEMMA OpenKept ==
  ASSUME CoreInv, CoreInv', OpenMatchesLeaves, open_lots' = open_lots,
         ParentsInUse' = ParentsInUse, \A q \in ParentsInUse : parents'[q] = parents[q]
  PROVE  OpenMatchesLeaves'
<1> SUFFICES ASSUME NEW i \in Instruments, NEW dir \in Dirs
             PROVE  open_lots'[i][dir] = Outstanding(i, dir)'
  BY DEF OpenMatchesLeaves
<1>1. Wish(i, dir)' = Wish(i, dir)
  BY DEF Wish
<1>2. CoreInv' => Summed'
  BY OutstandingTotal, PTL
<1>3. Outstanding(i, dir)' = Total(Wish(i, dir)', ParentIds)
  BY <1>2 DEF Summed
<1>4. Outstanding(i, dir) = Total(Wish(i, dir), ParentIds)
  BY OutstandingTotal DEF Summed
<1> QED BY <1>1, <1>3, <1>4 DEF OpenMatchesLeaves

LEMMA FillOpen ==
  ASSUME UniformLots, CoreInv, CoreInv', NothingLost, OpenMatchesLeaves,
         NEW c \in ChildIds, NEW q \in Nat, Fills(c, q)
  PROVE  OpenMatchesLeaves'
<1> DEFINE p == children[c].parent
           par == parents[p]
<1>1. ReportDue(c) /\ q \in 1..children[c].leaves /\ HandleFill(c, q)
  BY DEF Fills
<1>2. /\ p \in ParentsInUse /\ p \in ParentIds /\ par.instr \in Instruments /\ par.dir \in Dirs
      /\ par.leaves \in Int
  BY <1>1, ReportFacts
<1>3. Reported(c, q, q = children[c].leaves)
  BY <1>1, FillStep, UniformDivides
<1>4. Apart(p) /\ parents'[p].instr = par.instr /\ parents'[p].dir = par.dir
  BY <1>3 DEF Reported, Moved
<1>5. /\ open_lots' = AddOpen(open_lots, par.instr, par.dir, -q)
      /\ \/ p \notin ParentsInUse' /\ par.leaves = q
         \/ parents'[p].leaves = par.leaves - q /\ parent_free' = parent_free
  BY <1>1, <1>2, FillWhole DEF NothingLost
<1>6. open_lots \in [Instruments -> [Dirs -> Int]]
  BY DEF CoreInv, TypeOK
<1>7. \A i \in Instruments, dir \in Dirs :
        open_lots'[i][dir] = IF i = par.instr /\ dir = par.dir THEN open_lots[i][dir] - q
                                                               ELSE open_lots[i][dir]
  BY <1>2, <1>5, <1>6 DEF AddOpen
<1>8. p \in ParentsInUse' => parents'[p].leaves = par.leaves - q
  BY <1>5
<1>9. p \notin ParentsInUse' => par.leaves = q
  BY <1>2, <1>5 DEF ParentsInUse
<1>10. ASSUME NEW i \in Instruments, NEW dir \in Dirs
       PROVE  open_lots'[i][dir] = open_lots[i][dir] - Wish(i, dir)[p] + Wish(i, dir)'[p]
  <2> DEFINE mine == i = par.instr /\ dir = par.dir
  <2>1. Wish(i, dir)[p] = IF mine THEN par.leaves ELSE 0
    BY <1>2 DEF Wish
  <2>2. Wish(i, dir)'[p] = IF mine THEN par.leaves - q ELSE 0
    <3>1. Wish(i, dir)'[p] = IF p \in ParentsInUse' /\ mine THEN parents'[p].leaves ELSE 0
      BY <1>2, <1>4 DEF Wish
    <3>2. CASE p \in ParentsInUse'
      BY <1>8, <3>1, <3>2
    <3>3. CASE p \notin ParentsInUse'
      BY <1>2, <1>9, <3>1, <3>3
    <3> QED BY <3>2, <3>3
  <2>3. open_lots[i][dir] \in Int
    BY <1>6
  <2>4. open_lots'[i][dir] = IF mine THEN open_lots[i][dir] - q ELSE open_lots[i][dir]
    BY <1>7
  <2> HIDE DEF mine, par
  <2> QED BY <1>2, <2>1, <2>2, <2>3, <2>4
<1> HIDE DEF p
<1> QED BY <1>2, <1>4, <1>10, OpenMoves

LEMMA SignalOpen ==
  ASSUME UniformLots, Liquidity = "deep", CoreInv, CoreInv', NothingLost', OpenMatchesLeaves,
         NEW sig \in Signals, Handles(sig)
  PROVE  OpenMatchesLeaves'
<1>1. CASE Refused
  BY <1>1, OpenKept DEF Refused, ParentsInUse
<1>2. ASSUME NEW p \in ParentIds, NEW par \in ParentOrder, Opened(sig, p, par)
      PROVE  OpenMatchesLeaves'
  <2>1. /\ p \notin ParentsInUse /\ Apart(p) /\ par.instr \in Instruments
        /\ par.leaves \in Nat \ {0} /\ SameOrder(parents'[p], par) /\ par.dir \in Dirs
    BY <1>2 DEF Opened, Effect, ParentOrder
  <2>2. open_lots \in [Instruments -> [Dirs -> Int]]
    BY DEF CoreInv, TypeOK
  <2>3. \A i \in Instruments, dir \in Dirs : Wish(i, dir)[p] = 0
    BY <2>1 DEF Wish
  <2>4. ASSUME NEW i \in Instruments, NEW dir \in Dirs
        PROVE  open_lots'[i][dir] = open_lots[i][dir] - Wish(i, dir)[p] + Wish(i, dir)'[p]
    <3>1. open_lots[i][dir] \in Int
      BY <2>2
    <3>2. CASE p \in ParentsInUse'
      <4>1. Reserved(p, par)
        BY <1>2, <2>1, <3>2 DEF Opened, ParentsInUse
      <4>2. WorkedBy(parents'[p], children')
        BY <3>2 DEF NothingLost
      <4>3. /\ parents'[p].leaves = par.leaves
            /\ open_lots'[i][dir] = IF i = par.instr /\ dir = par.dir
                                    THEN open_lots[i][dir] + par.leaves ELSE open_lots[i][dir]
        BY <2>1, <3>2, <4>1, <4>2, OpenWhole
      <4>4. Wish(i, dir)'[p] = IF i = par.instr /\ dir = par.dir THEN par.leaves ELSE 0
        BY <2>1, <3>2, <4>3 DEF Wish, SameOrder
      <4> QED BY <2>1, <2>3, <3>1, <4>3, <4>4
    <3>3. CASE p \notin ParentsInUse'
      <4>1. open_lots' = open_lots
        BY <1>2, <3>3 DEF Opened
      <4>2. Wish(i, dir)'[p] = 0
        BY <3>3 DEF Wish
      <4> QED BY <2>3, <3>1, <4>1, <4>2
    <3> QED BY <3>2, <3>3
  <2> QED BY <2>1, <2>4, OpenMoves
<1> QED BY <1>1, <1>2 DEF Handles, Signaled

\* An order is worked by its own children only.
LEMMA WorkedStable ==
  ASSUME NEW par, NEW cs, NEW cs2, WorkedBy(par, cs),
         \A s \in 1..par.child_count : Load(cs2[par.children[s]]) = Load(cs[par.children[s]])
  PROVE  WorkedBy(par, cs2)
<1>1. PICK at \in [0..par.child_count -> 0..par.leaves] :
        /\ at[0] = 0 /\ at[par.child_count] = par.leaves
        /\ \A s \in 1..par.child_count : at[s] = at[s - 1] + Load(cs[par.children[s]])
  BY DEF WorkedBy
<1>2. \A s \in 1..par.child_count : at[s] = at[s - 1] + Load(cs2[par.children[s]])
  BY <1>1
<1> QED BY <1>1, <1>2 DEF WorkedBy

\* A handler that works on p leaves the other orders as they are worked.
LEMMA OthersWorked ==
  ASSUME CoreInv, NothingLost, NEW p \in ParentIds, Apart(p), NEW x \in ParentsInUse', x # p
  PROVE  WorkedBy(parents'[x], children')
<1>1. x \in ParentIds /\ x \in ParentsInUse /\ parents'[x] = parents[x]
  BY DEF Apart, ParentsInUse
<1>2. ASSUME NEW s \in 1..parents[x].child_count
      PROVE  children'[parents[x].children[s]] = children[parents[x].children[s]]
  <2>1. parents[x].children[s] \in Held(parents[x])
    BY DEF Held
  <2>2. /\ parents[x].children[s] \notin Owned(p)
        /\ parents[x].children[s] \in ChildIds
    BY <1>1, <2>1, OwnedApart
  <2> QED BY <2>2 DEF Apart
<1>3. PICK rec, cs, cs2 : rec = parents[x] /\ cs = children /\ cs2 = children'
  OBVIOUS
<1>4. /\ WorkedBy(rec, cs)
      /\ \A s \in 1..rec.child_count : Load(cs2[rec.children[s]]) = Load(cs[rec.children[s]])
  BY <1>1, <1>2, <1>3 DEF NothingLost
<1>5. WorkedBy(rec, cs2)
  BY <1>4, WorkedStable
<1> QED BY <1>1, <1>3, <1>5

\* Every order that a step opens is worked in full from the start: there was a child for
\* each of its legs, and no leg was rounded down.
SentWhole == \A p \in ParentsInUse' \ ParentsInUse : WorkedBy(parents'[p], children')

LEMMA NothingLostNext ==
  ASSUME UniformLots, CoreInv, CoreInv', NothingLost, cancels' = 0,
         [Next]_vars, [SentWhole]_vars
  PROVE  NothingLost'
<1>1. ASSUME NEW sig \in Signals, Handles(sig), SentWhole PROVE NothingLost'
  <2>1. CASE Refused
    BY <2>1 DEF Refused, ParentsInUse, NothingLost
  <2>2. ASSUME NEW p \in ParentIds, NEW par \in ParentOrder, Opened(sig, p, par)
        PROVE  NothingLost'
    <3>1. p \notin ParentsInUse /\ Apart(p)
      BY <2>2 DEF Opened, Effect
    <3>2. p \in ParentsInUse' => WorkedBy(parents'[p], children')
      BY <1>1, <3>1 DEF SentWhole
    <3>3. \A x \in ParentsInUse' : x # p => WorkedBy(parents'[x], children')
      BY <3>1, OthersWorked
    <3> QED BY <3>2, <3>3 DEF NothingLost
  <2> QED BY <1>1, <2>1, <2>2 DEF Handles, Signaled
<1>2. ASSUME NEW c \in ChildIds, NEW q \in Nat, Fills(c, q) PROVE NothingLost'
  <2> DEFINE p == children[c].parent
  <2>1. ReportDue(c) /\ q \in 1..children[c].leaves /\ HandleFill(c, q)
    BY <1>2 DEF Fills
  <2>2. p \in ParentsInUse /\ p \in ParentIds
    BY <2>1, ReportFacts
  <2>3. Apart(p)
    BY <2>1, FillStep, UniformDivides DEF Reported, Moved
  <2>4. p \in ParentsInUse' => WorkedBy(parents'[p], children')
    BY <2>1, <2>2, FillWhole DEF NothingLost
  <2>5. \A x \in ParentsInUse' : x # p => WorkedBy(parents'[x], children')
    BY <2>2, <2>3, OthersWorked
  <2> HIDE DEF p
  <2> QED BY <2>4, <2>5 DEF NothingLost
<1>3. CASE Idle
  <2>1. ParentsInUse' = ParentsInUse /\ parents' = parents
    BY <1>3 DEF Idle, ParentsInUse
  <2>2. ASSUME NEW x \in ParentsInUse PROVE WorkedBy(parents[x], children')
    <3>1. \A s \in 1..parents[x].child_count : parents[x].children[s] \in ChildIds
      BY HeldInUse
    <3>2. PICK rec, cs, cs2 : rec = parents[x] /\ cs = children /\ cs2 = children'
      OBVIOUS
    <3>3. /\ WorkedBy(rec, cs)
          /\ \A s \in 1..rec.child_count : Load(cs2[rec.children[s]]) = Load(cs[rec.children[s]])
      BY <1>3, <3>1, <3>2 DEF Idle, NothingLost
    <3> QED BY <3>2, <3>3, WorkedStable
  <2> QED BY <2>1, <2>2 DEF NothingLost
<1>4. CASE UNCHANGED vars
  BY <1>3, <1>4 DEF vars, Idle
<1>5. CASE SentWhole
  BY <1>1, <1>2, <1>3, <1>5, QuietSteps
<1> QED BY <1>4, <1>5

LEMMA OpenInit == Init => OpenMatchesLeaves
<1> SUFFICES ASSUME Init, NEW i \in Instruments, NEW dir \in Dirs
             PROVE  open_lots[i][dir] = Outstanding(i, dir)
  BY DEF OpenMatchesLeaves
<1>1. CoreInv
  BY CoreInit
<1>2. ParentsInUse = {}
  BY CoreAssumption, FullListFree DEF Init, ParentsInUse, ParentIds
<1>3. PICK F : F = Wish(i, dir)
  OBVIOUS
<1>4. \A p \in ParentIds : F[p] = 0
  BY <1>2, <1>3 DEF Wish
<1>5. Outstanding(i, dir) = Total(F, ParentIds)
  BY <1>1, <1>3, OutstandingTotal DEF Summed
<1>6. Total(F, {}) = Total(F, ParentIds)
  <2>1. (\A x \in ParentIds : F[x] \in Int) /\ {} \in SUBSET ParentIds
        /\ \A x \in ParentIds \ {} : F[x] = 0
    BY <1>4
  <2> QED BY <2>1, ParentsFinite, TotalSupport
<1>7. open_lots[i][dir] = 0
  BY DEF Init
<1> QED BY <1>5, <1>6, <1>7, TotalEmpty

\* As long as nothing is cancelled and every order is sent whole, every order stays
\* worked in full until it closes.
LEMMA StaysWhole ==
  ASSUME UniformLots
  PROVE  Spec /\ [](cancels = 0) /\ [][SentWhole]_vars => []NothingLost
<1>1. Init /\ cancels = 0 => CoreInv /\ NothingLost
  <2> SUFFICES ASSUME Init, cancels = 0 PROVE CoreInv /\ NothingLost
    OBVIOUS
  <2>1. ParentsInUse = {}
    BY CoreAssumption, FullListFree DEF Init, ParentsInUse, ParentIds
  <2> QED BY <2>1, CoreInit DEF NothingLost
<1>2. CoreInv /\ [Next]_vars => CoreInv'
  BY CoreNext, UniformDivides
<1>3. CoreInv /\ CoreInv' /\ NothingLost /\ (cancels = 0)' /\ [Next]_vars /\ [SentWhole]_vars
        => NothingLost'
  BY NothingLostNext
<1> QED BY <1>1, <1>2, <1>3, PTL DEF Spec

\* open_buy_lots and open_sell_lots are exactly what the open orders still want to trade,
\* for any number of orders, legs and instruments and any order of signals, partial fills
\* and closings (reserve_open in on_strategy_order, release_open in handle_fill), as long
\* as nothing is cancelled and every order is sent whole.
THEOREM ReservationsAreExact ==
  ASSUME UniformLots, Liquidity = "deep"
  PROVE  Spec /\ [](cancels = 0) /\ [][SentWhole]_vars => []OpenMatchesLeaves
<1>1. Init => CoreInv /\ OpenMatchesLeaves
  BY CoreInit, OpenInit
<1>2. CoreInv /\ [Next]_vars => CoreInv'
  BY CoreNext, UniformDivides
<1>3. ASSUME CoreInv, CoreInv', NothingLost, NothingLost', OpenMatchesLeaves, [Next]_vars
      PROVE  OpenMatchesLeaves'
  <2>1. CASE \E sig \in Signals : OnStrategyOrder(sig) /\ Handles(sig)
    BY <1>3, <2>1, SignalOpen
  <2>2. CASE \E c \in ChildIds, q \in Nat : Fills(c, q)
    BY <1>3, <2>2, FillOpen
  <2>3. CASE Idle
    BY <1>3, <2>3, OpenKept DEF Idle, ParentsInUse
  <2>4. cancels' = 0
    BY <1>3 DEF NothingLost
  <2> QED BY <1>3, <2>1, <2>2, <2>3, <2>4, QuietSteps
<1>4. Spec /\ [](cancels = 0) /\ [][SentWhole]_vars => []NothingLost
  BY StaysWhole
<1> QED BY <1>1, <1>2, <1>3, <1>4, PTL DEF Spec

-----------------------------------------------------------------------------
(* Reduce-only orders                                                      *)

\* The direction that closes what was opened in direction dir.
Opposite(dir) == IF dir = "BUY" THEN "SELL" ELSE "BUY"

\* Every instrument is opened in one direction, side[i], and signals in the other one
\* are reduce-only.
OneSided(side) ==
  /\ side \in [Instruments -> Dirs]
  /\ \A sig \in Signals : sig.instr \in Instruments =>
       (sig.reduce_only <=> sig.dir # side[sig.instr])

\* Unwind mode is off, the reduce-only orders are the closing ones, and together they want
\* to close no more than there is.
Covers(side) ==
  /\ \A i \in Instruments : ~unwind_only[i]
  /\ \A p \in ParentsInUse : parents[p].reduce_only <=> parents[p].dir # side[parents[p].instr]
  /\ \A i \in Instruments :
       open_lots[i][Opposite(side[i])] <= Signed(side[i], net_qty_lots[i])

\* An order wants no more than what is outstanding, which is never negative.
LEMMA LeavesWithin ==
  ASSUME CoreInv, NEW i, NEW dir
  PROVE  /\ Outstanding(i, dir) \in Nat
         /\ \A p \in ParentsInUse : parents[p].instr = i /\ parents[p].dir = dir =>
              parents[p].leaves <= Outstanding(i, dir)
<1>1. PICK F : F = Wish(i, dir)
  OBVIOUS
<1>2. Outstanding(i, dir) = Total(F, ParentIds)
  BY <1>1, OutstandingTotal DEF Summed
<1>3. \A x \in ParentIds : F[x] \in Nat
  BY <1>1, WishType
<1>4. \A x \in ParentIds : F[x] \in Int
  BY <1>3
<1>5. Total(F, ParentIds) \in Int
  BY <1>4, ParentsFinite, TotalInt
<1>6. 0 <= Total(F, ParentIds)
  <2>1. {} \in SUBSET ParentIds
    OBVIOUS
  <2>2. Total(F, {}) <= Total(F, ParentIds)
    BY <1>3, <2>1, ParentsFinite, TotalMonotonic
  <2> QED BY <2>2, TotalEmpty
<1>7. ASSUME NEW p \in ParentsInUse, parents[p].instr = i /\ parents[p].dir = dir
      PROVE  parents[p].leaves <= Total(F, ParentIds)
  <2>1. p \in ParentIds /\ F[p] = parents[p].leaves
    BY <1>1, <1>7 DEF Wish, ParentsInUse
  <2>2. {p} \in SUBSET ParentIds /\ F[p] \in Int
    BY <1>4, <2>1
  <2>3. Total(F, {p}) = F[p]
    BY <2>2, TotalOne
  <2>4. Total(F, {p}) <= Total(F, ParentIds)
    BY <1>3, <2>2, ParentsFinite, TotalMonotonic
  <2> QED BY <2>1, <2>3, <2>4
<1> QED BY <1>2, <1>5, <1>6, <1>7

\* Without TRUE among the values ops store, unwind mode stays off.
LEMMA UnwindOff ==
  ASSUME TypeOK, TRUE \notin UnwindModes, \A i \in Instruments : ~unwind_only[i], [Next]_vars
  PROVE  \A i \in Instruments : ~unwind_only'[i]
<1>1. unwind_only \in [Instruments -> BOOLEAN] /\ UnwindModes \subseteq {FALSE}
  BY CoreAssumption DEF TypeOK
<1>2. ASSUME NEW sig \in Signals, OnStrategyOrder(sig)
      PROVE  \A i \in Instruments : ~unwind_only'[i]
  BY <1>1, <1>2 DEF OnStrategyOrder, Admit
<1>3. ASSUME NEW c \in ChildIds, OnExecutionReport(c) PROVE unwind_only' = unwind_only
  BY <1>3 DEF OnExecutionReport, HandleFill, HandleCancelReject, HandleNew
<1>4. ASSUME NEW c \in ChildIds, ChildTimeout(c) PROVE unwind_only' = unwind_only
  BY <1>4 DEF ChildTimeout, HandleCancelReject
<1>5. ASSUME NEW i \in Instruments, NEW b \in UnwindModes, SetUnwindMode(i, b)
      PROVE  \A j \in Instruments : ~unwind_only'[j]
  BY <1>1, <1>5 DEF SetUnwindMode
<1>6. ASSUME UNCHANGED vars \/ TakeReject \/ \E o \in outbound : TakeOrder(o)
      PROVE  unwind_only' = unwind_only
  BY <1>6 DEF vars, TakeReject, TakeOrder
<1> QED BY <1>2, <1>3, <1>4, <1>5, <1>6 DEF Next

\* A closing trade of no more than there is keeps the side of the position and takes it down.
LEMMA ClosingTrade ==
  ASSUME NEW n \in Int, NEW s \in Dirs, NEW d \in Dirs, d # s, NEW q \in Nat, q <= Signed(s, n)
  PROVE  LET m == n + Signed(d, q)
         IN  /\ m \in Int /\ Signed(s, m) = Signed(s, n) - q
             /\ Abs(m) <= Abs(n) /\ m * n >= 0
<1> DEFINE m == n + Signed(d, q)
<1>1. CASE s = "BUY"
  <2>1. d = "SELL" /\ m = n - q /\ q <= n
    BY <1>1 DEF Dirs, Signed
  <2>2. m \in Nat /\ n \in Nat /\ m <= n
    BY <2>1
  <2> HIDE DEF m
  <2>3. m * n >= 0
    BY <2>2
  <2> QED BY <1>1, <2>1, <2>2, <2>3 DEF Abs, Signed, m
<1>2. CASE s = "SELL"
  <2>1. d = "BUY" /\ m = n + q /\ q <= -n
    BY <1>2 DEF Dirs, Signed
  <2> DEFINE a == -m
             b == -n
  <2>2. m \in Int /\ a \in Nat /\ b \in Nat /\ a <= b /\ m = -a /\ n = -b
    BY <2>1
  <2>3. a * b >= 0
    <3> HIDE DEF a, b, m
    <3> QED BY <2>2
  <2>4. m * n = a * b
    <3> HIDE DEF a, b, m
    <3> QED BY <2>2
  <2> QED BY <1>2, <2>1, <2>2, <2>3, <2>4 DEF Abs, Signed
<1> QED BY <1>1, <1>2 DEF Dirs

\* The clamp leaves a closing signal no more than what is not yet being closed.
LEMMA ClampCovers ==
  ASSUME NEW s \in Dirs, NEW d \in Dirs, d # s, NEW qty \in Nat, NEW n \in Int, NEW committed \in Int,
         ClampReduceOnly(d, qty, TRUE, n, committed) > 0
  PROVE  committed + ClampReduceOnly(d, qty, TRUE, n, committed) <= Signed(s, n)
BY DEF ClampReduceOnly, Signed, Abs, Dirs

LEMMA FillCovers ==
  ASSUME UniformLots, CoreInv, NothingLost, OpenMatchesLeaves,
         NEW side, OneSided(side), Covers(side),
         NEW c \in ChildIds, NEW q \in Nat, Fills(c, q)
  PROVE  LET p == children[c].parent
             i == parents[p].instr
         IN  /\ Apart(p) /\ p \in ParentsInUse /\ i \in Instruments
             /\ parents'[p].instr = i /\ parents'[p].dir = parents[p].dir
             /\ parents'[p].reduce_only = parents[p].reduce_only
             /\ \A j \in Instruments :
                  open_lots'[j][Opposite(side[j])] <= Signed(side[j], net_qty_lots'[j])
             /\ parents[p].reduce_only =>
                  /\ Abs(net_qty_lots'[i]) <= Abs(net_qty_lots[i])
                  /\ net_qty_lots'[i] * net_qty_lots[i] >= 0
<1> DEFINE p == children[c].parent
           i == parents[p].instr
           d == parents[p].dir
           n == net_qty_lots[i]
           opp == Opposite(side[i])
<1>1. ReportDue(c) /\ q \in 1..children[c].leaves /\ HandleFill(c, q)
  BY DEF Fills
<1>2. p \in ParentsInUse /\ i \in Instruments /\ d \in Dirs
  BY <1>1, ReportFacts
<1>0. Traded(c, q) = q
  BY <1>1, ReportFacts, UniformToCanonical DEF Traded
<1>3. /\ Reported(c, q, q = children[c].leaves)
      /\ net_qty_lots' = [net_qty_lots EXCEPT ![i] = @ + Signed(d, q)]
  <2>1. net_qty_lots' = [net_qty_lots EXCEPT ![i] = @ + Signed(d, Traded(c, q))]
    BY <1>1, FillStep, UniformDivides
  <2>2. Reported(c, q, q = children[c].leaves)
    BY <1>1, FillStep, UniformDivides
  <2> QED BY <1>0, <2>1, <2>2
<1>4. /\ Apart(p) /\ parents'[p].instr = i /\ parents'[p].dir = d
      /\ parents'[p].reduce_only = parents[p].reduce_only
  BY <1>3 DEF Reported, Moved
<1>5. open_lots' = AddOpen(open_lots, i, d, -q)
  BY <1>1, <1>2, FillWhole DEF NothingLost
<1>6. open_lots \in [Instruments -> [Dirs -> Int]] /\ net_qty_lots \in [Instruments -> Int]
  BY DEF CoreInv, TypeOK
<1>7. \A j \in Instruments, e \in Dirs :
        open_lots'[j][e] = IF j = i /\ e = d THEN open_lots[j][e] - q ELSE open_lots[j][e]
  BY <1>2, <1>5, <1>6 DEF AddOpen
<1>8. \A j \in Instruments : net_qty_lots'[j] = IF j = i THEN n + Signed(d, q) ELSE net_qty_lots[j]
  BY <1>2, <1>3, <1>6
<1>9. \A j \in Instruments : side[j] \in Dirs /\ Opposite(side[j]) \in Dirs
                             /\ Opposite(side[j]) # side[j]
  BY DEF OneSided, Opposite, Dirs
<1>10. /\ n \in Int /\ side[i] \in Dirs /\ opp \in Dirs /\ opp # side[i]
       /\ open_lots[i][opp] \in Int /\ open_lots[i][opp] <= Signed(side[i], n)
  BY <1>2, <1>6, <1>9 DEF Covers
<1>11. d # side[i] => d = opp
  BY <1>2, <1>10 DEF Dirs
<1>12. ASSUME d # side[i]
       PROVE  /\ q <= Signed(side[i], n)
              /\ Signed(side[i], n + Signed(d, q)) = Signed(side[i], n) - q
              /\ Abs(n + Signed(d, q)) <= Abs(n) /\ (n + Signed(d, q)) * n >= 0
  <2>1. parents[p].leaves <= Outstanding(i, d) /\ Outstanding(i, d) \in Nat
    BY <1>2, LeavesWithin
  <2>2. open_lots[i][d] = Outstanding(i, d)
    BY <1>2 DEF OpenMatchesLeaves
  <2>3. q <= parents[p].leaves /\ parents[p].leaves \in Int
    <3>1. children[c].leaves \in Nat /\ parents[p].leaves \in Int
      BY <1>1, ReportFacts
    <3>2. q \in 0..children[c].leaves
      BY <1>1, <3>1
    <3>3. q \in 0..parents[p].leaves
      BY <1>0, <1>1, <3>2, ChildWithin, UniformDivides
    <3> QED BY <3>1, <3>3
  <2>4. Signed(side[i], n) \in Int
    BY <1>10 DEF Signed
  <2> HIDE DEF n, d, i, p
  <2>5. q <= Signed(side[i], n)
    BY <1>10, <1>11, <1>12, <2>1, <2>2, <2>3, <2>4
  <2> QED BY <1>2, <1>10, <1>12, <2>5, ClosingTrade
<1>13. ASSUME NEW j \in Instruments
       PROVE  open_lots'[j][Opposite(side[j])] <= Signed(side[j], net_qty_lots'[j])
  <2>1. CASE j # i
    BY <1>7, <1>8, <1>9, <2>1 DEF Covers
  <2>2. CASE j = i /\ d # side[i]
    <3>1. open_lots'[i][opp] = open_lots[i][opp] - q
      BY <1>2, <1>7, <1>10, <1>11, <2>2
    <3>2. Signed(side[i], net_qty_lots'[i]) = Signed(side[i], n) - q
      BY <1>2, <1>8, <1>12, <2>2
    <3>3. Signed(side[i], n) \in Int
      BY <1>10 DEF Signed
    <3> HIDE DEF n, opp, d, i
    <3>4. open_lots'[i][opp] <= Signed(side[i], net_qty_lots'[i])
      BY <1>10, <3>1, <3>2, <3>3
    <3> QED BY <2>2, <3>4 DEF opp
  <2>3. CASE j = i /\ d = side[i]
    <3>1. open_lots'[i][opp] = open_lots[i][opp]
      BY <1>2, <1>7, <1>10, <2>3
    <3>2. net_qty_lots'[i] = n + Signed(side[i], q)
      BY <1>2, <1>8, <2>3
    <3> HIDE DEF n, opp, d, i
    <3>3. Signed(side[i], n + Signed(side[i], q)) = Signed(side[i], n) + q /\ Signed(side[i], n) \in Int
      BY <1>10 DEF Signed
    <3>4. open_lots'[i][opp] <= Signed(side[i], net_qty_lots'[i])
      BY <1>10, <3>1, <3>2, <3>3
    <3> QED BY <2>3, <3>4 DEF opp
  <2> QED BY <2>1, <2>2, <2>3
<1>14. ASSUME parents[p].reduce_only
       PROVE  /\ Abs(net_qty_lots'[i]) <= Abs(net_qty_lots[i])
              /\ net_qty_lots'[i] * net_qty_lots[i] >= 0
  <2>1. d # side[i]
    BY <1>2, <1>14 DEF Covers
  <2> QED BY <1>2, <1>8, <1>12, <2>1
<1> QED BY <1>2, <1>4, <1>13, <1>14

LEMMA SignalCovers ==
  ASSUME UniformLots, Liquidity = "deep", CoreInv, CoreInv', NothingLost',
         NEW side, OneSided(side), Covers(side), \A i \in Instruments : ~unwind_only'[i],
         NEW sig \in Signals, Handles(sig)
  PROVE  Covers(side)'
<1>1. /\ open_lots \in [Instruments -> [Dirs -> Int]] /\ net_qty_lots \in [Instruments -> Int]
      /\ net_qty_lots' = net_qty_lots
  BY DEF CoreInv, TypeOK, Handles
<1>2. \A p \in ParentsInUse : parents'[p] = parents[p]
  BY HandlesKeep
<1>3. CASE Refused
  <2>1. ParentsInUse' = ParentsInUse /\ open_lots' = open_lots
    BY <1>3 DEF Refused, ParentsInUse
  <2> QED BY <1>1, <1>2, <2>1 DEF Covers
<1>4. ASSUME NEW p \in ParentIds, NEW par \in ParentOrder, Opened(sig, p, par)
      PROVE  Covers(side)'
  <2> DEFINE i == sig.instr
             d == sig.dir
  <2>1. /\ p \notin ParentsInUse /\ Apart(p) /\ par.instr = i /\ i \in Instruments /\ par.dir = d
        /\ par.leaves \in Nat \ {0} /\ par.leaves = Clamped(sig)
        /\ SameOrder(parents'[p], par) /\ d \in Dirs
        /\ par.reduce_only = Constrained(sig, unwind_only')
    BY <1>4 DEF Opened, Effect, ParentOrder
  <2>2. \A x \in ParentsInUse' : x # p => x \in ParentsInUse /\ parents'[x] = parents[x]
    BY <2>1 DEF Apart, ParentsInUse
  <2>3. sig.reduce_only \in BOOLEAN /\ sig.qty \in Nat
        /\ (sig.reduce_only <=> d # side[i])
    BY <2>1, CoreAssumption DEF OneSided
  <2>4. Constrained(sig, unwind_only') <=> sig.reduce_only
    BY <2>1, <2>3 DEF Constrained
  <2>5. Constrained(sig, unwind_only) <=> sig.reduce_only
    BY <2>1, <2>3 DEF Constrained, Covers
  <2>6. \A x \in ParentsInUse' : parents'[x].reduce_only <=> parents'[x].dir # side[parents'[x].instr]
    <3>1. parents'[p].reduce_only = par.reduce_only /\ parents'[p].dir = d /\ parents'[p].instr = i
      BY <2>1 DEF SameOrder
    <3>2. parents'[p].reduce_only <=> parents'[p].dir # side[parents'[p].instr]
      BY <2>1, <2>3, <2>4, <3>1
    <3> QED BY <2>2, <3>2 DEF Covers
  <2>7. ASSUME d # side[i]
        PROVE  open_lots[i][d] + par.leaves <= Signed(side[i], net_qty_lots[i])
    <3>0. PICK committed : committed = open_lots[i][d]
      OBVIOUS
    <3>1. Constrained(sig, unwind_only) = TRUE
      BY <2>3, <2>5, <2>7 DEF Constrained
    <3>2. par.leaves = ClampReduceOnly(d, sig.qty, TRUE, net_qty_lots[i], committed)
      BY <2>1, <3>0, <3>1 DEF Clamped
    <3>3. PICK n : n = net_qty_lots[i]
      OBVIOUS
    <3>4. n \in Int /\ side[i] \in Dirs /\ par.leaves > 0 /\ committed \in Int
      BY <1>1, <2>1, <3>0, <3>3 DEF OneSided
    <3> HIDE DEF i, d
    <3>5. committed + par.leaves <= Signed(side[i], n)
      BY <2>1, <2>3, <2>7, <3>2, <3>3, <3>4, ClampCovers
    <3> QED BY <3>0, <3>3, <3>5
  <2>8. CASE p \notin ParentsInUse'
    <3>1. open_lots' = open_lots
      BY <1>4, <2>8 DEF Opened
    <3> QED BY <1>1, <2>6, <3>1 DEF Covers
  <2>9. CASE p \in ParentsInUse'
    <3>1. Reserved(p, par)
      BY <1>4, <2>1, <2>9 DEF Opened, ParentsInUse
    <3>2. WorkedBy(parents'[p], children')
      BY <2>9 DEF NothingLost
    <3>3. \A j \in Instruments, e \in Dirs :
            open_lots'[j][e] = IF j = i /\ e = d THEN open_lots[j][e] + par.leaves
                                                 ELSE open_lots[j][e]
      BY <2>1, <2>9, <3>1, <3>2, OpenWhole
    <3>4. ASSUME NEW j \in Instruments
          PROVE  open_lots'[j][Opposite(side[j])] <= Signed(side[j], net_qty_lots[j])
      <4>1. Opposite(side[j]) \in Dirs /\ Opposite(side[j]) # side[j]
        BY DEF OneSided, Opposite, Dirs
      <4>2. open_lots[j][Opposite(side[j])] <= Signed(side[j], net_qty_lots[j])
        BY DEF Covers
      <4>3. CASE ~(j = i /\ Opposite(side[j]) = d)
        BY <3>3, <4>1, <4>2, <4>3
      <4>4. CASE j = i /\ Opposite(side[j]) = d
        <5>1. d # side[i]
          BY <4>1, <4>4
        <5>2. open_lots[i][d] + par.leaves <= Signed(side[i], net_qty_lots[i])
          BY <2>7, <5>1
        <5>3. open_lots'[j][Opposite(side[j])] = open_lots[i][d] + par.leaves
          BY <3>3, <4>1, <4>4
        <5> QED BY <4>4, <5>2, <5>3
      <4> QED BY <4>3, <4>4
    <3> QED BY <1>1, <2>6, <3>4 DEF Covers
  <2> QED BY <2>8, <2>9
<1> QED BY <1>3, <1>4 DEF Handles, Signaled

\* A fill of a reduce-only order never grows or flips the position, however many closing
\* orders compete for it (clamp_reduce_only counts what is reserved), on instruments that
\* are opened in one direction, with unwind mode off, and as long as nothing is cancelled
\* and every order is sent whole.
THEOREM ReduceOnlyReduces ==
  ASSUME UniformLots, Liquidity = "deep", TRUE \notin UnwindModes,
         NEW CONSTANT side, OneSided(side)
  PROVE  Spec /\ [](cancels = 0) /\ [][SentWhole]_vars => ReduceOnlyNeverFlips
<1> DEFINE Keeps == \A p \in ParentsInUse :
                      LET i == parents[p].instr
                      IN  parents[p].reduce_only /\ parents'[p].cum > parents[p].cum =>
                            /\ Abs(net_qty_lots'[i]) <= Abs(net_qty_lots[i])
                            /\ net_qty_lots'[i] * net_qty_lots[i] >= 0
<1>1. Init => CoreInv /\ OpenMatchesLeaves
  BY CoreInit, OpenInit
<1>2. Init => Covers(side)
  <2> SUFFICES ASSUME Init PROVE Covers(side)
    OBVIOUS
  <2>1. ParentsInUse = {}
    BY CoreAssumption, FullListFree DEF Init, ParentsInUse, ParentIds
  <2>2. \A i \in Instruments : /\ ~unwind_only[i] /\ net_qty_lots[i] = 0
                               /\ \A dir \in Dirs : open_lots[i][dir] = 0
    BY DEF Init
  <2>3. \A i \in Instruments : Opposite(side[i]) \in Dirs
    BY DEF Opposite, Dirs
  <2>4. ASSUME NEW i \in Instruments PROVE Signed(side[i], net_qty_lots[i]) = 0
    <3>1. PICK n \in Int : n = net_qty_lots[i]
      BY <1>1 DEF CoreInv, TypeOK
    <3>2. n = 0 /\ -n = n
      BY <2>2, <3>1
    <3> QED BY <3>1, <3>2, Zenon DEF Signed
  <2> QED BY <2>1, <2>2, <2>3, <2>4 DEF Covers
<1>3. CoreInv /\ [Next]_vars => CoreInv'
  BY CoreNext, UniformDivides
<1>4. ASSUME CoreInv, CoreInv', NothingLost, NothingLost', OpenMatchesLeaves, Covers(side),
             [Next]_vars
      PROVE  Covers(side)' /\ Keeps
  <2>1. \A i \in Instruments : ~unwind_only'[i]
    BY <1>4, UnwindOff DEF CoreInv, Covers
  <2>2. ASSUME \A p \in ParentsInUse : parents'[p] = parents[p] PROVE Keeps
    <3>1. ASSUME NEW p \in ParentsInUse PROVE ~(parents[p].cum > parents[p].cum)
      <4>1. parents[p].cum \in Int
        BY <1>4 DEF CoreInv, TypeOK, ParentsInUse, ParentOrder
      <4> QED BY <4>1
    <3> QED BY <2>2, <3>1
  <2>3. ASSUME NEW sig \in Signals, Handles(sig) PROVE Covers(side)' /\ Keeps
    <3>1. \A p \in ParentsInUse : parents'[p] = parents[p]
      BY <1>4, <2>3, HandlesKeep
    <3> QED BY <1>4, <2>1, <2>2, <2>3, <3>1, SignalCovers
  <2>4. ASSUME NEW c \in ChildIds, NEW q \in Nat, Fills(c, q) PROVE Covers(side)' /\ Keeps
    <3> DEFINE p == children[c].parent
               i == parents[p].instr
    <3>1. /\ Apart(p) /\ p \in ParentsInUse /\ i \in Instruments
          /\ parents'[p].instr = i /\ parents'[p].dir = parents[p].dir
          /\ parents'[p].reduce_only = parents[p].reduce_only
          /\ \A j \in Instruments :
               open_lots'[j][Opposite(side[j])] <= Signed(side[j], net_qty_lots'[j])
          /\ parents[p].reduce_only =>
               /\ Abs(net_qty_lots'[i]) <= Abs(net_qty_lots[i])
               /\ net_qty_lots'[i] * net_qty_lots[i] >= 0
      BY <1>4, <2>4, FillCovers
    <3>2. \A x \in ParentIds \ {p} : parents'[x] = parents[x]
      BY <3>1 DEF Apart
    <3>3. \A x \in ParentsInUse' : x # p => x \in ParentsInUse /\ parents'[x] = parents[x]
      BY <3>1 DEF Apart, ParentsInUse
    <3>4. \A x \in ParentsInUse' :
            parents'[x].reduce_only <=> parents'[x].dir # side[parents'[x].instr]
      BY <1>4, <3>1, <3>3 DEF Covers
    <3>5. Covers(side)'
      BY <2>1, <3>1, <3>4 DEF Covers
    <3>6. ASSUME NEW x \in ParentsInUse, x # p PROVE ~(parents'[x].cum > parents[x].cum)
      <4>1. parents[x].cum \in Int /\ x \in ParentIds
        BY <1>4 DEF CoreInv, TypeOK, ParentsInUse, ParentOrder
      <4> QED BY <3>2, <3>6, <4>1
    <3> QED BY <3>1, <3>5, <3>6
  <2>5. CASE Idle
    <3>1. Covers(side)'
      BY <1>4, <2>1, <2>5 DEF Idle, Covers, ParentsInUse
    <3> QED BY <2>2, <2>5, <3>1 DEF Idle
  <2>6. cancels' = 0
    BY <1>4 DEF NothingLost
  <2> QED BY <1>4, <2>3, <2>4, <2>5, <2>6, QuietSteps
<1>5. [](OpenMatchesLeaves) /\ []CoreInv /\ []NothingLost /\ [][Next]_vars /\ Covers(side)
        => [][Keeps]_vars
  <2> HIDE DEF Keeps
  <2> QED BY <1>4, PTL
<1>6. Spec /\ [](cancels = 0) /\ [][SentWhole]_vars => []OpenMatchesLeaves /\ []NothingLost
  BY ReservationsAreExact, StaysWhole
<1> QED BY <1>1, <1>2, <1>3, <1>5, <1>6, PTL DEF Spec, ReduceOnlyNeverFlips
=============================================================================
