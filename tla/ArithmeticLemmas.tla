-------------------------- MODULE ArithmeticLemmas --------------------------
(***************************************************************************)
(* Facts about numbers that several proofs need: integer division by a     *)
(* variable divisor, which the SMT solver only handles when it is led by   *)
(* the hand, induction over the natural numbers, stated for sets so that   *)
(* it can be cited, and sums over finite sets.                             *)
(***************************************************************************)
EXTENDS Integers, FiniteSets, FiniteSetTheorems, WellFoundedInduction, TLAPS

-----------------------------------------------------------------------------
(* Division and remainder                                                  *)

\* The quotient is the number of whole divisors below a.
LEMMA DivBounds ==
  ASSUME NEW t \in Nat \ {0}, NEW a \in Nat
  PROVE  a \div t \in Nat /\ t * (a \div t) <= a /\ a < t * (a \div t) + t
OBVIOUS

\* Only the quotient has that property.
LEMMA DivUnique ==
  ASSUME NEW t \in Nat \ {0}, NEW a \in Nat, NEW q \in Nat, t * q <= a, a < t * q + t
  PROVE  a \div t = q
<1> DEFINE r == a \div t
<1>1. r \in Nat /\ t * r <= a /\ a < t * r + t
  BY DivBounds
<1> HIDE DEF r
<1>2. ~(r < q)
  <2> SUFFICES ASSUME r < q PROVE FALSE
    OBVIOUS
  <2>1. t * (r + 1) <= t * q
    BY <1>1
  <2> QED BY <2>1, <1>1
<1>3. ~(q < r)
  <2> SUFFICES ASSUME q < r PROVE FALSE
    OBVIOUS
  <2>1. t * (q + 1) <= t * r
    BY <1>1
  <2> QED BY <2>1, <1>1
<1> QED BY <1>1, <1>2, <1>3 DEF r

\* Division is monotonic.
LEMMA DivMonotonic ==
  ASSUME NEW t \in Nat \ {0}, NEW a \in Nat, NEW b \in Nat, a <= b
  PROVE  a \div t <= b \div t
<1> DEFINE q == a \div t
           r == b \div t
<1>1. q \in Nat /\ t * q <= a /\ a < t * q + t
  BY DivBounds
<1>2. r \in Nat /\ t * r <= b /\ b < t * r + t
  BY DivBounds
<1> HIDE DEF q, r
<1> SUFFICES ASSUME r < q PROVE FALSE
  BY <1>1, <1>2 DEF q, r
<1>3. t * (r + 1) <= t * q
  BY <1>1, <1>2
<1> QED BY <1>1, <1>2, <1>3

\* Adding m divisors adds m to the quotient.
LEMMA DivPlus ==
  ASSUME NEW t \in Nat \ {0}, NEW a \in Nat, NEW m \in Nat
  PROVE  (a + m * t) \div t = (a \div t) + m
<1> DEFINE q == a \div t
<1>1. q \in Nat /\ t * q <= a /\ a < t * q + t
  BY DivBounds
<1> HIDE DEF q
<1>2. t * (q + m) = t * q + m * t
  BY <1>1
<1>3. m * t \in Nat
  OBVIOUS
<1>4. /\ a + m * t \in Nat /\ q + m \in Nat
      /\ t * (q + m) <= a + m * t /\ a + m * t < t * (q + m) + t
  BY <1>1, <1>2, <1>3
<1>5. (a + m * t) \div t = q + m
  BY <1>4, DivUnique
<1> QED BY <1>5 DEF q

\* Two numbers less than k apart with the same remainder are equal.
LEMMA ModClose ==
  ASSUME NEW k \in Nat \ {0}, NEW x \in Nat, NEW y \in Nat,
         x % k = y % k, x <= y, y < x + k
  PROVE  x = y
<1> DEFINE q == x \div k
           r == y \div k
<1>1. q \in Nat /\ r \in Nat
  BY DivBounds
<1>2. x = k * q + (x % k) /\ y = k * r + (y % k)
  OBVIOUS
<1> HIDE DEF q, r
<1>3. x % k \in Nat
  OBVIOUS
<1>4. k * r - k * q >= 0 /\ k * r - k * q < k
  BY <1>1, <1>2, <1>3
<1>5. ~(r > q)
  <2> SUFFICES ASSUME r > q PROVE FALSE
    OBVIOUS
  <2>1. k * (q + 1) <= k * r
    BY <1>1
  <2> QED BY <2>1, <1>1, <1>4
<1>6. ~(q > r)
  <2> SUFFICES ASSUME q > r PROVE FALSE
    OBVIOUS
  <2>1. k * (r + 1) <= k * q
    BY <1>1
  <2> QED BY <2>1, <1>1, <1>4
<1> QED BY <1>1, <1>2, <1>5, <1>6

\* The remainder of a number below twice the divisor.
LEMMA ModOnce ==
  ASSUME NEW k \in Nat \ {0}, NEW a \in 0..(2 * k - 1)
  PROVE  a % k = IF a < k THEN a ELSE a - k
<1>1. CASE a < k
  <2>1. a \div k = 0
    BY <1>1, DivUnique
  <2> QED BY <1>1, <2>1
<1>2. CASE ~(a < k)
  <2>1. a \div k = 1
    BY <1>2, DivUnique
  <2>2. a = k * (a \div k) + (a % k)
    OBVIOUS
  <2> QED BY <1>2, <2>1, <2>2
<1> QED BY <1>1, <1>2

\* The remainder of the next number.
LEMMA ModSucc ==
  ASSUME NEW k \in Nat \ {0}, NEW x \in Nat
  PROVE  /\ x % k \in 0..(k - 1)
         /\ (x + 1) % k = 0 \/ (x + 1) % k = (x % k) + 1
<1> DEFINE q == x \div k
           r == x % k
           y == x + 1
<1>1. q \in Nat /\ r \in 0..(k - 1) /\ x = k * q + r
  BY DivBounds
<1>2. y \in Nat /\ y = k * (y \div k) + (y % k)
  BY DivBounds
<1> HIDE DEF q, r
<1>3. CASE r + 1 < k
  <2>1. k * q <= y /\ y < k * q + k
    BY <1>1, <1>3
  <2> HIDE DEF y
  <2>2. y \div k = q
    BY <1>1, <1>2, <2>1, DivUnique
  <2>3. y % k = y - k * q
    BY <1>1, <1>2, <2>2
  <2>4. y - k * q = r + 1
    BY <1>1 DEF y
  <2> QED BY <1>1, <2>3, <2>4 DEF y, r
<1>4. CASE ~(r + 1 < k)
  <2>1. r = k - 1
    BY <1>1, <1>4
  <2>2. k * (q + 1) = k * q + k
    BY <1>1
  <2>3. q + 1 \in Nat /\ y = k * (q + 1)
    BY <1>1, <2>1, <2>2
  <2> HIDE DEF y
  <2>4. y \div k = q + 1
    BY <1>2, <2>3, DivUnique
  <2>5. y % k = 0
    BY <1>1, <1>2, <2>3, <2>4
  <2> QED BY <1>1, <2>5 DEF y, r
<1> QED BY <1>3, <1>4

-----------------------------------------------------------------------------
(* Induction                                                               *)

\* A set of natural numbers has a least one.
LEMMA LeastNatural ==
  ASSUME NEW S, S \subseteq Nat, S # {}
  PROVE  \E k \in S : \A j \in S : k <= j
<1>1. PICK k \in S : \A j \in S : ~ (<<j, k>> \in OpToRel(<, Nat))
  BY NatLessThanWellFounded, WFMin
<1>2. ASSUME NEW j \in S PROVE k <= j
  <2>1. ~ (<<j, k>> \in OpToRel(<, Nat))
    BY <1>1
  <2>2. j \in Nat /\ k \in Nat
    OBVIOUS
  <2>3. ~ (j < k)
    BY <2>1, <2>2 DEF OpToRel
  <2> QED BY <2>2, <2>3
<1> QED BY <1>2

\* A set with 0 and with the successors of its members has all natural numbers.
LEMMA NatInduct ==
  ASSUME NEW G, 0 \in G, \A n \in Nat : n \in G => n + 1 \in G
  PROVE  \A n \in Nat : n \in G
<1> DEFINE B == {n \in Nat : n \notin G}
<1> SUFFICES ASSUME B # {} PROVE FALSE
  OBVIOUS
<1>1. B \subseteq Nat
  OBVIOUS
<1>2. PICK k \in B : \A j \in B : k <= j
  BY <1>1, LeastNatural, Zenon
<1>3. k \in Nat /\ k # 0 /\ k \notin G
  OBVIOUS
<1>4. k - 1 \in Nat /\ ~(k <= k - 1)
  BY <1>3
<1>5. k - 1 \in G
  BY <1>2, <1>4
<1>6. (k - 1) + 1 \in G
  BY <1>4, <1>5
<1> QED BY <1>3, <1>6

-----------------------------------------------------------------------------
(* Sums over finite sets, by the recursion of MapThenFoldSet               *)

Pick(s) == CHOOSE x \in s : TRUE

\* it holds the sums of the numbers F[x] over the subsets of S.
IsSum(it, F, S) ==
  it = [s \in SUBSET S |-> IF s = {} THEN 0 ELSE F[Pick(s)] + it[s \ {Pick(s)}]]

Total(F, S) == (CHOOSE it : IsSum(it, F, S))[S]

\* What taking a set's element away leaves.
LEMMA PickOne ==
  ASSUME NEW S, IsFiniteSet(S), NEW x \in S
  PROVE  /\ IsFiniteSet(S \ {x}) /\ Cardinality(S) \in Nat \ {0}
         /\ Cardinality(S \ {x}) = Cardinality(S) - 1
<1>1. Cardinality(S) \in Nat /\ (Cardinality(S) = 0 <=> S = {})
  BY FS_CardinalityType, FS_EmptySet
<1>2. IsFiniteSet(S \ {x}) /\ Cardinality(S \ {x}) = Cardinality(S) - 1
  BY FS_RemoveElement
<1> QED BY <1>1, <1>2

LEMMA PickIn == ASSUME NEW s, s # {} PROVE Pick(s) \in s
BY DEF Pick

\* Two sum functions agree wherever their numbers do.
LEMMA SumUnique ==
  ASSUME NEW S, NEW T, NEW F, NEW G, NEW it, NEW jt, IsSum(it, F, S), IsSum(jt, G, T)
  PROVE  \A R \in (SUBSET S) \cap (SUBSET T) :
           IsFiniteSet(R) /\ (\A x \in R : F[x] = G[x]) => it[R] = jt[R]
<1> DEFINE P(R) == IsFiniteSet(R) /\ (\A x \in R : F[x] = G[x]) => it[R] = jt[R]
           N == {n \in Nat : \A R \in (SUBSET S) \cap (SUBSET T) :
                               Cardinality(R) = n => P(R)}
<1>1. 0 \in N
  <2> SUFFICES ASSUME NEW R \in (SUBSET S) \cap (SUBSET T), Cardinality(R) = 0, IsFiniteSet(R)
               PROVE  it[R] = jt[R]
    OBVIOUS
  <2>1. R = {}
    BY FS_EmptySet
  <2> QED BY <2>1 DEF IsSum
<1>2. ASSUME NEW n \in Nat, n \in N PROVE n + 1 \in N
  <2> SUFFICES ASSUME NEW R \in (SUBSET S) \cap (SUBSET T), Cardinality(R) = n + 1, IsFiniteSet(R),
                      \A x \in R : F[x] = G[x]
               PROVE  it[R] = jt[R]
    OBVIOUS
  <2>1. R # {}
    BY FS_EmptySet
  <2> DEFINE x == Pick(R)
             Q == R \ {x}
  <2>2. x \in R
    BY <2>1, PickIn
  <2>3. IsFiniteSet(Q) /\ Cardinality(Q) = n
    BY <2>2, PickOne
  <2>4. it[Q] = jt[Q]
    BY <1>2, <2>3
  <2>5. it[R] = F[x] + it[Q] /\ jt[R] = G[x] + jt[Q]
    BY <2>1 DEF IsSum
  <2> QED BY <2>2, <2>4, <2>5
<1>3. \A n \in Nat : n \in N
  <2> HIDE DEF N
  <2> QED BY <1>1, <1>2, NatInduct
<1> QED BY <1>3, FS_CardinalityType

\* There is a sum function for every finite set of numbers.
LEMMA SumExists ==
  ASSUME NEW S, IsFiniteSet(S), NEW F, \A x \in S : F[x] \in Int
  PROVE  \E it \in [SUBSET S -> Int] : IsSum(it, F, S)
<1> DEFINE Small(n) == {s \in SUBSET S : Cardinality(s) <= n}
           Upto(it, n) == \A s \in Small(n) :
                            it[s] = IF s = {} THEN 0 ELSE F[Pick(s)] + it[s \ {Pick(s)}]
           N == {n \in Nat : \E it \in [Small(n) -> Int] : Upto(it, n)}
<1>1. \A s \in SUBSET S : IsFiniteSet(s) /\ Cardinality(s) \in Nat
  BY FS_Subset, FS_CardinalityType
<1>2. 0 \in N
  <2> DEFINE it == [s \in Small(0) |-> 0]
  <2>1. \A s \in Small(0) : s = {}
    BY <1>1, FS_EmptySet
  <2>2. it \in [Small(0) -> Int] /\ Upto(it, 0)
    BY <2>1
  <2> QED BY <2>2
<1>3. ASSUME NEW n \in Nat, n \in N PROVE n + 1 \in N
  <2>1. PICK it \in [Small(n) -> Int] : Upto(it, n)
    BY <1>3
  <2> DEFINE jt == [s \in Small(n + 1) |-> IF s = {} THEN 0 ELSE F[Pick(s)] + it[s \ {Pick(s)}]]
  <2>2. ASSUME NEW s \in Small(n + 1), s # {}
        PROVE  Pick(s) \in S /\ s \ {Pick(s)} \in Small(n)
    <3>1. Pick(s) \in s
      BY <2>2, PickIn
    <3>2. Cardinality(s \ {Pick(s)}) = Cardinality(s) - 1
      BY <1>1, <3>1, PickOne
    <3> QED BY <1>1, <3>1, <3>2
  <2>3. jt \in [Small(n + 1) -> Int]
    BY <2>2
  <2>4. \A s \in Small(n) : s \in Small(n + 1) /\ jt[s] = it[s]
    BY <1>1, <2>1
  <2>5. Upto(jt, n + 1)
    BY <2>2, <2>4
  <2> HIDE DEF jt, Small, Upto
  <2>6. \E kt \in [Small(n + 1) -> Int] : Upto(kt, n + 1)
    BY <2>3, <2>5
  <2> QED BY <2>6
<1>4. \A n \in Nat : n \in N
  <2> HIDE DEF N
  <2> QED BY <1>2, <1>3, NatInduct
<1>5. Cardinality(S) \in N
  BY <1>1, <1>4
<1>6. PICK it \in [Small(Cardinality(S)) -> Int] : Upto(it, Cardinality(S))
  BY <1>5
<1>7. Small(Cardinality(S)) = SUBSET S
  BY FS_Subset
<1> HIDE DEF Small
<1>8. it \in [SUBSET S -> Int] /\ IsSum(it, F, S)
  BY <1>6, <1>7 DEF IsSum
<1> QED BY <1>8

\* The sum of a finite set of numbers is what any sum function says.
LEMMA TotalIs ==
  ASSUME NEW S, IsFiniteSet(S), NEW F, \A x \in S : F[x] \in Int,
         NEW T, NEW G, NEW it, IsSum(it, G, T), S \subseteq T, \A x \in S : F[x] = G[x]
  PROVE  Total(F, S) = it[S] /\ Total(F, S) \in Int
<1> DEFINE jt == CHOOSE z : IsSum(z, F, S)
<1>1. PICK kt \in [SUBSET S -> Int] : IsSum(kt, F, S)
  BY SumExists
<1>2. IsSum(jt, F, S)
  BY <1>1, Zenon
<1>3. Total(F, S) = jt[S]
  BY DEF Total
<1> HIDE DEF jt
<1>4. jt[S] = it[S]
  BY <1>2, SumUnique
<1>5. jt[S] = kt[S]
  BY <1>1, <1>2, SumUnique
<1> QED BY <1>1, <1>3, <1>4, <1>5

LEMMA TotalOf ==
  ASSUME NEW S, IsFiniteSet(S), NEW F, \A x \in S : F[x] \in Int, NEW it, IsSum(it, F, S)
  PROVE  Total(F, S) = it[S]
<1>1. S \subseteq S /\ \A x \in S : F[x] = F[x]
  OBVIOUS
<1> QED BY <1>1, TotalIs

LEMMA TotalInt ==
  ASSUME NEW S, IsFiniteSet(S), NEW F, \A x \in S : F[x] \in Int
  PROVE  Total(F, S) \in Int
<1>1. PICK it \in [SUBSET S -> Int] : IsSum(it, F, S)
  BY SumExists
<1> QED BY <1>1, TotalIs

LEMMA TotalAgree ==
  ASSUME NEW S, IsFiniteSet(S), NEW F, \A x \in S : F[x] \in Int, NEW G, \A x \in S : F[x] = G[x]
  PROVE  Total(F, S) = Total(G, S)
<1>1. PICK it \in [SUBSET S -> Int] : IsSum(it, G, S)
  BY SumExists
<1> QED BY <1>1, TotalIs

LEMMA TotalEmpty == ASSUME NEW F PROVE Total(F, {}) = 0
<1>1. IsFiniteSet({})
  BY FS_EmptySet
<1>2. PICK it \in [SUBSET {} -> Int] : IsSum(it, F, {})
  BY <1>1, SumExists
<1>3. Total(F, {}) = it[{}]
  BY <1>1, <1>2, TotalIs
<1>4. it[{}] = 0
  BY <1>2 DEF IsSum
<1> QED BY <1>3, <1>4

\* The element that the recursion picks.
LEMMA TotalPick ==
  ASSUME NEW S, IsFiniteSet(S), S # {}, NEW F, \A x \in S : F[x] \in Int
  PROVE  Total(F, S) = F[Pick(S)] + Total(F, S \ {Pick(S)})
<1> DEFINE x == Pick(S)
           R == S \ {x}
<1>1. PICK it \in [SUBSET S -> Int] : IsSum(it, F, S)
  BY SumExists
<1>2. x \in S
  BY PickIn
<1>3. IsFiniteSet(R) /\ R \subseteq S
  BY <1>2, PickOne
<1>4. it[S] = F[x] + it[R]
  BY <1>1 DEF IsSum
<1> HIDE DEF x, R
<1>5. Total(F, S) = it[S] /\ Total(F, R) = it[R]
  BY <1>1, <1>3, TotalIs
<1>6. Total(F, S) = F[x] + Total(F, R)
  BY <1>4, <1>5
<1> QED BY <1>6 DEF x, R

\* Any element can be taken out of a sum.
LEMMA TotalSplit ==
  ASSUME NEW S, IsFiniteSet(S), NEW F, \A x \in S : F[x] \in Int, NEW y \in S
  PROVE  Total(F, S) = F[y] + Total(F, S \ {y})
<1> DEFINE P(R) == \A x \in R : Total(F, R) = F[x] + Total(F, R \ {x})
           N == {n \in Nat : \A R \in SUBSET S : Cardinality(R) = n => P(R)}
<1>1. \A R \in SUBSET S : /\ IsFiniteSet(R) /\ Cardinality(R) \in Nat
                          /\ \A x \in R : F[x] \in Int
  BY FS_Subset, FS_CardinalityType
<1>2. 0 \in N
  <2>1. ASSUME NEW R \in SUBSET S, Cardinality(R) = 0 PROVE R = {}
    BY <1>1, <2>1, FS_EmptySet
  <2> QED BY <2>1
<1>3. ASSUME NEW n \in Nat, n \in N PROVE n + 1 \in N
  <2>1. ASSUME NEW R \in SUBSET S, Cardinality(R) = n + 1, NEW x \in R
        PROVE  Total(F, R) = F[x] + Total(F, R \ {x})
    <3> DEFINE z == Pick(R)
    <3>1. z \in R /\ IsFiniteSet(R)
      BY <1>1, <2>1, PickIn
    <3>2. Total(F, R) = F[z] + Total(F, R \ {z})
      BY <1>1, <2>1, TotalPick
    <3> HIDE DEF z
    <3>3. CASE x = z
      BY <3>2, <3>3
    <3>4. CASE x # z
      <4> DEFINE Q == R \ {z}
                 U == R \ {x}
      <4>1. x \in Q /\ z \in U /\ Q \in SUBSET S /\ U \in SUBSET S
        BY <2>1, <3>1, <3>4
      <4>2. Cardinality(Q) = n /\ Cardinality(U) = n
        BY <2>1, <3>1, PickOne
      <4>3. P(Q) /\ P(U)
        BY <1>3, <4>1, <4>2
      <4>4. Total(F, Q) = F[x] + Total(F, Q \ {x}) /\ Total(F, U) = F[z] + Total(F, U \ {z})
        BY <4>1, <4>3
      <4>5. Q \ {x} = U \ {z}
        OBVIOUS
      <4>6. Total(F, Q \ {x}) \in Int /\ F[x] \in Int /\ F[z] \in Int
        <5>1. Q \ {x} \in SUBSET S
          BY <4>1
        <5> QED BY <1>1, <2>1, <3>1, <5>1, TotalInt
      <4> DEFINE V == Total(F, Q \ {x})
      <4>7. Total(F, R) = F[z] + Total(F, Q) /\ Total(F, Q) = F[x] + V /\ Total(F, U) = F[z] + V
        BY <3>2, <4>4, <4>5
      <4>8. V \in Int
        BY <4>6
      <4> HIDE DEF V, Q
      <4>9. Total(F, R) = F[x] + Total(F, U)
        BY <4>6, <4>7, <4>8
      <4> QED BY <4>9
    <3> QED BY <3>3, <3>4
  <2> QED BY <2>1
<1>4. \A n \in Nat : n \in N
  <2> HIDE DEF N
  <2> QED BY <1>2, <1>3, NatInduct
<1>5. Cardinality(S) \in N /\ S \in SUBSET S
  BY <1>1, <1>4
<1>6. P(S)
  BY <1>5
<1> QED BY <1>6

LEMMA TotalOne ==
  ASSUME NEW F, NEW x, F[x] \in Int
  PROVE  Total(F, {x}) = F[x]
<1>1. IsFiniteSet({x}) /\ {x} \ {x} = {}
  BY FS_Singleton
<1>2. Total(F, {x}) = F[x] + Total(F, {x} \ {x})
  BY <1>1, TotalSplit
<1> QED BY <1>1, <1>2, TotalEmpty

\* A larger set of natural numbers has a larger sum.
LEMMA TotalMonotonic ==
  ASSUME NEW S, IsFiniteSet(S), NEW F, \A x \in S : F[x] \in Nat, NEW R \in SUBSET S
  PROVE  Total(F, R) <= Total(F, S)
<1> DEFINE N == {n \in Nat : \A T \in SUBSET S : R \subseteq T /\ Cardinality(T \ R) = n
                               => Total(F, R) <= Total(F, T)}
<1>0. \A x \in S : F[x] \in Int
  OBVIOUS
<1>1. \A T \in SUBSET S : /\ IsFiniteSet(T) /\ (\A x \in T : F[x] \in Int) /\ Total(F, T) \in Int
                          /\ IsFiniteSet(T \ R) /\ Cardinality(T \ R) \in Nat
  <2>1. ASSUME NEW T \in SUBSET S PROVE IsFiniteSet(T) /\ \A x \in T : F[x] \in Int
    BY <1>0, FS_Subset
  <2>2. ASSUME NEW T \in SUBSET S PROVE Total(F, T) \in Int
    BY <2>1, TotalInt
  <2>3. ASSUME NEW T \in SUBSET S PROVE IsFiniteSet(T \ R) /\ Cardinality(T \ R) \in Nat
    BY FS_Subset, FS_CardinalityType
  <2> QED BY <2>1, <2>2, <2>3
<1>2. 0 \in N
  <2>1. ASSUME NEW T \in SUBSET S, R \subseteq T, Cardinality(T \ R) = 0 PROVE T = R
    <3>1. T \ R = {}
      BY <1>1, <2>1, FS_EmptySet
    <3> QED BY <2>1, <3>1
  <2>2. Total(F, R) <= Total(F, R)
    <3>1. Total(F, R) \in Int
      BY <1>1
    <3> QED BY <3>1
  <2>3. ASSUME NEW T \in SUBSET S, R \subseteq T, Cardinality(T \ R) = 0
        PROVE  Total(F, R) <= Total(F, T)
    BY <2>1, <2>2, <2>3
  <2> QED BY <2>3
<1>3. ASSUME NEW n \in Nat, n \in N PROVE n + 1 \in N
  <2>1. ASSUME NEW T \in SUBSET S, R \subseteq T, Cardinality(T \ R) = n + 1
        PROVE  Total(F, R) <= Total(F, T)
    <3>1. T \ R # {}
      <4>1. Cardinality({}) = 0 /\ n + 1 # 0
        BY FS_EmptySet
      <4> QED BY <2>1, <4>1
    <3>2. PICK x \in T \ R : TRUE
      BY <3>1
    <3> DEFINE Q == T \ {x}
    <3>3. R \subseteq Q /\ Q \in SUBSET S /\ Q \ R = (T \ R) \ {x}
      BY <2>1
    <3>4. Cardinality(Q \ R) = n
      <4>1. IsFiniteSet(T \ R)
        BY <1>1, <2>1
      <4>2. Cardinality((T \ R) \ {x}) = Cardinality(T \ R) - 1
        BY <3>2, <4>1, PickOne
      <4>3. Cardinality(Q \ R) = Cardinality(T \ R) - 1
        BY <3>3, <4>2
      <4> HIDE DEF Q
      <4> QED BY <2>1, <4>3
    <3>5. Total(F, R) <= Total(F, Q)
      BY <1>3, <3>3, <3>4
    <3>6. Total(F, T) = F[x] + Total(F, Q)
      <4>1. IsFiniteSet(T) /\ (\A z \in T : F[z] \in Int) /\ x \in T
        BY <1>1
      <4> QED BY <4>1, TotalSplit
    <3>7. F[x] \in Nat /\ Total(F, R) \in Int /\ Total(F, Q) \in Int
      BY <1>1, <3>3
    <3> HIDE DEF Q
    <3> QED BY <3>5, <3>6, <3>7
  <2> QED BY <2>1
<1>4. \A n \in Nat : n \in N
  <2> HIDE DEF N
  <2> QED BY <1>2, <1>3, NatInduct
<1>5. Cardinality(S \ R) \in N /\ S \in SUBSET S
  BY <1>1, <1>4
<1> QED BY <1>5

\* Zeros do not count.
LEMMA TotalSupport ==
  ASSUME NEW S, IsFiniteSet(S), NEW F, \A x \in S : F[x] \in Int, NEW R \in SUBSET S,
         \A x \in S \ R : F[x] = 0
  PROVE  Total(F, R) = Total(F, S)
<1> DEFINE N == {n \in Nat : \A T \in SUBSET S : R \subseteq T /\ Cardinality(T \ R) = n
                               => Total(F, R) = Total(F, T)}
<1>1. \A T \in SUBSET S : /\ IsFiniteSet(T) /\ (\A x \in T : F[x] \in Int) /\ Total(F, T) \in Int
                          /\ IsFiniteSet(T \ R) /\ Cardinality(T \ R) \in Nat
  <2>1. ASSUME NEW T \in SUBSET S PROVE IsFiniteSet(T) /\ \A x \in T : F[x] \in Int
    BY FS_Subset
  <2>2. ASSUME NEW T \in SUBSET S PROVE Total(F, T) \in Int
    BY <2>1, TotalInt
  <2>3. ASSUME NEW T \in SUBSET S PROVE IsFiniteSet(T \ R) /\ Cardinality(T \ R) \in Nat
    BY FS_Subset, FS_CardinalityType
  <2> QED BY <2>1, <2>2, <2>3
<1>2. 0 \in N
  <2>1. ASSUME NEW T \in SUBSET S, R \subseteq T, Cardinality(T \ R) = 0 PROVE T = R
    <3>1. T \ R = {}
      BY <1>1, <2>1, FS_EmptySet
    <3> QED BY <2>1, <3>1
  <2> QED BY <2>1
<1>3. ASSUME NEW n \in Nat, n \in N PROVE n + 1 \in N
  <2>1. ASSUME NEW T \in SUBSET S, R \subseteq T, Cardinality(T \ R) = n + 1
        PROVE  Total(F, R) = Total(F, T)
    <3>1. T \ R # {}
      <4>1. Cardinality({}) = 0 /\ n + 1 # 0
        BY FS_EmptySet
      <4> QED BY <2>1, <4>1
    <3>2. PICK x \in T \ R : TRUE
      BY <3>1
    <3> DEFINE Q == T \ {x}
    <3>3. R \subseteq Q /\ Q \in SUBSET S /\ Q \ R = (T \ R) \ {x}
      BY <2>1
    <3>4. Cardinality(Q \ R) = n
      <4>1. IsFiniteSet(T \ R)
        BY <1>1, <2>1
      <4>2. Cardinality((T \ R) \ {x}) = Cardinality(T \ R) - 1
        BY <3>2, <4>1, PickOne
      <4>3. Cardinality(Q \ R) = Cardinality(T \ R) - 1
        BY <3>3, <4>2
      <4> HIDE DEF Q
      <4> QED BY <2>1, <4>3
    <3>5. Total(F, R) = Total(F, Q)
      BY <1>3, <3>3, <3>4
    <3>6. Total(F, T) = F[x] + Total(F, Q)
      <4>1. IsFiniteSet(T) /\ (\A z \in T : F[z] \in Int) /\ x \in T
        BY <1>1
      <4> QED BY <4>1, TotalSplit
    <3>7. F[x] = 0 /\ Total(F, Q) \in Int
      BY <1>1, <3>3
    <3> HIDE DEF Q
    <3> QED BY <3>5, <3>6, <3>7
  <2> QED BY <2>1
<1>4. \A n \in Nat : n \in N
  <2> HIDE DEF N
  <2> QED BY <1>2, <1>3, NatInduct
<1>5. Cardinality(S \ R) \in N /\ S \in SUBSET S
  BY <1>1, <1>4
<1> QED BY <1>5

\* When one number changes, the sum changes by as much.
LEMMA TotalMoves ==
  ASSUME NEW S, IsFiniteSet(S), NEW F, \A x \in S : F[x] \in Int,
         NEW G, \A x \in S : G[x] \in Int, NEW y \in S, \A x \in S \ {y} : F[x] = G[x]
  PROVE  Total(G, S) = Total(F, S) - F[y] + G[y]
<1> DEFINE R == S \ {y}
<1>1. IsFiniteSet(R) /\ R \subseteq S
  BY FS_Subset
<1>2. Total(F, S) = F[y] + Total(F, R) /\ Total(G, S) = G[y] + Total(G, R)
  BY TotalSplit
<1>3. Total(F, R) = Total(G, R) /\ Total(F, R) \in Int
  <2>1. (\A x \in R : F[x] \in Int) /\ \A x \in R : F[x] = G[x]
    OBVIOUS
  <2> HIDE DEF R
  <2> QED BY <1>1, <2>1, TotalAgree, TotalInt
<1> HIDE DEF R
<1>4. F[y] \in Int /\ G[y] \in Int
  OBVIOUS
<1> QED BY <1>2, <1>3, <1>4
=============================================================================
