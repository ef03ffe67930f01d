------------------------------- MODULE Lemmas -------------------------------
(***************************************************************************)
(* Facts about naturals, remainders, finite sets and folds that the proofs *)
(* of several components rest on.  The library's induction theorems take   *)
(* the predicate as an operator; here it is a set, {n \in Nat : ...},      *)
(* which the provers can instantiate.                                      *)
(***************************************************************************)
EXTENDS Integers, Sequences, SequencesExt, FiniteSetTheorems, TLAPS

CONSTANT apply(_, _, _)

\* Every non-empty set of naturals has a least element.
LEMMA LeastNatural ==
  ASSUME NEW T \in SUBSET Nat, T # {}
  PROVE  \E m \in T : \A k \in T : m <= k
<1> DEFINE R == OpToRel(<, Nat)
<1>1. \A x, y \in Nat : <<y, x>> \in R <=> y < x
  BY DEF OpToRel
<1>2. \E x \in T : \A y \in T : ~ (<<y, x>> \in R)
  BY NatLessThanWellFounded, WFMin, Zenon
<1> HIDE DEF R
<1>3. PICK x \in T : \A y \in T : ~ (y < x)
  BY <1>1, <1>2
<1>4. \A y \in T : x <= y
  BY <1>3
<1> QED
  BY <1>4

\* Induction: a set of naturals with 0 and the successor of each of its members
\* is Nat.
LEMMA SetInduction ==
  ASSUME NEW S \in SUBSET Nat, 0 \in S, \A n \in S : n + 1 \in S
  PROVE  S = Nat
<1> SUFFICES ASSUME Nat \ S # {} PROVE FALSE
  OBVIOUS
<1>1. PICK m \in Nat \ S : \A k \in Nat \ S : m <= k
  BY LeastNatural
<1>2. m - 1 \in S
  BY <1>1
<1> QED
  BY <1>1, <1>2

\* Induction over a finite set, for a set U of its subsets.
LEMMA FiniteInduction ==
  ASSUME NEW S, IsFiniteSet(S), NEW U \in SUBSET SUBSET S, {} \in U,
         \A T \in U : \A x \in S \ T : T \cup {x} \in U
  PROVE  S \in U
<1> DEFINE N == {n \in Nat : \A T \in SUBSET S : Cardinality(T) = n => T \in U}
<1>0. \A T \in SUBSET S : IsFiniteSet(T) /\ Cardinality(T) \in Nat
  BY FS_Subset, FS_CardinalityType
<1>1. 0 \in N
  BY <1>0, FS_EmptySet
<1>2. ASSUME NEW n \in N PROVE n + 1 \in N
  <2> SUFFICES ASSUME NEW T \in SUBSET S, Cardinality(T) = n + 1 PROVE T \in U
    OBVIOUS
  <2>1. PICK x \in T : TRUE
    BY <1>0, FS_EmptySet
  <2> DEFINE V == T \ {x}
  <2>2. V \in SUBSET S /\ Cardinality(V) = Cardinality(T) - 1
    BY <1>0, <2>1, FS_RemoveElement
  <2>3. Cardinality(V) = n
    BY <2>2
  <2>4. V \in U /\ x \in S \ V /\ T = V \cup {x}
    BY <2>1, <2>2, <2>3
  <2> QED
    BY <2>4
<1>3. N = Nat
  <2> HIDE DEF N
  <2>1. N \in SUBSET Nat
    BY DEF N
  <2> QED
    BY <1>1, <1>2, <2>1, SetInduction
<1> QED
  BY <1>0, <1>3

(***************************************************************************)
\* What % and \div compute for a positive divisor that is not a numeral.
LEMMA DivMod ==
  ASSUME NEW n \in Int, NEW m \in Nat \ {0}
  PROVE  /\ n % m \in 0 .. m - 1 /\ n \div m \in Int
         /\ n = (m * (n \div m)) + (n % m)
OBVIOUS

\* The remainder is the only one in range.
LEMMA ModUnique ==
  ASSUME NEW m \in Nat \ {0}, NEW a \in Int, NEW k \in Int,
         NEW r \in 0 .. m - 1, a = (m * k) + r
  PROVE  a % m = r
<1> DEFINE b == a % m
           j == a \div m
<1>1. b \in 0 .. m - 1 /\ a = (m * j) + b /\ j \in Int
  BY DivMod
<1> HIDE DEF b, j
<1>2. m * (k - j) = b - r
  BY <1>1
<1>3. k - j = 0
  <2>1. CASE k - j >= 1
    <3>1. m * (k - j) >= m
      BY <1>1, <2>1
    <3> QED
      BY <1>1, <1>2, <3>1
  <2>2. CASE k - j <= -1
    <3>1. m * (k - j) <= -m
      BY <1>1, <2>2
    <3> QED
      BY <1>1, <1>2, <3>1
  <2> QED
    BY <1>1, <2>1, <2>2
<1>4. b = r
  BY <1>1, <1>2, <1>3
<1> QED
  BY <1>4 DEF b

\* One step forward on a ring of m slots.
LEMMA ModSucc ==
  ASSUME NEW n \in Int, NEW m \in Nat \ {0}
  PROVE  (n + 1) % m = IF (n % m) + 1 = m THEN 0 ELSE (n % m) + 1
<1>1. n % m \in 0 .. m - 1 /\ n = (m * (n \div m)) + (n % m) /\ n \div m \in Int
  BY DivMod
<1> DEFINE r == n % m
           k == n \div m
<1> HIDE DEF r, k
<1>2. r \in 0 .. m - 1 /\ n = (m * k) + r /\ k \in Int
  BY <1>1 DEF r, k
<1>3. CASE r + 1 = m
  <2>1. n + 1 = (m * (k + 1)) + 0
    BY <1>2, <1>3
  <2>2. (n + 1) % m = 0
    BY <1>2, <2>1, ModUnique
  <2> QED
    BY <1>3, <2>2 DEF r
<1>4. CASE r + 1 # m
  <2>1. n + 1 = (m * k) + (r + 1) /\ r + 1 \in 0 .. m - 1
    BY <1>2, <1>4
  <2>2. (n + 1) % m = r + 1
    BY <1>2, <2>1, ModUnique
  <2> QED
    BY <1>4, <2>2 DEF r
<1> QED
  BY <1>3, <1>4

\* A number that is on the ring already is its own remainder.
LEMMA ModSmall ==
  ASSUME NEW m \in Nat \ {0}, NEW n \in 0 .. m - 1
  PROVE  n % m = n
<1>1. n = (m * 0) + n
  OBVIOUS
<1> QED
  BY <1>1, ModUnique
\* From slot a of a ring it is (b - a) % m steps to slot b.
LEMMA AcrossRing ==
  ASSUME NEW m \in Nat \ {0}, NEW a \in 0 .. m - 1, NEW b \in 0 .. m - 1
  PROVE  /\ (b - a) % m = (IF b >= a THEN b - a ELSE b - a + m)
         /\ (b - a) % m \in 0 .. m - 1 /\ (a + ((b - a) % m)) % m = b
<1> DEFINE d == IF b >= a THEN b - a ELSE b - a + m
<1>1. d \in 0 .. m - 1
  OBVIOUS
<1>2. (b - a) % m = d
  <2>1. b >= a => b - a = (m * 0) + d
    OBVIOUS
  <2>2. ~ (b >= a) => b - a = (m * (-1)) + d
    OBVIOUS
  <2>3. b - a \in Int /\ 0 \in Int /\ -1 \in Int
    OBVIOUS
  <2> HIDE DEF d
  <2> QED
    BY <1>1, <2>1, <2>2, <2>3, ModUnique
<1>3. (a + d) % m = b
  <2>1. a + d \in Int /\ 0 \in Int /\ 1 \in Int
    OBVIOUS
  <2>2. b >= a => a + d = (m * 0) + b
    OBVIOUS
  <2>3. ~ (b >= a) => a + d = (m * 1) + b
    OBVIOUS
  <2> HIDE DEF d
  <2> QED
    BY <2>1, <2>2, <2>3, ModUnique
<1> QED
  BY <1>1, <1>2, <1>3
\* The slot i steps beyond slot a of a ring.
LEMMA RingSlot ==
  ASSUME NEW m \in Nat \ {0}, NEW a \in 0 .. m - 1, NEW i \in 0 .. m
  PROVE  (a + i) % m = (IF a + i < m THEN a + i ELSE a + i - m)
<1>1. CASE a + i < m
  <2>1. a + i \in 0 .. m - 1
    BY <1>1
  <2> QED
    BY <1>1, <2>1, ModSmall
<1>2. CASE ~ (a + i < m)
  <2>1. a + i - m \in 0 .. m - 1 /\ a + i = (m * 1) + (a + i - m) /\ a + i \in Int /\ 1 \in Int
    BY <1>2
  <2> QED
    BY <1>2, <2>1, ModUnique
<1> QED
  BY <1>1, <1>2

(***************************************************************************)
(* Sets of naturals in increasing order.                                   *)
(***************************************************************************)
\* f lists the members of S, which are n + 1, in increasing order.
IsEnum(f, S, n) ==
  /\ n \in Nat /\ f \in [0 .. n -> S]
  /\ \A e \in S : \E k \in 0 .. n : f[k] = e
  /\ \A j, k \in 0 .. n : j < k => f[j] < f[k]

\* The member of S with k smaller ones.
Nth(S, k) == CHOOSE e \in S : Cardinality({d \in S : d < e}) = k

\* A set with 0 below a bound can be listed.
LEMMA EnumExists ==
  ASSUME NEW m \in Nat, NEW S \in SUBSET (0 .. m), 0 \in S
  PROVE  \E n \in Nat : \E f : IsEnum(f, S, n)
<1> DEFINE Listed(T) == \E n \in Nat : \E f : IsEnum(f, T, n)
           N == {k \in Nat : \A T \in SUBSET (0 .. k) : 0 \in T => Listed(T)}
<1>1. 0 \in N
  <2> SUFFICES ASSUME NEW T \in SUBSET (0 .. 0), 0 \in T PROVE Listed(T)
    OBVIOUS
  <2>1. IsEnum([k \in 0 .. 0 |-> 0], T, 0)
    BY DEF IsEnum
  <2> QED
    BY <2>1
<1>2. ASSUME NEW k \in N PROVE k + 1 \in N
  <2> SUFFICES ASSUME NEW T \in SUBSET (0 .. k + 1), 0 \in T PROVE Listed(T)
    OBVIOUS
  <2>0. k \in Nat
    OBVIOUS
  <2> DEFINE V == T \ {k + 1}
  <2>1. V \in SUBSET (0 .. k) /\ 0 \in V
    BY <2>0
  <2>2. Listed(V)
    BY <2>1
  <2>3. PICK n \in Nat : \E f : IsEnum(f, V, n)
    BY <2>2
  <2>4. PICK f : IsEnum(f, V, n)
    BY <2>3
  <2>5. CASE k + 1 \notin T
    <3>1. V = T
      BY <2>5
    <3> QED
      BY <2>2, <3>1
  <2>6. CASE k + 1 \in T
    <3> DEFINE g == [j \in 0 .. n + 1 |-> IF j = n + 1 THEN k + 1 ELSE f[j]]
    <3>1. /\ f \in [0 .. n -> V] /\ \A e \in V : \E j \in 0 .. n : f[j] = e
          /\ \A i, j \in 0 .. n : i < j => f[i] < f[j]
      BY <2>4 DEF IsEnum
    <3>2. ASSUME NEW j \in 0 .. n
          PROVE  g[j] = f[j] /\ f[j] \in V /\ f[j] \in T /\ f[j] < k + 1
      <4>1. f[j] \in V /\ f[j] \in T /\ f[j] \in 0 .. k
        BY <2>1, <3>1
      <4>2. j \in 0 .. n + 1 /\ j # n + 1
        OBVIOUS
      <4>3. f[j] < k + 1
        BY <2>0, <4>1
      <4> QED
        BY <4>1, <4>2, <4>3
    <3>3. g[n + 1] = k + 1 /\ g \in [0 .. n + 1 -> T]
      BY <2>6, <3>2
    <3> HIDE DEF g
    <3>4. ASSUME NEW e \in T PROVE \E j \in 0 .. n + 1 : g[j] = e
      <4>1. CASE e = k + 1
        BY <3>3, <4>1
      <4>2. CASE e \in V
        BY <3>1, <3>2, <4>2
      <4> QED
        BY <4>1, <4>2
    <3>5. ASSUME NEW i \in 0 .. n + 1, NEW j \in 0 .. n + 1, i < j
          PROVE  g[i] < g[j]
      <4>1. i \in 0 .. n
        BY <3>5
      <4>2. CASE j = n + 1
        BY <3>2, <3>3, <4>1, <4>2
      <4>3. CASE j # n + 1
        <5>1. j \in 0 .. n
          BY <4>3
        <5> QED
          BY <3>1, <3>2, <3>5, <4>1, <5>1
      <4> QED
        BY <4>2, <4>3
    <3>6. IsEnum(g, T, n + 1)
      BY <3>3, <3>4, <3>5 DEF IsEnum
    <3>7. n + 1 \in Nat
      OBVIOUS
    <3> QED
      BY <3>6, <3>7
  <2> QED
    BY <2>5, <2>6
<1>3. N = Nat
  <2> HIDE DEF N
  <2>1. N \in SUBSET Nat
    BY DEF N
  <2> QED
    BY <1>1, <1>2, <2>1, SetInduction
<1> QED
  BY <1>3

\* A listing of S numbers its members by how many are smaller.
LEMMA EnumNth ==
  ASSUME NEW S \in SUBSET Nat, NEW n, NEW f, IsEnum(f, S, n)
  PROVE  /\ IsFiniteSet(S) /\ Cardinality(S) = n + 1
         /\ \A k \in 0 .. n : Nth(S, k) = f[k]
<1>1. /\ n \in Nat /\ f \in [0 .. n -> S] /\ \A e \in S : \E j \in 0 .. n : f[j] = e
      /\ \A i, j \in 0 .. n : i < j => f[i] < f[j]
  BY DEF IsEnum
<1>2. \A j \in 0 .. n : f[j] \in S /\ f[j] \in Nat
  BY <1>1
<1> DEFINE Below(k) == {d \in S : d < f[k]}
           N == {k \in Nat : k <= n => IsFiniteSet(Below(k)) /\ Cardinality(Below(k)) = k}
<1>3. 0 \in N
  <2>1. Below(0) = {}
    <3> SUFFICES ASSUME NEW d \in S, d < f[0] PROVE FALSE
      OBVIOUS
    <3>1. PICK j \in 0 .. n : f[j] = d
      BY <1>1
    <3>2. 0 \in 0 .. n /\ (j = 0 \/ 0 < j)
      BY <1>1
    <3> QED
      BY <1>1, <1>2, <3>1, <3>2
  <2> QED
    BY <2>1, FS_EmptySet
<1>4. ASSUME NEW k \in N PROVE k + 1 \in N
  <2> SUFFICES ASSUME k + 1 <= n
               PROVE  IsFiniteSet(Below(k + 1)) /\ Cardinality(Below(k + 1)) = k + 1
    OBVIOUS
  <2>1. k \in 0 .. n /\ k + 1 \in 0 .. n /\ k \in Nat
    BY <1>1
  <2>2. IsFiniteSet(Below(k)) /\ Cardinality(Below(k)) = k
    BY <2>1
  <2>3. ASSUME NEW d \in S PROVE d < f[k + 1] <=> d < f[k] \/ d = f[k]
    <3>1. PICK j \in 0 .. n : f[j] = d
      BY <1>1
    <3>2. j < k \/ j = k \/ j = k + 1 \/ k + 1 < j
      BY <2>1
    <3>3. f[k] < f[k + 1]
      BY <1>1, <2>1
    <3>4. (j < k => f[j] < f[k]) /\ (k + 1 < j => f[k + 1] < f[j])
      BY <1>1, <2>1
    <3> QED
      BY <1>2, <2>1, <3>1, <3>2, <3>3, <3>4
  <2>4. Below(k + 1) = Below(k) \cup {f[k]} /\ f[k] \notin Below(k)
    <3>1. f[k] \in S /\ ~ (f[k] < f[k])
      BY <1>2, <2>1
    <3>2. \A d : d \in Below(k + 1) <=> d \in Below(k) \cup {f[k]}
      BY <2>3, <3>1, Zenon
    <3> QED
      BY <3>1, <3>2, Zenon
  <2> HIDE DEF Below
  <2> QED
    BY <2>1, <2>2, <2>4, FS_AddElement
<1>5. N = Nat
  <2> HIDE DEF N
  <2>1. N \in SUBSET Nat
    BY DEF N
  <2> QED
    BY <1>3, <1>4, <2>1, SetInduction
<1>6. ASSUME NEW k \in 0 .. n PROVE IsFiniteSet(Below(k)) /\ Cardinality(Below(k)) = k
  <2>1. k \in Nat /\ k <= n
    BY <1>1
  <2>2. k \in N
    BY <1>5, <2>1, Zenon
  <2> QED
    BY <2>1, <2>2, Zenon
<1>7. IsFiniteSet(S) /\ Cardinality(S) = n + 1
  <2>0. n \in 0 .. n
    BY <1>1
  <2>1. ASSUME NEW d \in S PROVE d < f[n] \/ d = f[n]
    <3>1. PICK j \in 0 .. n : f[j] = d
      BY <1>1
    <3> QED
      BY <1>1, <2>0, <3>1
  <2>2. S = Below(n) \cup {f[n]} /\ f[n] \notin Below(n)
    <3>1. f[n] \in S /\ ~ (f[n] < f[n])
      BY <1>2, <2>0
    <3>2. \A d : d \in S <=> d \in Below(n) \cup {f[n]}
      BY <2>1, <3>1, Zenon
    <3> QED
      BY <3>1, <3>2, Zenon
  <2>3. IsFiniteSet(Below(n)) /\ Cardinality(Below(n)) = n
    BY <1>6, <2>0
  <2> HIDE DEF Below
  <2> QED
    BY <1>1, <2>2, <2>3, FS_AddElement
<1>8. ASSUME NEW k \in 0 .. n PROVE Nth(S, k) = f[k]
  <2>1. f[k] \in S /\ Cardinality({d \in S : d < f[k]}) = k
    BY <1>2, <1>6
  <2>2. ASSUME NEW e \in S, Cardinality({d \in S : d < e}) = k PROVE e = f[k]
    <3>1. PICK j \in 0 .. n : f[j] = e
      BY <1>1
    <3>2. Cardinality({d \in S : d < e}) = j
      BY <1>6, <3>1
    <3> QED
      BY <2>2, <3>1, <3>2
  <2> QED
    BY <2>1, <2>2 DEF Nth
<1> QED
  BY <1>7, <1>8
(***************************************************************************)
(* The sum of a function over a finite set, as the community modules       *)
(* define it: some element first, then the sum of the others.              *)
(***************************************************************************)
Pick(s) == CHOOSE x \in s : TRUE

\* g[s] is the sum of f over s, for the subsets s of S.
IsSum(g, f, S) ==
  g = [s \in SUBSET S |-> IF s = {} THEN 0 ELSE f[Pick(s)] + g[s \ {Pick(s)}]]

SameOn(f, h, S) == \A x \in S : f[x] = h[x]
IntegersOn(f, S) == \A x \in S : f[x] \in Int

\* A finite set loses one element with each pick.
LEMMA PickOne ==
  ASSUME NEW S, IsFiniteSet(S), S # {}
  PROVE  /\ Pick(S) \in S /\ IsFiniteSet(S \ {Pick(S)})
         /\ Cardinality(S) \in Nat /\ Cardinality(S \ {Pick(S)}) = Cardinality(S) - 1
<1>1. Pick(S) \in S
  BY DEF Pick
<1> QED
  BY <1>1, FS_RemoveElement, FS_CardinalityType

\* There is such a function.
LEMMA SumExists ==
  ASSUME NEW S, IsFiniteSet(S), NEW f
  PROVE  \E g : IsSum(g, f, S)
<1> DEFINE T(n) == {s \in SUBSET S : Cardinality(s) <= n}
           Sums(g, n) ==
             /\ g = [s \in SUBSET S |-> g[s]]
             /\ \A s \in T(n) : g[s] = IF s = {} THEN 0 ELSE f[Pick(s)] + g[s \ {Pick(s)}]
           N == {n \in Nat : \E g : Sums(g, n)}
<1>0. \A s \in SUBSET S : IsFiniteSet(s) /\ Cardinality(s) \in Nat
  BY FS_Subset, FS_CardinalityType
<1>1. 0 \in N
  <2> DEFINE g == [s \in SUBSET S |-> 0]
  <2>1. \A s \in T(0) : s = {} /\ g[s] = 0
    BY <1>0, FS_EmptySet
  <2>2. Sums(g, 0)
    BY <2>1
  <2> QED
    BY <2>2
<1>2. ASSUME NEW n \in N PROVE n + 1 \in N
  <2>1. n \in Nat /\ \E g : Sums(g, n)
    OBVIOUS
  <2>2. PICK g : Sums(g, n)
    BY <2>1
  <2> DEFINE h == [s \in SUBSET S |->
                     IF Cardinality(s) <= n THEN g[s]
                     ELSE f[Pick(s)] + g[s \ {Pick(s)}]]
  <2>3. ASSUME NEW s \in T(n + 1)
        PROVE  h[s] = IF s = {} THEN 0 ELSE f[Pick(s)] + h[s \ {Pick(s)}]
    <3>1. CASE s = {}
      <4>1. Cardinality(s) <= n /\ s \in T(n)
        BY <2>1, <3>1, FS_EmptySet
      <4> QED
        BY <2>2, <3>1, <4>1
    <3>2. CASE s # {}
      <4> DEFINE u == s \ {Pick(s)}
      <4>1. u \in SUBSET S /\ Cardinality(u) <= n /\ Cardinality(s) \in Nat
        BY <1>0, <2>1, <2>3, <3>2, PickOne
      <4>2. h[u] = g[u]
        BY <4>1
      <4>3. h[s] = f[Pick(s)] + g[u]
        <5>1. CASE Cardinality(s) <= n
          <6>1. s \in T(n) /\ h[s] = g[s]
            BY <2>3, <5>1
          <6>2. g[s] = f[Pick(s)] + g[u]
            BY <2>2, <3>2, <6>1
          <6> QED
            BY <6>1, <6>2
        <5>2. CASE ~ (Cardinality(s) <= n)
          BY <2>3, <5>2
        <5> QED
          BY <5>1, <5>2
      <4> HIDE DEF h, u
      <4>4. h[s] = f[Pick(s)] + h[u]
        BY <4>2, <4>3
      <4> QED
        BY <3>2, <4>4 DEF u
    <3> QED
      BY <3>1, <3>2
  <2>4. h = [s \in SUBSET S |-> h[s]]
    OBVIOUS
  <2> HIDE DEF h
  <2>5. Sums(h, n + 1)
    BY <2>3, <2>4
  <2> HIDE DEF Sums
  <2> QED
    BY <2>1, <2>5
<1>3. N = Nat
  <2>1. N \in SUBSET Nat
    OBVIOUS
  <2> HIDE DEF N
  <2> QED
    BY <1>1, <1>2, <2>1, SetInduction
<1>4. Cardinality(S) \in N
  BY <1>3, FS_CardinalityType
<1>5. PICK g : Sums(g, Cardinality(S))
  BY <1>4
<1>6. \A s \in SUBSET S : s \in T(Cardinality(S))
  BY FS_Subset
<1>7. \A s \in SUBSET S : g[s] = IF s = {} THEN 0 ELSE f[Pick(s)] + g[s \ {Pick(s)}]
  BY <1>5, <1>6
<1>8. g = [s \in SUBSET S |-> g[s]]
  BY <1>5
<1> HIDE DEF T, Sums
<1>9. IsSum(g, f, S)
  BY <1>7, <1>8, Zenon DEF IsSum
<1> QED
  BY <1>9
\* The sum over a set depends on the function on that set and on nothing else.
LEMMA SumUnique ==
  ASSUME NEW S1, NEW S2, NEW T, IsFiniteSet(T), T \subseteq S1, T \subseteq S2,
         NEW f1, NEW f2, SameOn(f1, f2, T),
         NEW g1, IsSum(g1, f1, S1), NEW g2, IsSum(g2, f2, S2)
  PROVE  g1[T] = g2[T]
<1> DEFINE N == {n \in Nat : \A s \in SUBSET T : Cardinality(s) = n => g1[s] = g2[s]}
<1>0. \A s \in SUBSET T : /\ IsFiniteSet(s) /\ Cardinality(s) \in Nat
                          /\ s \in SUBSET S1 /\ s \in SUBSET S2
  BY FS_Subset, FS_CardinalityType
<1>1. /\ \A s \in SUBSET S1 : g1[s] = IF s = {} THEN 0 ELSE f1[Pick(s)] + g1[s \ {Pick(s)}]
      /\ \A s \in SUBSET S2 : g2[s] = IF s = {} THEN 0 ELSE f2[Pick(s)] + g2[s \ {Pick(s)}]
  BY DEF IsSum
<1>2. 0 \in N
  BY <1>0, <1>1, FS_EmptySet
<1>3. ASSUME NEW n \in N PROVE n + 1 \in N
  <2>1. n \in Nat /\ \A s \in SUBSET T : Cardinality(s) = n => g1[s] = g2[s]
    OBVIOUS
  <2> SUFFICES ASSUME NEW s \in SUBSET T, Cardinality(s) = n + 1 PROVE g1[s] = g2[s]
    BY <2>1
  <2> HIDE DEF N
  <2> DEFINE u == s \ {Pick(s)}
  <2>2. s # {}
    BY <1>0, <2>1, FS_EmptySet
  <2>3. Pick(s) \in T /\ u \in SUBSET T /\ Cardinality(u) = n
    BY <1>0, <2>1, <2>2, PickOne
  <2>4. g1[u] = g2[u] /\ f1[Pick(s)] = f2[Pick(s)]
    BY <2>1, <2>3 DEF SameOn
  <2>5. g1[s] = f1[Pick(s)] + g1[u] /\ g2[s] = f2[Pick(s)] + g2[u]
    BY <1>0, <1>1, <2>2
  <2> HIDE DEF u
  <2> QED
    BY <2>4, <2>5
<1>4. N = Nat
  <2>1. N \in SUBSET Nat
    OBVIOUS
  <2> HIDE DEF N
  <2> QED
    BY <1>2, <1>3, <2>1, SetInduction
<1>5. Cardinality(T) \in N /\ T \in SUBSET T
  BY <1>0, <1>4
<1> QED
  BY <1>5

\* The sums are integers, and any element may be taken out first.
LEMMA SumAny ==
  ASSUME NEW S, IsFiniteSet(S), NEW f, IntegersOn(f, S),
         NEW g, IsSum(g, f, S)
  PROVE  \A s \in SUBSET S : g[s] \in Int /\ \A x \in s : g[s] = f[x] + g[s \ {x}]
<1> DEFINE Ok(s) == g[s] \in Int /\ \A x \in s : g[s] = f[x] + g[s \ {x}]
           N == {n \in Nat : \A s \in SUBSET S : Cardinality(s) <= n => Ok(s)}
<1>0. \A s \in SUBSET S : IsFiniteSet(s) /\ Cardinality(s) \in Nat
  BY FS_Subset, FS_CardinalityType
<1>1. \A s \in SUBSET S : g[s] = IF s = {} THEN 0 ELSE f[Pick(s)] + g[s \ {Pick(s)}]
  BY DEF IsSum
<1>2. 0 \in N
  <2>1. \A s \in SUBSET S : Cardinality(s) <= 0 => s = {}
    BY <1>0, FS_EmptySet
  <2>2. Ok({})
    BY <1>1
  <2>3. \A s \in SUBSET S : Cardinality(s) <= 0 => Ok(s)
    BY <2>1, <2>2, Zenon
  <2> HIDE DEF Ok
  <2> QED
    BY <2>3
<1>3. ASSUME NEW n \in N PROVE n + 1 \in N
  <2>1. n \in Nat /\ \A s \in SUBSET S : Cardinality(s) <= n => Ok(s)
    OBVIOUS
  <2> SUFFICES ASSUME NEW s \in SUBSET S, Cardinality(s) <= n + 1 PROVE Ok(s)
    BY <2>1
  <2> HIDE DEF N
  <2>2. CASE s = {}
    <3>1. g[s] = 0
      BY <1>1, <2>2
    <3> QED
      BY <2>2, <3>1
  <2>3. CASE s # {}
    <3> DEFINE p == Pick(s)
               u == s \ {p}
    <3>1. p \in s /\ u \in SUBSET S /\ Cardinality(u) <= n
      BY <1>0, <2>1, <2>3, PickOne
    <3>2. g[s] = f[p] + g[u]
      BY <1>1, <2>3
    <3>3. g[u] \in Int /\ \A x \in u : g[u] = f[x] + g[u \ {x}]
      BY <2>1, <3>1
    <3> HIDE DEF p, u
    <3>4. g[s] \in Int
      BY <3>1, <3>2, <3>3 DEF IntegersOn
    <3>5. ASSUME NEW x \in s PROVE g[s] = f[x] + g[s \ {x}]
      <4>1. CASE x = p
        BY <3>2, <4>1 DEF u
      <4>2. CASE x # p
        <5> DEFINE v == s \ {x}
                   w == u \ {x}
        <5>1. x \in u /\ p \in v /\ v \in SUBSET S /\ v \ {p} = w
          BY <3>1, <4>2 DEF u
        <5>2. Cardinality(v) = Cardinality(s) - 1
          BY <1>0, FS_RemoveElement
        <5>3. Cardinality(v) <= n
          BY <1>0, <2>1, <5>2
        <5>4. Ok(v)
          BY <2>1, <5>1, <5>3
        <5>5. g[v] \in Int /\ g[v] = f[p] + g[w]
          BY <5>1, <5>4, Zenon
        <5>6. g[u] = f[x] + g[w] /\ w \in SUBSET S
          BY <3>1, <3>3, <5>1
        <5>7. g[w] \in Int
          <6>1. Cardinality(w) = Cardinality(u) - 1
            BY <1>0, <3>1, <5>1, FS_RemoveElement
          <6>2. Cardinality(w) <= n
            BY <1>0, <2>1, <3>1, <6>1
          <6> QED
            BY <2>1, <5>6, <6>2
        <5>8. f[x] \in Int /\ f[p] \in Int
          BY <3>1 DEF IntegersOn
        <5> HIDE DEF v, w, Ok
        <5>9. g[s] = f[x] + g[v]
          BY <3>2, <5>5, <5>6, <5>7, <5>8
        <5> QED
          BY <5>9 DEF v
      <4> QED
        BY <4>1, <4>2
    <3> QED
      BY <3>4, <3>5
  <2> QED
    BY <2>2, <2>3
<1>4. N = Nat
  <2>1. N \in SUBSET Nat
    OBVIOUS
  <2> HIDE DEF N
  <2> QED
    BY <1>2, <1>3, <2>1, SetInduction
<1> SUFFICES ASSUME NEW s \in SUBSET S PROVE Ok(s)
  OBVIOUS
<1>5. Cardinality(s) \in N /\ Cardinality(s) <= Cardinality(s)
  BY <1>0, <1>4
<1> QED
  BY <1>5
SumOver(f, S) == (CHOOSE g : IsSum(g, f, S))[S]

\* SumOver is the value of any such function.
LEMMA SumIs ==
  ASSUME NEW S, IsFiniteSet(S), NEW f
  PROVE  /\ \E g : IsSum(g, f, S) /\ SumOver(f, S) = g[S]
         /\ \A g : IsSum(g, f, S) => SumOver(f, S) = g[S]
<1> DEFINE G == CHOOSE g : IsSum(g, f, S)
<1>1. IsSum(G, f, S)
  BY SumExists
<1>2. SumOver(f, S) = G[S]
  BY DEF SumOver
<1> HIDE DEF G
<1>3. ASSUME NEW g, IsSum(g, f, S) PROVE G[S] = g[S]
  <2>1. S \subseteq S /\ SameOn(f, f, S)
    BY DEF SameOn
  <2> QED
    BY <1>1, <1>3, <2>1, SumUnique
<1> QED
  BY <1>1, <1>2, <1>3

\* The sum over a set depends on the function on that set.
LEMMA SumSame ==
  ASSUME NEW S, IsFiniteSet(S), NEW f1, NEW f2, \A x \in S : f1[x] = f2[x]
  PROVE  SumOver(f1, S) = SumOver(f2, S)
<1>1. PICK g : IsSum(g, f1, S) /\ SumOver(f1, S) = g[S]
  BY SumIs
<1>2. PICK h : IsSum(h, f2, S) /\ SumOver(f2, S) = h[S]
  BY SumIs
<1>3. S \subseteq S /\ SameOn(f1, f2, S)
  BY DEF SameOn
<1>4. g[S] = h[S]
  BY <1>1, <1>2, <1>3, SumUnique
<1> QED
  BY <1>1, <1>2, <1>4

\* The sum over no element.
LEMMA SumEmpty == ASSUME NEW f PROVE SumOver(f, {}) = 0
<1>1. PICK g : IsSum(g, f, {}) /\ SumOver(f, {}) = g[{}]
  BY SumIs, FS_EmptySet
<1> QED
  BY <1>1 DEF IsSum

\* Any element may be taken out of the sum.
LEMMA SumRemove ==
  ASSUME NEW S, IsFiniteSet(S), NEW f, \A x \in S : f[x] \in Int, NEW x \in S
  PROVE  /\ SumOver(f, S) \in Int /\ SumOver(f, S \ {x}) \in Int
         /\ SumOver(f, S) = f[x] + SumOver(f, S \ {x})
<1> DEFINE R == S \ {x}
<1>1. IsFiniteSet(R) /\ R \subseteq S /\ R \subseteq R /\ R \in SUBSET S /\ S \in SUBSET S
  BY FS_Subset
<1>2. PICK g : IsSum(g, f, S) /\ SumOver(f, S) = g[S]
  BY SumIs
<1> HIDE DEF R
<1>3. PICK h : IsSum(h, f, R) /\ SumOver(f, R) = h[R]
  BY <1>1, SumIs
<1>4. SameOn(f, f, R) /\ IntegersOn(f, S)
  BY DEF SameOn, IntegersOn
<1>5. g[R] = h[R]
  BY <1>1, <1>2, <1>3, <1>4, SumUnique
<1>6. \A s \in SUBSET S : g[s] \in Int /\ \A y \in s : g[s] = f[y] + g[s \ {y}]
  <2>1. IsFiniteSet(S) /\ IntegersOn(f, S) /\ IsSum(g, f, S)
    BY <1>2, <1>4
  <2> QED
    BY ONLY <2>1, SumAny
<1>7. g[S] = f[x] + g[R] /\ g[S] \in Int /\ g[R] \in Int
  BY <1>1, <1>6 DEF R
<1> QED
  BY <1>2, <1>3, <1>5, <1>7 DEF R

\* Any element may be added to the sum.
LEMMA SumAdd ==
  ASSUME NEW S, IsFiniteSet(S), NEW x, x \notin S,
         NEW f, \A y \in S \cup {x} : f[y] \in Int
  PROVE  /\ SumOver(f, S) \in Int /\ SumOver(f, S \cup {x}) \in Int
         /\ SumOver(f, S \cup {x}) = f[x] + SumOver(f, S)
<1> DEFINE T == S \cup {x}
<1>1. IsFiniteSet(T) /\ x \in T /\ T \ {x} = S
  BY FS_AddElement
<1> HIDE DEF T
<1>2. /\ SumOver(f, T) \in Int /\ SumOver(f, T \ {x}) \in Int
      /\ SumOver(f, T) = f[x] + SumOver(f, T \ {x})
  BY <1>1, SumRemove DEF T
<1> QED
  BY <1>1, <1>2 DEF T

\* The sum of naturals is a natural.
LEMMA SumNat ==
  ASSUME NEW S, IsFiniteSet(S), NEW f, \A x \in S : f[x] \in Nat
  PROVE  SumOver(f, S) \in Nat
<1> DEFINE U == {T \in SUBSET S : SumOver(f, T) \in Nat}
<1>1. {} \in U
  BY SumEmpty
<1>2. ASSUME NEW T \in U, NEW x \in S \ T PROVE T \cup {x} \in U
  <2>1. /\ IsFiniteSet(T) /\ x \notin T /\ \A y \in T \cup {x} : f[y] \in Int
        /\ SumOver(f, T) \in Nat /\ f[x] \in Nat /\ T \cup {x} \in SUBSET S
    BY FS_Subset
  <2>2. SumOver(f, T \cup {x}) = f[x] + SumOver(f, T)
    BY <2>1, SumAdd
  <2> QED
    BY <2>1, <2>2
<1>3. U \in SUBSET SUBSET S
  OBVIOUS
<1>4. S \in U
  <2> HIDE DEF U
  <2> QED
    BY <1>1, <1>2, <1>3, FiniteInduction
<1> QED
  BY <1>4

\* The sum of naturals over a part is no more than the sum over the whole.
LEMMA SumPart ==
  ASSUME NEW S, IsFiniteSet(S), NEW f, \A x \in S : f[x] \in Nat, NEW R \in SUBSET S
  PROVE  SumOver(f, R) <= SumOver(f, S)
<1> DEFINE U == {T \in SUBSET S : SumOver(f, R) <= SumOver(f, R \cup T)}
<1>0. \A T \in SUBSET S : IsFiniteSet(T) /\ SumOver(f, T) \in Nat
  BY FS_Subset, SumNat
<1>1. {} \in U
  <2>1. R \cup {} = R
    OBVIOUS
  <2> QED
    BY <1>0, <2>1
<1>2. ASSUME NEW T \in U, NEW x \in S \ T PROVE T \cup {x} \in U
  <2> DEFINE V == R \cup T
  <2>1. V \in SUBSET S /\ R \cup (T \cup {x}) = V \cup {x} /\ T \cup {x} \in SUBSET S
    OBVIOUS
  <2>2. SumOver(f, R) <= SumOver(f, V)
    OBVIOUS
  <2> HIDE DEF U, V
  <2>3. SumOver(f, V) <= SumOver(f, V \cup {x})
    <3>1. CASE x \in V
      <4>1. V \cup {x} = V
        BY <3>1
      <4> QED
        BY <1>0, <2>1, <4>1
    <3>2. CASE x \notin V
      <4>1. \A y \in V \cup {x} : f[y] \in Int
        BY <2>1
      <4>2. SumOver(f, V \cup {x}) = f[x] + SumOver(f, V)
        BY <1>0, <2>1, <3>2, <4>1, SumAdd
      <4> QED
        BY <1>0, <2>1, <4>2
    <3> QED
      BY <3>1, <3>2
  <2>4. SumOver(f, R) <= SumOver(f, V \cup {x})
    <3>1. V \cup {x} \in SUBSET S
      BY <2>1
    <3> QED
      BY <1>0, <2>1, <2>2, <2>3, <3>1
  <2> QED
    BY <2>1, <2>4 DEF U
<1>3. U \in SUBSET SUBSET S
  OBVIOUS
<1>4. S \in U
  <2> HIDE DEF U
  <2> QED
    BY <1>1, <1>2, <1>3, FiniteInduction
<1>5. R \cup S = S
  OBVIOUS
<1> QED
  BY <1>4, <1>5
\* A sum of zeros.
LEMMA SumZero ==
  ASSUME NEW S, IsFiniteSet(S), NEW f, \A x \in S : f[x] = 0
  PROVE  SumOver(f, S) = 0
<1> DEFINE U == {T \in SUBSET S : SumOver(f, T) = 0}
<1>1. {} \in U
  BY SumEmpty
<1>2. ASSUME NEW T \in U, NEW x \in S \ T PROVE T \cup {x} \in U
  <2>1. /\ IsFiniteSet(T) /\ x \notin T /\ \A y \in T \cup {x} : f[y] \in Int
        /\ SumOver(f, T) = 0 /\ f[x] = 0 /\ T \cup {x} \in SUBSET S
    BY FS_Subset
  <2>2. SumOver(f, T \cup {x}) = f[x] + SumOver(f, T)
    BY <2>1, SumAdd
  <2> QED
    BY <2>1, <2>2
<1>3. U \in SUBSET SUBSET S
  OBVIOUS
<1>4. S \in U
  <2> HIDE DEF U
  <2> QED
    BY <1>1, <1>2, <1>3, FiniteInduction
<1> QED
  BY <1>4

(***************************************************************************)
(* What FoldLeft computes, for any operator.  The operator, apply, is a    *)
(* constant of the module, so that a proof gets these facts for the        *)
(* operator it folds by an INSTANCE of the module.  Its first argument, p, *)
(* is what the operator knows beside the fold's value and the element.     *)
(***************************************************************************)
\* g is the function on the sets of positions that the definition of FoldLeft
\* chooses, for the first n elements of s.
IsFold(p, g, b, s, n) ==
  g = [t \in SUBSET (1 .. n) |->
         IF t = {} THEN b ELSE apply(p, g[t \ {Max(t)}], s[Max(t)])]

\* A non-empty set of positions has a greatest one.
LEMMA MaxPosition ==
  ASSUME NEW n \in Nat, NEW t \in SUBSET (1 .. n), t # {}
  PROVE  Max(t) \in t /\ \A y \in t : Max(t) >= y
<1> DEFINE D == {n - y : y \in t}
<1>0. \A y \in t : y \in Int /\ n - y \in Nat /\ n - y \in D
  OBVIOUS
<1>1. D \in SUBSET Nat /\ D # {}
  BY <1>0
<1>2. PICK m \in D : \A k \in D : m <= k
  <2> HIDE DEF D
  <2> QED
    BY <1>1, LeastNatural
<1>3. PICK x \in t : m = n - x
  BY <1>2
<1>4. \A y \in t : x >= y
  BY <1>0, <1>2, <1>3
<1> QED
  BY <1>3, <1>4 DEF Max

\* The positions up to n + 1 without the last.
LEMMA Positions ==
  ASSUME NEW n \in Nat
  PROVE  /\ n + 1 \in 1 .. n + 1 /\ 1 .. n + 1 # {}
         /\ (1 .. n + 1) \ {n + 1} = 1 .. n
<1>1. \A i : i \in (1 .. n + 1) \ {n + 1} <=> i \in 1 .. n
  OBVIOUS
<1>2. (1 .. n + 1) \ {n + 1} = 1 .. n
  BY <1>1, Zenon
<1> QED
  BY <1>2

\* The greatest position of a set that holds n + 1.
LEMMA MaxLast ==
  ASSUME NEW n \in Nat, NEW t \in SUBSET (1 .. n + 1), n + 1 \in t
  PROVE  Max(t) = n + 1
<1>1. n + 1 \in Nat /\ t # {}
  OBVIOUS
<1>2. Max(t) \in t /\ \A y \in t : Max(t) >= y
  BY <1>1, MaxPosition
<1>3. Max(t) \in 1 .. n + 1 /\ Max(t) >= n + 1
  BY <1>2
<1> QED
  BY <1>3

\* s and r have the same first n elements.
SameFirst(s, r, n) == \A i \in 1 .. n : s[i] = r[i]

\* The folds of n elements and of the same n and one more agree on the n.
LEMMA FoldsAgree ==
  ASSUME NEW p, NEW n \in Nat, NEW m, m = n + 1, NEW b, NEW s, NEW r, SameFirst(s, r, n),
         NEW g, IsFold(p, g, b, s, n), NEW h, IsFold(p, h, b, r, m)
  PROVE  g[1 .. n] = h[1 .. n]
<1> DEFINE N == {k \in Nat : k <= n => \A t \in SUBSET (1 .. k) : g[t] = h[t]}
<1>0. /\ \A t \in SUBSET (1 .. n) :
           g[t] = IF t = {} THEN b ELSE apply(p, g[t \ {Max(t)}], s[Max(t)])
      /\ \A t \in SUBSET (1 .. n) :
           h[t] = IF t = {} THEN b ELSE apply(p, h[t \ {Max(t)}], r[Max(t)])
  <2>1. SUBSET (1 .. n) \subseteq SUBSET (1 .. n + 1)
    OBVIOUS
  <2> QED
    BY <2>1 DEF IsFold
<1>1. 0 \in N
  <2>1. \A t \in SUBSET (1 .. 0) : t = {} /\ t \in SUBSET (1 .. n)
    OBVIOUS
  <2> QED
    BY <1>0, <2>1
<1>2. ASSUME NEW k \in N PROVE k + 1 \in N
  <2> SUFFICES ASSUME k + 1 <= n, NEW t \in SUBSET (1 .. k + 1) PROVE g[t] = h[t]
    OBVIOUS
  <2>1. \A u \in SUBSET (1 .. k) : g[u] = h[u]
    OBVIOUS
  <2>2. t \in SUBSET (1 .. n) /\ k \in Nat
    OBVIOUS
  <2>3. CASE k + 1 \notin t
    <3>1. t \in SUBSET (1 .. k)
      BY <2>3
    <3> QED
      BY <2>1, <3>1
  <2>4. CASE k + 1 \in t
    <3>1. Max(t) = k + 1
      BY <2>2, <2>4, MaxLast
    <3>2. t \ {k + 1} \in SUBSET (1 .. k) /\ t # {} /\ k + 1 \in 1 .. n
      BY <2>2, <2>4
    <3>3. g[t \ {k + 1}] = h[t \ {k + 1}] /\ s[k + 1] = r[k + 1]
      BY <2>1, <3>2 DEF SameFirst
    <3> HIDE DEF N
    <3> QED
      BY <1>0, <2>2, <3>1, <3>2, <3>3
  <2> QED
    BY <2>3, <2>4
<1>3. N = Nat
  <2>1. N \in SUBSET Nat
    OBVIOUS
  <2> HIDE DEF N
  <2> QED
    BY <1>1, <1>2, <2>1, SetInduction
<1>4. n \in N /\ 1 .. n \in SUBSET (1 .. n)
  BY <1>3
<1> QED
  BY <1>4

\* There is such a function, so the CHOOSE of the definition finds one.
LEMMA FoldExists ==
  ASSUME NEW p, NEW b, NEW s, NEW n \in Nat
  PROVE  \E g : IsFold(p, g, b, s, n)
<1> DEFINE N == {k \in Nat : \E g : IsFold(p, g, b, s, k)}
<1>1. 0 \in N
  <2> DEFINE g == [t \in SUBSET (1 .. 0) |-> b]
  <2>1. \A t \in SUBSET (1 .. 0) : t = {}
    OBVIOUS
  <2>2. IsFold(p, g, b, s, 0)
    BY <2>1 DEF IsFold
  <2> QED
    BY <2>2
<1>2. ASSUME NEW k \in N PROVE k + 1 \in N
  <2>1. PICK f : IsFold(p, f, b, s, k)
    OBVIOUS
  <2>0. k \in Nat
    OBVIOUS
  <2> DEFINE g == [t \in SUBSET (1 .. k + 1) |->
                     IF k + 1 \in t THEN apply(p, f[t \ {k + 1}], s[k + 1]) ELSE f[t]]
  <2> HIDE DEF N
  <2>2. ASSUME NEW t \in SUBSET (1 .. k + 1)
        PROVE  g[t] = IF t = {} THEN b ELSE apply(p, g[t \ {Max(t)}], s[Max(t)])
    <3>1. CASE k + 1 \in t
      <4>1. Max(t) = k + 1 /\ t # {}
        BY <2>0, <3>1, MaxLast
      <4>2. g[t] = apply(p, f[t \ {k + 1}], s[k + 1])
        BY <3>1
      <4>3. t \ {k + 1} \in SUBSET (1 .. k + 1) /\ k + 1 \notin t \ {k + 1}
        OBVIOUS
      <4>4. g[t \ {k + 1}] = f[t \ {k + 1}]
        BY <4>3
      <4> HIDE DEF g
      <4> QED
        BY <4>1, <4>2, <4>4
    <3>2. CASE k + 1 \notin t
      <4>1. t \in SUBSET (1 .. k) /\ g[t] = f[t]
        BY <2>0, <3>2
      <4>2. f[t] = IF t = {} THEN b ELSE apply(p, f[t \ {Max(t)}], s[Max(t)])
        BY <2>1, <4>1 DEF IsFold
      <4>3. t \ {Max(t)} \in SUBSET (1 .. k + 1) /\ k + 1 \notin t \ {Max(t)}
        BY <3>2
      <4>4. g[t \ {Max(t)}] = f[t \ {Max(t)}]
        BY <4>3
      <4> HIDE DEF g
      <4> QED
        BY <4>1, <4>2, <4>4
    <3> QED
      BY <3>1, <3>2
  <2>3. IsFold(p, g, b, s, k + 1)
    <3>1. g = [t \in SUBSET (1 .. k + 1) |-> g[t]]
      OBVIOUS
    <3> HIDE DEF g
    <3> QED
      BY <2>2, <3>1 DEF IsFold
  <2>4. \E h : IsFold(p, h, b, s, k + 1)
    BY <2>3
  <2> QED
    BY <2>0, <2>4 DEF N
<1>3. N = Nat
  <2>1. N \in SUBSET Nat
    OBVIOUS
  <2> HIDE DEF N
  <2> QED
    BY <1>1, <1>2, <2>1, SetInduction
<1> QED
  BY <1>3

\* The fold as an operator of its own, which the provers can instantiate.
Fold(p, b, s) == FoldLeft(LAMBDA x, y : apply(p, x, y), b, s)

\* FoldLeft is the value of such a function at all the positions.
LEMMA FoldIsFold ==
  ASSUME NEW p, NEW b, NEW s, NEW n \in Nat, DOMAIN s = 1 .. n
  PROVE  \E g : IsFold(p, g, b, s, n) /\ Fold(p, b, s) = g[1 .. n]
<1> DEFINE G == CHOOSE g : IsFold(p, g, b, s, n)
<1>1. IsFold(p, G, b, s, n)
  BY FoldExists
<1>2. Fold(p, b, s) = G[1 .. n]
  BY DEF Fold, FoldLeft, MapThenFoldSet, IsFold
<1> QED
  BY <1>1, <1>2

\* The fold's values after each element.
LEMMA FoldTrace ==
  ASSUME NEW p, NEW b, NEW s, NEW n \in Nat, DOMAIN s = 1 .. n
  PROVE  \E h : /\ h[0] = b /\ Fold(p, b, s) = h[n]
               /\ \A i \in 1 .. n : h[i] = apply(p, h[i - 1], s[i])
<1>1. PICK g : IsFold(p, g, b, s, n) /\ Fold(p, b, s) = g[1 .. n]
  BY FoldIsFold
<1> DEFINE h == [i \in 0 .. n |-> g[1 .. i]]
<1>2. h[0] = b
  <2>1. 1 .. 0 = {} /\ {} \in SUBSET (1 .. n)
    OBVIOUS
  <2> QED
    BY <1>1, <2>1 DEF IsFold
<1>3. ASSUME NEW i \in 1 .. n PROVE h[i] = apply(p, h[i - 1], s[i])
  <2> DEFINE k == i - 1
             t == 1 .. k + 1
  <2>0. k \in Nat /\ i = k + 1
    OBVIOUS
  <2>1. t \in SUBSET t /\ k + 1 \in t /\ t \in SUBSET (1 .. n) /\ t # {}
        /\ t \ {k + 1} = 1 .. k
    <3>1. t \in SUBSET (1 .. n)
      OBVIOUS
    <3> HIDE DEF k
    <3> QED
      BY <2>0, <3>1, Positions
  <2>5. h[i] = g[t] /\ h[i - 1] = g[1 .. k]
    OBVIOUS
  <2> HIDE DEF t, k, h
  <2>2. Max(t) = k + 1
    BY <2>0, <2>1, MaxLast DEF t
  <2>3. g[t] = apply(p, g[t \ {Max(t)}], s[Max(t)])
    BY <1>1, <2>1 DEF IsFold
  <2>4. g[t] = apply(p, g[1 .. k], s[k + 1])
    BY <2>1, <2>2, <2>3
  <2> QED
    BY <2>0, <2>4, <2>5
<1>4. h[n] = g[1 .. n]
  OBVIOUS
<1> HIDE DEF h
<1> QED
  BY <1>1, <1>2, <1>3, <1>4

\* The fold of the empty sequence.
LEMMA FoldEmpty == ASSUME NEW p, NEW b PROVE Fold(p, b, <<>>) = b
<1>1. DOMAIN <<>> = 1 .. 0 /\ 1 .. 0 = {} /\ {} \in SUBSET (1 .. 0)
  OBVIOUS
<1>2. PICK g : IsFold(p, g, b, <<>>, 0) /\ Fold(p, b, <<>>) = g[1 .. 0]
  BY <1>1, FoldIsFold
<1> QED
  BY <1>1, <1>2 DEF IsFold

\* One element more at the end is one application of the operator more.
LEMMA FoldAppend ==
  ASSUME NEW p, NEW E, NEW b, NEW s \in Seq(E), NEW x \in E
  PROVE  Fold(p, b, Append(s, x)) = apply(p, Fold(p, b, s), x)
<1> DEFINE n == Len(s)
           r == Append(s, x)
<1>1. /\ n \in Nat /\ n + 1 \in Nat /\ DOMAIN s = 1 .. n /\ DOMAIN r = 1 .. n + 1
      /\ r[n + 1] = x /\ \A i \in 1 .. n : s[i] = r[i]
  OBVIOUS
<1> HIDE DEF n, r
<1>2. PICK g : IsFold(p, g, b, s, n) /\ Fold(p, b, s) = g[1 .. n]
  BY <1>1, FoldIsFold
<1>3. PICK h : IsFold(p, h, b, r, n + 1) /\ Fold(p, b, r) = h[1 .. n + 1]
  BY <1>1, FoldIsFold
<1>4. g[1 .. n] = h[1 .. n]
  <2> DEFINE m == n + 1
  <2>1. n \in Nat /\ m = n + 1 /\ SameFirst(s, r, n)
    BY <1>1 DEF SameFirst
  <2>2. IsFold(p, g, b, s, n) /\ IsFold(p, h, b, r, m)
    BY <1>2, <1>3
  <2> HIDE DEF m
  <2> QED
    BY <2>1, <2>2, FoldsAgree
<1>5. Max(1 .. n + 1) = n + 1
  <2>1. 1 .. n + 1 \in SUBSET (1 .. n + 1) /\ n + 1 \in 1 .. n + 1
    BY <1>1
  <2> QED
    BY <1>1, <2>1, MaxLast
<1>6. h[1 .. n + 1] = apply(p, h[1 .. n], r[n + 1])
  <2>1. (1 .. n + 1) \ {n + 1} = 1 .. n /\ 1 .. n + 1 # {}
        /\ 1 .. n + 1 \in SUBSET (1 .. n + 1)
    BY <1>1, Positions
  <2>2. h[1 .. n + 1] = apply(p, h[(1 .. n + 1) \ {Max(1 .. n + 1)}], r[Max(1 .. n + 1)])
    BY <1>3, <2>1 DEF IsFold
  <2> QED
    BY <1>5, <2>1, <2>2
<1> QED
  BY <1>1, <1>2, <1>3, <1>4, <1>6 DEF r

\* A fold stays in a set that the operator does not leave.
LEMMA FoldType ==
  ASSUME NEW p, NEW E, NEW T, NEW b \in T, \A y \in T, e \in E : apply(p, y, e) \in T,
         NEW s \in Seq(E)
  PROVE  Fold(p, b, s) \in T
<1> DEFINE n == Len(s)
<1>1. n \in Nat /\ DOMAIN s = 1 .. n /\ \A i \in 1 .. n : s[i] \in E
  OBVIOUS
<1> HIDE DEF n
<1>2. PICK h : /\ h[0] = b /\ Fold(p, b, s) = h[n]
               /\ \A i \in 1 .. n : h[i] = apply(p, h[i - 1], s[i])
  BY <1>1, FoldTrace
<1> DEFINE N == {k \in Nat : k <= n => h[k] \in T}
<1>3. 0 \in N
  BY <1>2
<1>4. ASSUME NEW k \in N PROVE k + 1 \in N
  <2>1. k \in Nat /\ (k <= n => h[k] \in T) /\ (k + 1) - 1 = k
    OBVIOUS
  <2>2. k + 1 <= n => k <= n /\ k + 1 \in 1 .. n
    BY <1>1, <2>1
  <2>3. k + 1 <= n => h[k + 1] \in T
    BY <1>1, <1>2, <2>1, <2>2
  <2> QED
    BY <2>1, <2>3
<1>5. N = Nat
  <2>1. N \in SUBSET Nat
    OBVIOUS
  <2> HIDE DEF N
  <2> QED
    BY <1>3, <1>4, <2>1, SetInduction
<1> QED
  BY <1>1, <1>2, <1>5

(***************************************************************************)
(* A function defined by recursion on the numbers up to n.                 *)
(***************************************************************************)
IsIter(p, g, b, n) ==
  g = [k \in 0 .. n |-> IF k = 0 THEN b ELSE apply(p, g[k - 1], k)]

\* Its last value, as an operator.
Iter(p, b, n) ==
  LET g[k \in 0 .. n] == IF k = 0 THEN b ELSE apply(p, g[k - 1], k) IN g[n]

\* There is such a function.
LEMMA IterExists ==
  ASSUME NEW p, NEW b, NEW n \in Nat
  PROVE  \E g : IsIter(p, g, b, n)
<1> DEFINE N == {m \in Nat : \E g : IsIter(p, g, b, m)}
<1>1. 0 \in N
  <2> DEFINE g == [k \in 0 .. 0 |-> b]
  <2>1. IsIter(p, g, b, 0)
    BY DEF IsIter
  <2> HIDE DEF g
  <2> QED
    BY <2>1
<1>2. ASSUME NEW m \in N PROVE m + 1 \in N
  <2>1. m \in Nat
    OBVIOUS
  <2>2. PICK f : IsIter(p, f, b, m)
    OBVIOUS
  <2> HIDE DEF N
  <2>3. \A k \in 0 .. m : f[k] = IF k = 0 THEN b ELSE apply(p, f[k - 1], k)
    BY <2>2 DEF IsIter
  <2> DEFINE a == apply(p, f[m], m + 1)
             g == [k \in 0 .. m + 1 |-> IF k = m + 1 THEN a ELSE f[k]]
  <2>4. \A k \in 0 .. m + 1 : g[k] = IF k = 0 THEN b ELSE apply(p, g[k - 1], k)
    <3> SUFFICES ASSUME NEW k \in 0 .. m + 1
                 PROVE  g[k] = IF k = 0 THEN b ELSE apply(p, g[k - 1], k)
      OBVIOUS
    <3>1. CASE k = 0
      BY <2>1, <2>3, <3>1
    <3>2. CASE k = m + 1
      <4>1. k - 1 = m /\ k - 1 \in 0 .. m + 1 /\ m # m + 1 /\ k # 0
        BY <2>1, <3>2
      <4>2. g[k - 1] = f[m]
        BY <4>1
      <4>3. g[k] = a
        BY <3>2
      <4> HIDE DEF g
      <4> QED
        BY <3>2, <4>1, <4>2, <4>3
    <3>3. CASE k \in 1 .. m
      <4>1. /\ k - 1 \in 0 .. m + 1 /\ k - 1 # m + 1 /\ k # m + 1 /\ k # 0
            /\ k \in 0 .. m /\ k \in 0 .. m + 1
        BY <2>1, <3>3
      <4>2. g[k - 1] = f[k - 1] /\ g[k] = f[k]
        BY <4>1
      <4> HIDE DEF g
      <4> QED
        BY <2>3, <4>1, <4>2
    <3> QED
      BY <2>1, <3>1, <3>2, <3>3
  <2>5. g = [k \in 0 .. m + 1 |-> g[k]]
    OBVIOUS
  <2> HIDE DEF g
  <2>6. IsIter(p, g, b, m + 1)
    BY <2>4, <2>5 DEF IsIter
  <2> QED
    BY <2>1, <2>6 DEF N
<1>3. N = Nat
  <2>1. N \in SUBSET Nat
    OBVIOUS
  <2> HIDE DEF N
  <2> QED
    BY <1>1, <1>2, <2>1, SetInduction
<1> QED
  BY <1>3

\* Its values stay in a set that the operator does not leave.
LEMMA IterType ==
  ASSUME NEW p, NEW n \in Nat, NEW T, NEW b \in T,
         \A y \in T, k \in 1 .. n : apply(p, y, k) \in T
  PROVE  Iter(p, b, n) \in T
<1> DEFINE G == CHOOSE g : IsIter(p, g, b, n)
<1>1. IsIter(p, G, b, n)
  BY IterExists
<1>2. Iter(p, b, n) = G[n]
  BY DEF Iter, IsIter
<1> HIDE DEF G
<1>3. \A k \in 0 .. n : G[k] = IF k = 0 THEN b ELSE apply(p, G[k - 1], k)
  BY <1>1 DEF IsIter
<1> DEFINE N == {k \in Nat : k <= n => G[k] \in T}
<1>4. 0 \in N
  BY <1>3
<1>5. ASSUME NEW k \in N PROVE k + 1 \in N
  <2>1. k \in Nat /\ (k <= n => G[k] \in T) /\ (k + 1) - 1 = k
    OBVIOUS
  <2>2. k + 1 <= n => k <= n /\ k + 1 \in 1 .. n /\ k + 1 \in 0 .. n
    BY <2>1
  <2>3. k + 1 <= n => G[k + 1] \in T
    BY <1>3, <2>1, <2>2
  <2> QED
    BY <2>1, <2>3
<1>6. N = Nat
  <2>1. N \in SUBSET Nat
    OBVIOUS
  <2> HIDE DEF N
  <2> QED
    BY <1>4, <1>5, <2>1, SetInduction
<1> QED
  BY <1>2, <1>6
=============================================================================
