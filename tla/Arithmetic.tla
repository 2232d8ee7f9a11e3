----------------------------- MODULE Arithmetic -----------------------------
(***************************************************************************)
(* Division with remainder, as the proofs about aggregator addresses,      *)
(* versions, slots of rings and places of buffers need it, the least of    *)
(* some numbers, and finite sums.                                          *)
(***************************************************************************)
EXTENDS Integers, FiniteSets, Functions, FiniteSetTheorems, WellFoundedInduction, TLAPS

\* Division with remainder.
LEMMA DivMod ==
    ASSUME NEW x \in Nat, NEW m \in Nat, m > 0
    PROVE  /\ x \div m \in Nat
           /\ x % m \in 0 .. m - 1
           /\ x = (x \div m) * m + (x % m)
OBVIOUS

\* A positive multiple of m is at least m.
LEMMA MultipleAtLeast ==
    ASSUME NEW m \in Nat, NEW k \in Int, k * m > 0
    PROVE  k * m >= m
<1>1. k >= 1
  BY SMT
<1> QED  BY <1>1, SMT

\* Numbers with the same remainder differ by a multiple of the divisor.
LEMMA SameRemainder ==
    ASSUME NEW x \in Nat, NEW y \in Nat, NEW m \in Nat, m > 0, x % m = y % m, y < x
    PROVE  y + m <= x
<1> DEFINE k == x \div m
           l == y \div m
<1>1. k \in Nat /\ l \in Nat /\ x = k * m + (x % m) /\ y = l * m + (y % m)
  BY DivMod
<1> HIDE DEF k, l
<1>2. x - y = (k - l) * m
  BY <1>1, DivMod
<1> QED  BY <1>1, <1>2, MultipleAtLeast

\* A remainder below the divisor is the only one.
LEMMA UniqueRemainder ==
    ASSUME NEW m \in Nat, m > 0, NEW k \in Nat, NEW e \in 0 .. m - 1
    PROVE  (k * m + e) % m = e
<1> DEFINE x == k * m + e
           l == x \div m
           d == x % m
<1>1. x \in Nat
  OBVIOUS
<1>2. l \in Nat /\ d \in 0 .. m - 1 /\ x = l * m + d
  BY <1>1, DivMod
<1>3. d - e = (k - l) * m /\ e - d = (l - k) * m
  <2> HIDE DEF l, d
  <2> QED  BY <1>2
<1>4. d = e
  <2> HIDE DEF l, d, x
  <2>1. CASE d > e
    BY <1>2, <1>3, <2>1, MultipleAtLeast
  <2>2. CASE e > d
    BY <1>2, <1>3, <2>2, MultipleAtLeast
  <2> QED  BY <1>2, <2>1, <2>2
<1> QED  BY <1>4

\* A quotient is determined by what it is multiplied to.
LEMMA UniqueQuotient ==
    ASSUME NEW m \in Nat, m > 0, NEW k \in Nat, NEW e \in 0 .. m - 1
    PROVE  (k * m + e) \div m = k
<1> DEFINE x == k * m + e
           l == x \div m
<1>1. x \in Nat
  OBVIOUS
<1>2. l \in Nat /\ x % m = e /\ x = l * m + (x % m)
  BY <1>1, DivMod, UniqueRemainder
<1>3. (l - k) * m = 0 /\ (k - l) * m = 0
  <2>1. x = k * m + e /\ x = l * m + e
    BY <1>2
  <2> HIDE DEF l, x
  <2> QED  BY <1>2, <2>1
<1> HIDE DEF l
<1>4. ~ (l - k > 0) /\ ~ (k - l > 0)
  BY <1>2, <1>3
<1>5. l = k
  BY <1>2, <1>4
<1> QED  BY <1>5 DEF l

\* The remainder of a remainder.
LEMMA ModMod ==
    ASSUME NEW x \in Nat, NEW n \in Nat, n > 0, NEW m \in Nat, m > 0, n % m = 0
    PROVE  (x % n) % m = x % m
<1> DEFINE k == n \div m
           q == x \div n
           y == x % n
           l == y \div m
           e == y % m
<1>1. k \in Nat /\ n = k * m
  BY DivMod
<1>2. q \in Nat /\ y \in Nat /\ x = q * n + y
  BY DivMod
<1>3. l \in Nat /\ e \in 0 .. m - 1 /\ y = l * m + e
  BY <1>2, DivMod
<1>4. q * k + l \in Nat /\ x = (q * k + l) * m + e
  <2> HIDE DEF k, q, y, l, e
  <2>1. q * n = (q * k) * m
    BY <1>1, <1>2
  <2>2. x = (q * k) * m + (l * m + e)
    BY <1>2, <1>3, <2>1
  <2>3. q * k \in Nat
    BY <1>1, <1>2
  <2> QED  BY <1>3, <2>2, <2>3
<1>5. x % m = e
  <2> HIDE DEF k, q, y, l, e
  <2>1. ((q * k + l) * m + e) % m = e
    BY <1>3, <1>4, UniqueRemainder
  <2> QED  BY <1>4, <2>1
<1> QED  BY <1>5

\* The remainder of the next number.
LEMMA NextRemainder ==
    ASSUME NEW x \in Nat, NEW m \in Nat, m > 0
    PROVE  ((x % m) + 1) % m = (x + 1) % m
<1> DEFINE k == x \div m
           d == x % m
<1>1. k \in Nat /\ d \in 0 .. m - 1 /\ x = k * m + d
  BY DivMod
<1> HIDE DEF k, d
<1>2. CASE d + 1 < m
  <2>1. d + 1 \in 0 .. m - 1 /\ x + 1 = k * m + (d + 1)
    BY <1>1, <1>2
  <2>2. (k * m + (d + 1)) % m = d + 1 /\ (0 * m + (d + 1)) % m = d + 1
    BY <2>1, <1>1, UniqueRemainder
  <2>3. (x + 1) % m = d + 1
    BY <2>1, <2>2
  <2>4. (d + 1) % m = d + 1
    BY <2>2, <1>1
  <2> QED  BY <2>3, <2>4 DEF d
<1>3. CASE d + 1 = m
  <2>1. x + 1 = (k + 1) * m + 0 /\ d + 1 = 1 * m + 0 /\ 0 \in 0 .. m - 1 /\ k + 1 \in Nat
    BY <1>1, <1>3
  <2>2. ((k + 1) * m + 0) % m = 0 /\ (1 * m + 0) % m = 0
    BY <2>1, UniqueRemainder
  <2> QED  BY <2>1, <2>2 DEF d
<1> QED  BY <1>1, <1>2, <1>3

\* A set of natural numbers that is not empty has a least element.
LEMMA LeastExists ==
    ASSUME NEW S \in SUBSET Nat, S # {}
    PROVE  \E x \in S : \A y \in S : x <= y
<1> DEFINE R == OpToRel(<, Nat)
<1>1. IsWellFoundedOn(R, Nat)
  BY NatLessThanWellFounded
<1>2. PICK x \in S : \A y \in S : ~ (<<y, x>> \in R)
  <2> HIDE DEF R
  <2> QED  BY <1>1, WFMin
<1>3. ASSUME NEW y \in S PROVE x <= y
  <2>1. x \in Nat /\ y \in Nat
    OBVIOUS
  <2>2. y < x => <<y, x>> \in R
    BY <2>1 DEF OpToRel
  <2> HIDE DEF R
  <2> QED  BY <1>2, <2>1, <2>2
<1> QED  BY <1>3

-----------------------------------------------------------------------------
\* The element that a sum over T adds first.
Chosen(T) == CHOOSE e \in T : TRUE

\* D[T] is the sum of f over T, added one by one.
IsPartialSums(D, f) ==
    D = [T \in SUBSET DOMAIN f |->
            IF T = {} THEN 0 ELSE f[Chosen(T)] + D[T \ {Chosen(T)}]]

\* Induction over the subsets of a finite set: C is the set of those with a
\* property, and a set has it when all smaller ones have.
LEMMA SetInduction ==
  ASSUME NEW D, IsFiniteSet(D), NEW C \in SUBSET SUBSET D,
         \A T \in SUBSET D : (\A U \in SUBSET T : U # T => U \in C) => T \in C
  PROVE  C = SUBSET D
<1> SUFFICES ASSUME NEW T0 \in SUBSET D, T0 \notin C PROVE FALSE
  OBVIOUS
<1> DEFINE Bad == {n \in Nat : \E T \in SUBSET D : T \notin C /\ Cardinality(T) = n}
<1>1. \A T \in SUBSET D : IsFiniteSet(T) /\ Cardinality(T) \in Nat
  BY FS_Subset, FS_CardinalityType
<1>2. Bad \in SUBSET Nat /\ Bad # {}
  BY <1>1
<1> HIDE DEF Bad
<1>3. PICK n \in Bad : \A m \in Bad : n <= m
  BY <1>2, LeastExists
<1>4. PICK T \in SUBSET D : T \notin C /\ Cardinality(T) = n
  BY <1>3 DEF Bad
<1>5. PICK U \in SUBSET T : U # T /\ U \notin C
  BY <1>4
<1>6. U \in SUBSET D /\ Cardinality(U) < Cardinality(T) /\ Cardinality(U) \in Nat
  BY <1>1, <1>5, FS_Subset
<1>7. Cardinality(U) \in Bad
  BY <1>5, <1>6 DEF Bad
<1> QED  BY <1>1, <1>3, <1>4, <1>6, <1>7

\* One summand more.
WithNext(D, f, T) == IF T = {} THEN 0 ELSE f[Chosen(T)] + D[T \ {Chosen(T)}]

LEMMA ChosenIn ==
  ASSUME NEW T, T # {}
  PROVE  Chosen(T) \in T
BY DEF Chosen

\* There are such sums, made for larger and larger sets.
LEMMA PartialSumsExist ==
  ASSUME NEW f, IsFiniteSet(DOMAIN f), \A x \in DOMAIN f : f[x] \in Int
  PROVE  \E D \in [SUBSET DOMAIN f -> Int] : IsPartialSums(D, f)
<1> DEFINE S == DOMAIN f
           Low(n) == {T \in SUBSET S : Cardinality(T) <= n}
           Partial(D, n) == D \in [Low(n) -> Int] /\ \A T \in Low(n) : D[T] = WithNext(D, f, T)
           Bad == {n \in Nat : ~ \E D : Partial(D, n)}
<1>1. \A T \in SUBSET S : /\ IsFiniteSet(T) /\ Cardinality(T) \in Nat
                          /\ Cardinality(T) <= Cardinality(S)
                          /\ Cardinality(T) = 0 <=> T = {}
                          /\ \A x \in T : Cardinality(T \ {x}) = Cardinality(T) - 1
  BY FS_Subset, FS_CardinalityType, FS_EmptySet, FS_RemoveElement
<1>2. \E D : Partial(D, 0)
  <2>1. Partial([T \in Low(0) |-> 0], 0)
    BY <1>1 DEF WithNext
  <2> QED  BY <2>1
<1>3. ASSUME NEW n \in Nat, NEW D, Partial(D, n)
      PROVE  \E G : Partial(G, n + 1)
  <2> DEFINE G == [T \in Low(n + 1) |-> WithNext(D, f, T)]
  <2>1. \A T \in Low(n) : T \in Low(n + 1) /\ G[T] = D[T]
    BY <1>1, <1>3
  <2>2. \A T \in Low(n + 1) : T # {} => /\ Chosen(T) \in T /\ f[Chosen(T)] \in Int
                                        /\ T \ {Chosen(T)} \in Low(n)
    BY <1>1, ChosenIn
  <2>3. \A T \in Low(n + 1) : WithNext(D, f, T) \in Int
    BY <1>3, <2>2 DEF WithNext
  <2>4. \A T \in Low(n + 1) : G[T] = WithNext(G, f, T)
    <3> SUFFICES ASSUME NEW T \in Low(n + 1) PROVE G[T] = WithNext(G, f, T)
      OBVIOUS
    <3>1. G[T] = WithNext(D, f, T)
      OBVIOUS
    <3> HIDE DEF G, Low
    <3> QED  BY <2>1, <2>2, <3>1 DEF WithNext
  <2>5. G \in [Low(n + 1) -> Int]
    BY <2>3
  <2> HIDE DEF G
  <2> QED  BY <2>4, <2>5
<1>4. Bad = {}
  <2> SUFFICES ASSUME Bad # {} PROVE FALSE
    OBVIOUS
  <2> HIDE DEF Partial
  <2>1. PICK n \in Bad : \A m \in Bad : n <= m
    BY LeastExists
  <2>2. n \in Nat /\ n # 0
    BY <1>2
  <2>3. n - 1 \in Nat /\ n - 1 \notin Bad /\ (n - 1) + 1 = n
    BY <2>1, <2>2
  <2>4. \E D : Partial(D, n - 1)
    BY <2>3
  <2>5. \E D : Partial(D, n)
    BY <1>3, <2>3, <2>4
  <2> QED  BY <2>1, <2>5
<1>5. PICK D : Partial(D, Cardinality(S))
  <2> HIDE DEF Partial
  <2>1. Cardinality(S) \in Nat
    BY <1>1
  <2> QED  BY <1>4, <2>1
<1>6. Low(Cardinality(S)) = SUBSET S
  BY <1>1
<1>7. D \in [SUBSET S -> Int] /\ D = [T \in SUBSET S |-> WithNext(D, f, T)]
  BY <1>5, <1>6
<1> QED  BY <1>7 DEF IsPartialSums, WithNext

\* The sums of f over the subsets of its domain.
PartialSums(f) == CHOOSE D : IsPartialSums(D, f)

\* A sum is taken one summand after the other.
LEMMA PartialSumsOf ==
  ASSUME NEW f, IsFiniteSet(DOMAIN f), \A x \in DOMAIN f : f[x] \in Int
  PROVE  /\ SumFunction(f) = PartialSums(f)[DOMAIN f]
         /\ PartialSums(f)[{}] = 0
         /\ \A T \in SUBSET DOMAIN f : PartialSums(f)[T] = WithNext(PartialSums(f), f, T)
<1>1. IsPartialSums(PartialSums(f), f)
  BY PartialSumsExist DEF PartialSums
<1>2. SumFunction(f) = PartialSums(f)[DOMAIN f]
  BY DEF SumFunction, SumFunctionOnSet, FoldFunctionOnSet, MapThenFoldSet,
         PartialSums, IsPartialSums, Chosen
<1> QED  BY <1>1, <1>2 DEF IsPartialSums, WithNext

\* A sum of which one summand is not zero.
LEMMA SumSingle ==
  ASSUME NEW f, IsFiniteSet(DOMAIN f), \A y \in DOMAIN f : f[y] \in Int,
         NEW x \in DOMAIN f, \A y \in DOMAIN f : y # x => f[y] = 0
  PROVE  SumFunction(f) = f[x]
<1> DEFINE D == DOMAIN f
           Of(T) == IF x \in T THEN f[x] ELSE 0
           C == {T \in SUBSET D : PartialSums(f)[T] = Of(T)}
<1>1. ASSUME NEW T \in SUBSET D, \A U \in SUBSET T : U # T => U \in C
      PROVE  T \in C
  <2>1. CASE T = {}
    BY <2>1, PartialSumsOf
  <2>2. CASE T # {}
    <3> DEFINE y == Chosen(T)
    <3>1. y \in T /\ T \ {y} \in SUBSET T /\ T \ {y} # T
      BY <2>2, ChosenIn
    <3>2. PartialSums(f)[T] = f[y] + PartialSums(f)[T \ {y}]
      BY <2>2, PartialSumsOf DEF WithNext
    <3>3. T \ {y} \in C
      BY <1>1, <3>1
    <3> HIDE DEF y
    <3>4. PartialSums(f)[T] = f[y] + Of(T \ {y})
      BY <3>2, <3>3
    <3> QED  BY <3>1, <3>4
  <2> QED  BY <2>1, <2>2
<1>2. C = SUBSET D
  <2> HIDE DEF C
  <2>1. C \in SUBSET SUBSET D
    BY DEF C
  <2> QED  BY <1>1, <2>1, SetInduction
<1>3. D \in C
  BY <1>2
<1> QED  BY <1>3, PartialSumsOf

\* The sums are integers, and a summand may be taken out.
LEMMA PartialSumsType ==
  ASSUME NEW f, IsFiniteSet(DOMAIN f), \A x \in DOMAIN f : f[x] \in Int
  PROVE  \A T \in SUBSET DOMAIN f : PartialSums(f)[T] \in Int
<1> DEFINE C == {T \in SUBSET DOMAIN f : PartialSums(f)[T] \in Int}
<1>1. ASSUME NEW T \in SUBSET DOMAIN f, \A U \in SUBSET T : U # T => U \in C
      PROVE  T \in C
  <2>1. CASE T = {}
    BY <2>1, PartialSumsOf
  <2>2. CASE T # {}
    <3> DEFINE y == Chosen(T)
    <3>1. y \in T
      BY <2>2, ChosenIn
    <3>2. PartialSums(f)[T] = f[y] + PartialSums(f)[T \ {y}]
      BY <2>2, PartialSumsOf DEF WithNext
    <3>3. T \ {y} \in C
      BY <1>1, <3>1
    <3> HIDE DEF y
    <3> QED  BY <3>1, <3>2, <3>3
  <2> QED  BY <2>1, <2>2
<1>2. C \in SUBSET SUBSET DOMAIN f
  OBVIOUS
<1> HIDE DEF C
<1>3. C = SUBSET DOMAIN f
  BY <1>1, <1>2, SetInduction
<1> QED  BY <1>3 DEF C

LEMMA PartialSumsRemove ==
  ASSUME NEW f, IsFiniteSet(DOMAIN f), \A x \in DOMAIN f : f[x] \in Int
  PROVE  \A T \in SUBSET DOMAIN f : \A x \in T :
            PartialSums(f)[T] = f[x] + PartialSums(f)[T \ {x}]
<1> DEFINE PS == PartialSums(f)
           C == {T \in SUBSET DOMAIN f : \A x \in T : PS[T] = f[x] + PS[T \ {x}]}
<1>0. \A T \in SUBSET DOMAIN f : PS[T] \in Int
  BY PartialSumsType
<1>1. ASSUME NEW T \in SUBSET DOMAIN f, \A U \in SUBSET T : U # T => U \in C
      PROVE  T \in C
  <2> SUFFICES ASSUME NEW x \in T PROVE PS[T] = f[x] + PS[T \ {x}]
    OBVIOUS
  <2> DEFINE y == Chosen(T)
  <2>1. y \in T
    BY ChosenIn
  <2>2. PS[T] = f[y] + PS[T \ {y}]
    BY PartialSumsOf DEF WithNext
  <2> HIDE DEF y
  <2>3. CASE x = y
    BY <2>2, <2>3
  <2>4. CASE x # y
    <3>1. T \ {y} \in C /\ x \in T \ {y} /\ T \ {x} \in C /\ y \in T \ {x}
      BY <1>1, <2>1, <2>4
    <3>2. (T \ {y}) \ {x} = (T \ {x}) \ {y} /\ (T \ {x}) \ {y} \in SUBSET DOMAIN f
      OBVIOUS
    <3> DEFINE V == (T \ {x}) \ {y}
    <3>3. PS[T \ {y}] = f[x] + PS[V] /\ PS[T \ {x}] = f[y] + PS[V]
      BY <3>1, <3>2
    <3>4. f[x] \in Int /\ f[y] \in Int /\ PS[V] \in Int
      BY <1>0, <2>1, <3>2
    <3> HIDE DEF V, PS
    <3> QED  BY <2>2, <3>3, <3>4
  <2> QED  BY <2>3, <2>4
<1>2. C \in SUBSET SUBSET DOMAIN f
  OBVIOUS
<1> HIDE DEF C
<1>3. C = SUBSET DOMAIN f
  BY <1>1, <1>2, SetInduction
<1> QED  BY <1>3 DEF C

\* Summands that are zero may be left out.
LEMMA SumWithoutZeros ==
  ASSUME NEW f, IsFiniteSet(DOMAIN f), \A x \in DOMAIN f : f[x] \in Int,
         NEW E \in SUBSET DOMAIN f, \A x \in DOMAIN f : x \notin E => f[x] = 0
  PROVE  SumFunction(f) = SumFunction([x \in E |-> f[x]])
<1> DEFINE g == [x \in E |-> f[x]]
           C == {T \in SUBSET DOMAIN f : PartialSums(f)[T] = PartialSums(g)[T \cap E]}
<1>1. DOMAIN g = E /\ IsFiniteSet(E) /\ \A x \in E : g[x] = f[x] /\ g[x] \in Int
  BY FS_Subset
<1> HIDE DEF g
<1>2. \A T \in SUBSET E : PartialSums(g)[T] \in Int
  BY <1>1, PartialSumsType
<1>3. ASSUME NEW T \in SUBSET DOMAIN f, \A U \in SUBSET T : U # T => U \in C
      PROVE  T \in C
  <2>1. CASE T = {}
    <3>1. {} \cap E = {}
      OBVIOUS
    <3> QED  BY <1>1, <2>1, <3>1, PartialSumsOf
  <2>2. CASE T # {}
    <3> DEFINE y == Chosen(T)
    <3>1. y \in T
      BY <2>2, ChosenIn
    <3>2. PartialSums(f)[T] = f[y] + PartialSums(f)[T \ {y}]
      BY <2>2, PartialSumsOf DEF WithNext
    <3>3. T \ {y} \in C
      BY <1>3, <3>1
    <3> HIDE DEF y
    <3>4. PartialSums(f)[T] = f[y] + PartialSums(g)[(T \ {y}) \cap E]
      BY <3>2, <3>3
    <3>5. CASE y \in E
      <4>1. y \in T \cap E /\ (T \ {y}) \cap E = (T \cap E) \ {y} /\ T \cap E \in SUBSET E
        BY <3>1, <3>5
      <4>2. PartialSums(g)[T \cap E] = g[y] + PartialSums(g)[(T \cap E) \ {y}]
        BY <1>1, <4>1, PartialSumsRemove
      <4>3. PartialSums(f)[T] = PartialSums(g)[T \cap E]
        BY <1>1, <3>4, <3>5, <4>1, <4>2
      <4> QED  BY <4>3
    <3>6. CASE y \notin E
      <4>1. (T \ {y}) \cap E = T \cap E /\ T \cap E \in SUBSET E
        BY <3>6
      <4>2. PartialSums(g)[T \cap E] \in Int /\ f[y] = 0
        BY <1>2, <3>1, <3>6, <4>1
      <4>3. PartialSums(f)[T] = f[y] + PartialSums(g)[T \cap E]
        BY <3>4, <4>1
      <4>4. PartialSums(f)[T] = PartialSums(g)[T \cap E]
        BY ONLY <4>2, <4>3
      <4> QED  BY <4>4
    <3> QED  BY <3>5, <3>6
  <2> QED  BY <2>1, <2>2
<1>4. C \in SUBSET SUBSET DOMAIN f
  OBVIOUS
<1> HIDE DEF C
<1>5. C = SUBSET DOMAIN f
  BY <1>3, <1>4, SetInduction
<1>6. PartialSums(f)[DOMAIN f] = PartialSums(g)[E]
  <2>1. DOMAIN f \in C /\ (DOMAIN f) \cap E = E
    BY <1>5
  <2> QED  BY <2>1 DEF C
<1> QED  BY <1>1, <1>6, PartialSumsOf DEF g

\* A sum is the last summand and the sum of the others.
LEMMA SumRemove ==
  ASSUME NEW f, IsFiniteSet(DOMAIN f), \A x \in DOMAIN f : f[x] \in Int, NEW y \in DOMAIN f
  PROVE  SumFunction(f) = f[y] + SumFunction([x \in DOMAIN f \ {y} |-> f[x]])
<1> DEFINE D == DOMAIN f
           E == D \ {y}
<1>1. SumFunction(f) = f[y] + PartialSums(f)[E]
  <2>1. SumFunction(f) = PartialSums(f)[D]
    BY PartialSumsOf
  <2>2. D \in SUBSET DOMAIN f /\ y \in D
    OBVIOUS
  <2>3. PartialSums(f)[D] = f[y] + PartialSums(f)[D \ {y}]
    BY <2>2, PartialSumsRemove
  <2> QED  BY <2>1, <2>3
<1> DEFINE h == [x \in E |-> f[x]]
           C == {T \in SUBSET E : PartialSums(f)[T] = PartialSums(h)[T]}
<1>2. DOMAIN h = E /\ IsFiniteSet(E) /\ \A x \in E : h[x] = f[x] /\ h[x] \in Int
  BY FS_Subset
<1>3. ASSUME NEW T \in SUBSET E, \A U \in SUBSET T : U # T => U \in C
      PROVE  T \in C
  <2> HIDE DEF h
  <2>1. CASE T = {}
    BY <1>2, <2>1, PartialSumsOf
  <2>2. CASE T # {}
    <3> DEFINE z == Chosen(T)
    <3>1. z \in T
      BY <2>2, ChosenIn
    <3>2. PartialSums(f)[T] = f[z] + PartialSums(f)[T \ {z}]
      BY <2>2, PartialSumsOf DEF WithNext
    <3>3. PartialSums(h)[T] = h[z] + PartialSums(h)[T \ {z}]
      BY <1>2, <2>2, PartialSumsOf DEF WithNext
    <3>4. T \ {z} \in C
      BY <1>3, <3>1
    <3> HIDE DEF z
    <3> QED  BY <1>2, <3>1, <3>2, <3>3, <3>4
  <2> QED  BY <2>1, <2>2
<1>4. C \in SUBSET SUBSET E
  OBVIOUS
<1>5. C = SUBSET E
  <2> HIDE DEF C, h
  <2> QED  BY <1>2, <1>3, <1>4, SetInduction
<1>6. PartialSums(f)[E] = PartialSums(h)[E]
  <2> HIDE DEF h
  <2> QED  BY <1>5
<1>7. SumFunction(h) = PartialSums(h)[E]
  <2> HIDE DEF h
  <2> QED  BY <1>2, PartialSumsOf
<1> QED  BY <1>1, <1>6, <1>7

\* A sum of integers is one.
LEMMA SumInt ==
  ASSUME NEW f, IsFiniteSet(DOMAIN f), \A x \in DOMAIN f : f[x] \in Int
  PROVE  SumFunction(f) \in Int
BY PartialSumsOf, PartialSumsType

\* The sum of nothing.
LEMMA SumOfNothing ==
  ASSUME NEW f, DOMAIN f = {}
  PROVE  SumFunction(f) = 0
BY PartialSumsOf, FS_EmptySet

\* Recursion up to n: the k-th value is made of the one before by s.
IsRecursion(D, n, a, s) ==
    /\ D \in [0 .. n -> Nat]
    /\ D[0] = a
    /\ \A k \in 1 .. n : D[k] = s[<<D[k - 1], k>>]

LEMMA RecursionExists ==
  ASSUME NEW n \in Nat, NEW a \in Nat, NEW s \in [Nat \X (1 .. n) -> Nat]
  PROVE  \E D : IsRecursion(D, n, a, s)
<1> DEFINE Upto(D, m) == D \in [0 .. m -> Nat] /\ \A k \in 0 .. m :
                            D[k] = IF k = 0 THEN a ELSE s[<<D[k - 1], k>>]
           Bad == {m \in Nat : m <= n /\ ~ \E D : Upto(D, m)}
<1>1. \E D : Upto(D, 0)
  <2>1. Upto([k \in 0 .. 0 |-> a], 0)
    OBVIOUS
  <2> QED  BY <2>1
<1>2. ASSUME NEW m \in Nat, m + 1 <= n, NEW D, Upto(D, m)
      PROVE  \E G : Upto(G, m + 1)
  <2> DEFINE G == [k \in 0 .. m + 1 |-> IF k = 0 THEN a ELSE s[<<D[k - 1], k>>]]
  <2>1. \A k \in 1 .. m + 1 : k \in 1 .. n /\ k - 1 \in 0 .. m /\ D[k - 1] \in Nat
    BY <1>2
  <2>2. G \in [0 .. m + 1 -> Nat]
    <3>1. \A k \in 1 .. m + 1 : s[<<D[k - 1], k>>] \in Nat
      BY <2>1
    <3> QED  BY <3>1
  <2>3. \A k \in 0 .. m : G[k] = D[k]
    BY <1>2
  <2>4. \A k \in 0 .. m + 1 : G[k] = IF k = 0 THEN a ELSE s[<<G[k - 1], k>>]
    <3> SUFFICES ASSUME NEW k \in 0 .. m + 1
                 PROVE  G[k] = IF k = 0 THEN a ELSE s[<<G[k - 1], k>>]
      OBVIOUS
    <3>1. G[k] = IF k = 0 THEN a ELSE s[<<D[k - 1], k>>]
      OBVIOUS
    <3> HIDE DEF G
    <3> QED  BY <2>1, <2>3, <3>1
  <2> HIDE DEF G
  <2> QED  BY <2>2, <2>4
<1>3. Bad = {}
  <2> SUFFICES ASSUME Bad # {} PROVE FALSE
    OBVIOUS
  <2> HIDE DEF Upto
  <2>1. PICK m \in Bad : \A l \in Bad : m <= l
    BY LeastExists
  <2>2. m \in Nat /\ m # 0 /\ m <= n
    BY <1>1
  <2>3. m - 1 \in Nat /\ m - 1 <= n /\ m - 1 \notin Bad /\ (m - 1) + 1 = m
    BY <2>1, <2>2
  <2>4. \E D : Upto(D, m - 1)
    BY <2>3
  <2>5. \E D : Upto(D, m)
    BY <1>2, <2>2, <2>3, <2>4
  <2> QED  BY <2>1, <2>5
<1>4. PICK D : Upto(D, n)
  <2> HIDE DEF Upto
  <2> QED  BY <1>3
<1>5. 0 \in 0 .. n /\ \A k \in 1 .. n : k \in 0 .. n /\ k # 0
  OBVIOUS
<1>6. D[0] = a /\ \A k \in 1 .. n : D[k] = s[<<D[k - 1], k>>]
  BY <1>4, <1>5
<1> QED  BY <1>4, <1>6 DEF IsRecursion

\* Induction up to n: C is the set of the numbers that have a property.
LEMMA InductionUpTo ==
  ASSUME NEW n \in Nat, NEW C, 0 \in C, \A k \in 1 .. n : k - 1 \in C => k \in C
  PROVE  0 .. n \subseteq C
<1> SUFFICES ASSUME NEW x \in 0 .. n, x \notin C PROVE FALSE
  OBVIOUS
<1> DEFINE Bad == {k \in 0 .. n : k \notin C}
<1>1. Bad \in SUBSET Nat /\ Bad # {}
  OBVIOUS
<1>2. PICK k \in Bad : \A l \in Bad : k <= l
  <2> HIDE DEF Bad
  <2> QED  BY <1>1, LeastExists
<1>3. k \in 1 .. n /\ k - 1 \in 0 .. n /\ k - 1 < k
  OBVIOUS
<1>4. k - 1 \in C
  BY <1>2, <1>3
<1> QED  BY <1>3, <1>4
=============================================================================
