----------------------------- MODULE PacingProofs -----------------------------
(***************************************************************************)
(* Proofs about Pacing: for any number of workers and addresses, any rate,  *)
(* and however late a call is answered.                                     *)
(***************************************************************************)
EXTENDS Pacing, SequenceTheorems, FiniteSetTheorems, TLAPS

\* Induction over numbers, quotients and remainders.
Numbers == INSTANCE ReporterProofs

-----------------------------------------------------------------------------
(* Sums over a finite set.  FiniteSetsExt adds its members up in an order   *)
(* it chooses; what follows shows that the order does not matter.           *)

AnyOf(s) == CHOOSE x \in s : TRUE

AddsUp(g, f, D) ==
    g = [s \in SUBSET D |-> IF s = {} THEN 0 ELSE f[AnyOf(s)] + g[s \ {AnyOf(s)}]]

\* The same for the sets of at most n members.
AddsUpTo(g, f, D, n) ==
    \A s \in SUBSET D : Cardinality(s) <= n =>
        g[s] = IF s = {} THEN 0 ELSE f[AnyOf(s)] + g[s \ {AnyOf(s)}]

\* What is chosen of a set that is not empty is a member, and without it the
\* set is smaller by one.
LEMMA OneLess ==
  ASSUME NEW D, IsFiniteSet(D), NEW s \in SUBSET D, s # {}
  PROVE  /\ AnyOf(s) \in s
         /\ \A x \in s : /\ s \ {x} \in SUBSET D
                         /\ Cardinality(s) \in Nat \ {0}
                         /\ Cardinality(s \ {x}) = Cardinality(s) - 1
<1>1. IsFiniteSet(s)
  BY FS_Subset
<1>2. \A x \in s : Cardinality(s \ {x}) = Cardinality(s) - 1
  BY <1>1, FS_RemoveElement
<1>3. Cardinality(s) \in Nat \ {0}
  BY <1>1, FS_CardinalityType, FS_EmptySet
<1> QED
  BY <1>2, <1>3 DEF AnyOf

\* There are sums for the sets of any size.
LEMMA SumsExist ==
  ASSUME NEW D, IsFiniteSet(D), NEW f \in [D -> Int]
  PROVE  \E g \in [SUBSET D -> Int] : AddsUp(g, f, D)
<1> DEFINE Has(n) == \E g \in [SUBSET D -> Int] : AddsUpTo(g, f, D, n)
           T == {n \in Nat : Has(n)}
<1>1. \A s \in SUBSET D : Cardinality(s) \in Nat /\ (Cardinality(s) <= 0 => s = {})
  <2> TAKE s \in SUBSET D
  <2>1. IsFiniteSet(s)
    BY FS_Subset
  <2> QED
    BY <2>1, FS_CardinalityType, FS_EmptySet
<1>2. Has(0)
  <2> DEFINE g == [s \in SUBSET D |-> 0]
  <2>1. g \in [SUBSET D -> Int] /\ AddsUpTo(g, f, D, 0)
    BY <1>1 DEF AddsUpTo
  <2> QED
    BY <2>1
<1>3. ASSUME NEW n \in Nat, Has(n) PROVE Has(n + 1)
  <2>1. PICK g \in [SUBSET D -> Int] : AddsUpTo(g, f, D, n)
    BY <1>3
  <2> DEFINE next(s) == IF s = {} THEN 0 ELSE f[AnyOf(s)] + g[s \ {AnyOf(s)}]
             h == [s \in SUBSET D |-> IF Cardinality(s) <= n THEN g[s] ELSE next(s)]
  <2>2. \A s \in SUBSET D : next(s) \in Int
    BY OneLess
  <2>3. h \in [SUBSET D -> Int]
    BY <2>2
  <2>4. \A s \in SUBSET D : h[s] = IF Cardinality(s) <= n THEN g[s] ELSE next(s)
    OBVIOUS
  <2>5. ASSUME NEW s \in SUBSET D, Cardinality(s) <= n + 1
        PROVE  h[s] = IF s = {} THEN 0 ELSE f[AnyOf(s)] + h[s \ {AnyOf(s)}]
    <3>1. h[s] = next(s)
      BY <2>1, <2>4 DEF AddsUpTo
    <3>2. CASE s = {}
      BY <3>1, <3>2
    <3>3. CASE s # {}
      <4>1. /\ s \ {AnyOf(s)} \in SUBSET D /\ Cardinality(s) \in Nat
            /\ Cardinality(s \ {AnyOf(s)}) = Cardinality(s) - 1
        BY <3>3, OneLess
      <4>2. h[s \ {AnyOf(s)}] = g[s \ {AnyOf(s)}]
        <5>1. Cardinality(s \ {AnyOf(s)}) <= n
          BY <2>5, <4>1
        <5> HIDE DEF h, next
        <5> QED
          BY <2>4, <4>1, <5>1
      <4> HIDE DEF h
      <4> QED
        BY <3>1, <3>3, <4>2
    <3> QED
      BY <3>2, <3>3
  <2> HIDE DEF h
  <2>6. AddsUpTo(h, f, D, n + 1)
    BY <2>5 DEF AddsUpTo
  <2> QED
    BY <2>3, <2>6
<1>4. T = Nat
  <2> HIDE DEF Has
  <2>1. T \in SUBSET Nat /\ 0 \in T /\ \A n \in T : n + 1 \in T
    BY <1>2, <1>3
  <2> HIDE DEF T
  <2> QED
    BY <2>1, Numbers!SetInduction
<1>5. Cardinality(D) \in Nat /\ \A s \in SUBSET D : Cardinality(s) <= Cardinality(D)
  BY FS_CardinalityType, FS_Subset
<1>6. PICK g \in [SUBSET D -> Int] : AddsUpTo(g, f, D, Cardinality(D))
  BY <1>4, <1>5
<1>7. AddsUp(g, f, D)
  <2>1. g = [s \in SUBSET D |-> g[s]]
    OBVIOUS
  <2>2. \A s \in SUBSET D : g[s] = IF s = {} THEN 0 ELSE f[AnyOf(s)] + g[s \ {AnyOf(s)}]
    BY <1>5, <1>6 DEF AddsUpTo
  <2> QED
    BY <2>1, <2>2 DEF AddsUp
<1> QED
  BY <1>7

\* Total is such a sum.
LEMMA TotalIsSum ==
  ASSUME NEW D, IsFiniteSet(D), NEW f \in [D -> Int]
  PROVE  \E g \in [SUBSET D -> Int] : AddsUp(g, f, D) /\ Total(f) = g[D]
<1> DEFINE g == CHOOSE g : AddsUp(g, f, D)
<1>1. AddsUp(g, f, D)
  BY SumsExist
<1>2. Total(f) = g[D]
  <2>1. DOMAIN f = D
    OBVIOUS
  <2> QED
    BY <2>1 DEF Total, MapThenSumSet, MapThenFoldSet, AddsUp, AnyOf
<1> HIDE DEF g
<1> DEFINE T == {n \in Nat : \A s \in SUBSET D : Cardinality(s) <= n => g[s] \in Int}
<1>3. \A s \in SUBSET D : Cardinality(s) \in Nat /\ (Cardinality(s) <= 0 => s = {})
  <2> TAKE s \in SUBSET D
  <2>1. IsFiniteSet(s)
    BY FS_Subset
  <2> QED
    BY <2>1, FS_CardinalityType, FS_EmptySet
<1>4. \A s \in SUBSET D : g[s] = IF s = {} THEN 0 ELSE f[AnyOf(s)] + g[s \ {AnyOf(s)}]
  BY <1>1, Zenon DEF AddsUp
<1>5. 0 \in T
  BY <1>3, <1>4
<1>6. ASSUME NEW n \in T, NEW s \in SUBSET D, Cardinality(s) <= n + 1
      PROVE  g[s] \in Int
  <2>1. CASE s # {}
    <3>1. /\ AnyOf(s) \in D /\ s \ {AnyOf(s)} \in SUBSET D
          /\ Cardinality(s \ {AnyOf(s)}) <= n
      BY <1>6, <2>1, OneLess
    <3> QED
      BY <1>4, <1>6, <2>1, <3>1
  <2> QED
    BY <1>4, <2>1
<1>7. T = Nat
  <2>1. T \in SUBSET Nat /\ 0 \in T /\ \A n \in T : n + 1 \in T
    BY <1>5, <1>6
  <2> HIDE DEF T
  <2> QED
    BY <2>1, Numbers!SetInduction
<1>8. \A s \in SUBSET D : g[s] \in Int
  BY <1>3, <1>7
<1>9. g \in [SUBSET D -> Int]
  BY <1>1, <1>8 DEF AddsUp
<1> QED
  BY <1>1, <1>2, <1>9

\* Whichever member is taken out of a set of at most n, the rest adds up to the
\* difference.
AnyOrderTo(g, f, D, n) ==
    \A s \in SUBSET D : Cardinality(s) <= n => \A x \in s : g[s] = f[x] + g[s \ {x}]

\* The sum of no members, and of the members but one.
TakesApart(g, f, D) ==
    /\ g[{}] = 0
    /\ \A s \in SUBSET D : \A x \in s : g[s] = f[x] + g[s \ {x}]

\* Whichever member is taken out of a set, the rest adds up to the difference.
LEMMA AnyOrder ==
  ASSUME NEW D, IsFiniteSet(D), NEW f \in [D -> Int], NEW g \in [SUBSET D -> Int],
         AddsUp(g, f, D)
  PROVE  TakesApart(g, f, D)
<1> DEFINE T == {n \in Nat : AnyOrderTo(g, f, D, n)}
<1>1. \A s \in SUBSET D : g[s] = IF s = {} THEN 0 ELSE f[AnyOf(s)] + g[s \ {AnyOf(s)}]
  BY Zenon DEF AddsUp
<1>2. \A s \in SUBSET D : Cardinality(s) \in Nat /\ (Cardinality(s) <= 0 => s = {})
  <2> TAKE s \in SUBSET D
  <2>1. IsFiniteSet(s)
    BY FS_Subset
  <2> QED
    BY <2>1, FS_CardinalityType, FS_EmptySet
<1>3. AnyOrderTo(g, f, D, 0)
  BY <1>2 DEF AnyOrderTo
<1>4. ASSUME NEW n \in Nat, AnyOrderTo(g, f, D, n),
             NEW s \in SUBSET D, Cardinality(s) <= n + 1, NEW x \in s
      PROVE  g[s] = f[x] + g[s \ {x}]
  <2> DEFINE y == AnyOf(s)
  <2>1. y \in s /\ g[s] = f[y] + g[s \ {y}]
    BY <1>1, OneLess
  <2> HIDE DEF y
  <2>2. CASE y # x
    <3>1. \A z \in s : s \ {z} \in SUBSET D /\ Cardinality(s \ {z}) <= n
      BY <1>4, OneLess
    <3>2. \A z \in s : \A v \in s \ {z} : g[s \ {z}] = f[v] + g[(s \ {z}) \ {v}]
      BY <1>4, <3>1 DEF AnyOrderTo
    <3>3. /\ g[s \ {y}] = f[x] + g[(s \ {y}) \ {x}]
          /\ g[s \ {x}] = f[y] + g[(s \ {x}) \ {y}]
      BY <2>1, <2>2, <3>2
    <3>4. g[(s \ {y}) \ {x}] = g[(s \ {x}) \ {y}]
      <4>1. (s \ {y}) \ {x} = (s \ {x}) \ {y}
        OBVIOUS
      <4> QED
        BY <4>1
    <3>5. f[x] \in Int /\ f[y] \in Int /\ g[(s \ {x}) \ {y}] \in Int
      BY <2>1
    <3>6. \A a, b, r, gs, gx, gy \in Int :
             gs = a + gy /\ gy = b + r /\ gx = a + r => gs = b + gx
      OBVIOUS
    <3>7. g[s] \in Int /\ g[s \ {x}] \in Int /\ g[s \ {y}] \in Int
      BY <3>1
    <3> QED
      BY <2>1, <3>3, <3>4, <3>5, <3>6, <3>7
  <2> QED
    BY <2>1, <2>2
<1>5. T = Nat
  <2>1. \A n \in Nat : AnyOrderTo(g, f, D, n) => AnyOrderTo(g, f, D, n + 1)
    BY <1>4 DEF AnyOrderTo
  <2>2. T \in SUBSET Nat /\ 0 \in T /\ \A n \in T : n + 1 \in T
    BY <1>3, <2>1
  <2> HIDE DEF T
  <2> QED
    BY <2>2, Numbers!SetInduction
<1>6. \A s \in SUBSET D : \A x \in s : g[s] = f[x] + g[s \ {x}]
  <2> SUFFICES ASSUME NEW s \in SUBSET D, NEW x \in s PROVE g[s] = f[x] + g[s \ {x}]
    OBVIOUS
  <2>1. AnyOrderTo(g, f, D, Cardinality(s)) /\ Cardinality(s) <= Cardinality(s)
    BY <1>2, <1>5
  <2> QED
    BY <2>1 DEF AnyOrderTo
<1> QED
  BY <1>1, <1>6 DEF TakesApart

\* A set of subsets of D that has, with a set less one of its members, that set.
InductiveOn(T, D) ==
    /\ T \in SUBSET (SUBSET D)
    /\ {} \in T
    /\ \A s \in SUBSET D : \A x \in s : s \ {x} \in T => s \in T

\* Induction over the subsets of a finite set.
LEMMA SubsetInduction ==
  ASSUME NEW D, IsFiniteSet(D), NEW T, InductiveOn(T, D)
  PROVE  T = SUBSET D
<1> DEFINE U == {n \in Nat : \A s \in SUBSET D : Cardinality(s) <= n => s \in T}
<1>1. \A s \in SUBSET D : Cardinality(s) \in Nat /\ (Cardinality(s) <= 0 => s = {})
  <2> TAKE s \in SUBSET D
  <2>1. IsFiniteSet(s)
    BY FS_Subset
  <2> QED
    BY <2>1, FS_CardinalityType, FS_EmptySet
<1>2. ASSUME NEW n \in U, NEW s \in SUBSET D, Cardinality(s) <= n + 1
      PROVE  s \in T
  <2>1. CASE s # {}
    <3>1. PICK x \in s : TRUE
      BY <2>1
    <3>2. s \ {x} \in SUBSET D /\ Cardinality(s \ {x}) <= n
      BY <1>2, <2>1, OneLess
    <3> QED
      BY <1>2, <3>2 DEF InductiveOn
  <2> QED
    BY <2>1 DEF InductiveOn
<1>3. U = Nat
  <2>1. 0 \in U
    BY <1>1 DEF InductiveOn
  <2>2. \A n \in U : n + 1 \in U
    BY <1>2
  <2>3. U \in SUBSET Nat
    OBVIOUS
  <2> HIDE DEF U
  <2> QED
    BY <2>1, <2>2, <2>3, Numbers!SetInduction
<1> QED
  BY <1>1, <1>3 DEF InductiveOn

\* Sums of functions that agree are the same.
LEMMA SumsAgree ==
  ASSUME NEW D, IsFiniteSet(D), NEW e \in [D -> Int], NEW f \in [D -> Int],
         NEW g \in [SUBSET D -> Int], NEW h \in [SUBSET D -> Int],
         AddsUp(g, e, D), AddsUp(h, f, D)
  PROVE  \A s \in SUBSET D : (\A x \in s : e[x] = f[x]) => g[s] = h[s]
<1> DEFINE T == {s \in SUBSET D : (\A x \in s : e[x] = f[x]) => g[s] = h[s]}
<1>1. TakesApart(g, e, D) /\ TakesApart(h, f, D)
  BY AnyOrder
<1>2. {} \in T
  BY <1>1 DEF TakesApart
<1>3. \A s \in SUBSET D : \A x \in s : s \ {x} \in T => s \in T
  BY <1>1 DEF TakesApart
<1>4. InductiveOn(T, D)
  BY <1>2, <1>3 DEF InductiveOn
<1>5. T = SUBSET D
  <2> HIDE DEF T
  <2> QED
    BY <1>4, SubsetInduction
<1> QED
  BY <1>5

\* The sums of functions that differ at one place differ by as much.
LEMMA TotalChanges ==
  ASSUME NEW D, IsFiniteSet(D), NEW e \in [D -> Int], NEW f \in [D -> Int], NEW w \in D,
         \A x \in D \ {w} : e[x] = f[x]
  PROVE  /\ Total(e) \in Int /\ Total(f) \in Int
         /\ Total(e) = Total(f) - f[w] + e[w]
<1>1. PICK g \in [SUBSET D -> Int] : AddsUp(g, f, D) /\ Total(f) = g[D]
  BY TotalIsSum
<1>2. PICK h \in [SUBSET D -> Int] : AddsUp(h, e, D) /\ Total(e) = h[D]
  BY TotalIsSum
<1>3. g[D] = f[w] + g[D \ {w}] /\ h[D] = e[w] + h[D \ {w}]
  <2>1. TakesApart(g, f, D) /\ TakesApart(h, e, D)
    BY <1>1, <1>2, AnyOrder
  <2> QED
    BY <2>1 DEF TakesApart
<1>4. h[D \ {w}] = g[D \ {w}]
  BY <1>1, <1>2, SumsAgree
<1>5. g[D] \in Int /\ h[D] \in Int /\ g[D \ {w}] \in Int /\ f[w] \in Int /\ e[w] \in Int
  OBVIOUS
<1> QED
  BY <1>1, <1>2, <1>3, <1>4, <1>5

\* The sum of numbers that are at most m, and the sum of natural numbers.
LEMMA TotalBounds ==
  ASSUME NEW D, IsFiniteSet(D), NEW f \in [D -> Int]
  PROVE  /\ \A m \in Int : (\A x \in D : f[x] <= m) => Total(f) <= m * Cardinality(D)
         /\ \A m \in Int : (\A x \in D : f[x] >= m) => Total(f) >= m * Cardinality(D)
<1>1. PICK g \in [SUBSET D -> Int] : AddsUp(g, f, D) /\ Total(f) = g[D]
  BY TotalIsSum
<1>2. /\ g[{}] = 0
      /\ \A s \in SUBSET D : \A x \in s : g[s] = f[x] + g[s \ {x}]
  <2>1. TakesApart(g, f, D)
    BY <1>1, AnyOrder
  <2> QED
    BY <2>1 DEF TakesApart
<1>3. \A s \in SUBSET D : Cardinality(s) \in Nat
  BY FS_Subset, FS_CardinalityType
<1>4. Cardinality({}) = 0
  BY FS_EmptySet
<1>5. \A m, n \in Int : m * n = m * (n - 1) + m
  OBVIOUS
<1>6. ASSUME NEW m \in Int, \A x \in D : f[x] <= m
      PROVE  Total(f) <= m * Cardinality(D)
  <2> DEFINE T == {s \in SUBSET D : g[s] <= m * Cardinality(s)}
  <2>1. {} \in T
    BY <1>2, <1>4
  <2>2. ASSUME NEW s \in SUBSET D, NEW x \in s, s \ {x} \in T
        PROVE  s \in T
    <3>1. Cardinality(s \ {x}) = Cardinality(s) - 1
      BY OneLess
    <3>2. g[s \ {x}] <= m * (Cardinality(s) - 1)
      BY <2>2, <3>1
    <3>3. m * Cardinality(s) = m * (Cardinality(s) - 1) + m
      BY <1>3, <1>5
    <3>4. m * (Cardinality(s) - 1) \in Int /\ g[s \ {x}] \in Int /\ f[x] \in Int
      BY <1>3
    <3>5. g[s] = f[x] + g[s \ {x}] /\ f[x] <= m
      BY <1>2, <1>6
    <3> QED
      BY <3>2, <3>3, <3>4, <3>5
  <2>3. T = SUBSET D
    <3>1. InductiveOn(T, D)
      BY <2>1, <2>2 DEF InductiveOn
    <3> HIDE DEF T
    <3> QED
      BY <3>1, SubsetInduction
  <2> QED
    BY <1>1, <2>3
<1>7. ASSUME NEW m \in Int, \A x \in D : f[x] >= m
      PROVE  Total(f) >= m * Cardinality(D)
  <2> DEFINE T == {s \in SUBSET D : g[s] >= m * Cardinality(s)}
  <2>1. {} \in T
    BY <1>2, <1>4
  <2>2. ASSUME NEW s \in SUBSET D, NEW x \in s, s \ {x} \in T
        PROVE  s \in T
    <3>1. Cardinality(s \ {x}) = Cardinality(s) - 1
      BY OneLess
    <3>2. g[s \ {x}] >= m * (Cardinality(s) - 1)
      BY <2>2, <3>1
    <3>3. m * Cardinality(s) = m * (Cardinality(s) - 1) + m
      BY <1>3, <1>5
    <3>4. m * (Cardinality(s) - 1) \in Int /\ g[s \ {x}] \in Int /\ f[x] \in Int
      BY <1>3
    <3>5. g[s] = f[x] + g[s \ {x}] /\ f[x] >= m
      BY <1>2, <1>7
    <3> QED
      BY <3>2, <3>3, <3>4, <3>5
  <2>3. T = SUBSET D
    <3>1. InductiveOn(T, D)
      BY <2>1, <2>2 DEF InductiveOn
    <3> HIDE DEF T
    <3> QED
      BY <3>1, SubsetInduction
  <2> QED
    BY <1>1, <2>3
<1> QED
  BY <1>6, <1>7

\* A larger function has the larger sum.
LEMMA TotalGrows ==
  ASSUME NEW D, IsFiniteSet(D), NEW e \in [D -> Int], NEW f \in [D -> Int],
         \A x \in D : e[x] <= f[x]
  PROVE  Total(e) <= Total(f)
<1>1. PICK g \in [SUBSET D -> Int] : AddsUp(g, e, D) /\ Total(e) = g[D]
  BY TotalIsSum
<1>2. PICK h \in [SUBSET D -> Int] : AddsUp(h, f, D) /\ Total(f) = h[D]
  BY TotalIsSum
<1>3. TakesApart(g, e, D) /\ TakesApart(h, f, D)
  BY <1>1, <1>2, AnyOrder
<1> DEFINE T == {s \in SUBSET D : g[s] <= h[s]}
<1>4. {} \in T
  BY <1>3 DEF TakesApart
<1>5. ASSUME NEW s \in SUBSET D, NEW x \in s, s \ {x} \in T
      PROVE  s \in T
  <2>1. g[s] = e[x] + g[s \ {x}] /\ h[s] = f[x] + h[s \ {x}]
    BY <1>3 DEF TakesApart
  <2>2. g[s \ {x}] \in Int /\ h[s \ {x}] \in Int /\ e[x] \in Int /\ f[x] \in Int
    OBVIOUS
  <2> QED
    BY <1>5, <2>1, <2>2
<1>6. InductiveOn(T, D)
  BY <1>4, <1>5 DEF InductiveOn
<1>7. T = SUBSET D
  <2> HIDE DEF T
  <2> QED
    BY <1>6, SubsetInduction
<1> QED
  BY <1>1, <1>2, <1>7

\* The sum of natural numbers, and one of them.
LEMMA TotalOfNat ==
  ASSUME NEW D, IsFiniteSet(D), NEW f \in [D -> Nat]
  PROVE  /\ Total(f) \in Nat
         /\ \A w \in D : f[w] <= Total(f)
<1>1. f \in [D -> Int] /\ Cardinality(D) \in Nat
  BY FS_CardinalityType
<1>2. ASSUME NEW e \in [D -> Nat] PROVE Total(e) >= 0
  <2>1. e \in [D -> Int] /\ \A x \in D : e[x] >= 0
    OBVIOUS
  <2>2. Total(e) >= 0 * Cardinality(D)
    BY <2>1, TotalBounds
  <2> QED
    BY <1>1, <2>2
<1>3. Total(f) \in Int
  <2>1. PICK g \in [SUBSET D -> Int] : AddsUp(g, f, D) /\ Total(f) = g[D]
    BY <1>1, TotalIsSum
  <2> QED
    BY <2>1
<1>4. ASSUME NEW w \in D PROVE f[w] <= Total(f)
  <2> DEFINE e == [f EXCEPT ![w] = 0]
  <2>1. e \in [D -> Nat] /\ e[w] = 0 /\ \A x \in D \ {w} : e[x] = f[x]
    OBVIOUS
  <2> HIDE DEF e
  <2>2. e \in [D -> Int] /\ Total(e) >= 0
    BY <1>2, <2>1
  <2>3. Total(e) = Total(f) - f[w] + e[w]
    BY <1>1, <2>1, <2>2, TotalChanges
  <2> QED
    BY <1>3, <2>1, <2>2, <2>3
<1> QED
  BY <1>2, <1>3, <1>4

-----------------------------------------------------------------------------
(* The invariants. *)

\* What a worker has of the queue: what it had acknowledged, and a call.
Holdings ==
    [w \in Workers |-> localTxCounter[w] + IF wpc[w] = "sent" THEN 1 ELSE 0]

\* Every transaction is in the queue, with a worker, or counted as an error.
NoneIsLost == left + Total(Holdings) + countErr = DumpSize

\* Until the counter wraps, the address at k was asked by every call whose
\* number has the remainder k - 1.
RoundRobin ==
    /\ Len(addr) >= 1
    /\ crashed => Wrapped /\ Len(addr) > 1
    /\ ~Wrapped =>
          /\ inc = seed + Total(asked)
          /\ \A k \in DOMAIN asked :
                asked[k] = (inc - (k - 1)) \div Len(addr) - (seed - (k - 1)) \div Len(addr)

\* A worker that is not waiting for it is past the time of its next transaction,
\* and past that of its last unless it is its first.
Paced ==
    \A w \in Workers :
        /\ localTxCounter[w] >= 1 =>
              \/ now >= threshold * (localTxCounter[w] + 1)
              \/ wpc[w] = "sleep" /\ until[w] = threshold * (localTxCounter[w] + 1)
        /\ localTxCounter[w] >= 2 => now >= threshold * localTxCounter[w]

\* The time a worker has had, or has been told to let pass; no more than a delay
\* of a sleep counts.
Share(pc, end, time) ==
    IF pc # "sleep" THEN time
    ELSE IF end <= time + mempoolOOMDelay THEN end
    ELSE time + mempoolOOMDelay

Taken == [w \in Workers |-> Share(wpc[w], until[w], now)]

\* Every refusal has taken a delay of the time of the worker that met it.
DelaysTaken == refusals * mempoolOOMDelay <= Total(Taken)

Getters == {w \in Workers : wpc[w] = "get"}

\* The calls end by then: those of the workers that wait in Get come after it.
LastCall == timeLimit + (N - Cardinality(Getters)) * Latency

CallsEnd ==
    /\ \A w \in Workers : wpc[w] = "sent" =>
          now <= until[w] /\ until[w] <= now + Latency /\ until[w] <= LastCall
    /\ Getters # {} /\ left > 0 => now <= LastCall

-----------------------------------------------------------------------------
(* Types. *)

\* TypeOK without what follows from NoneIsLost.
BaseType ==
    /\ ClientTypeOK
    /\ now \in 0 .. MaxTime /\ rate \in Rates
    /\ done \in BOOLEAN /\ crashed \in BOOLEAN
    /\ wpc \in [Workers -> {"select", "get", "sent", "sleep", "returned"}]
    /\ until \in [Workers -> Nat]
    /\ localTxCounter \in [Workers -> Nat]
    /\ left \in Nat /\ countErr \in Nat /\ refusals \in Nat
    /\ asked \in [DOMAIN addr -> Nat]
    /\ seed \in Seeds

\* The durations are natural numbers.
LEMMA Durations ==
  ASSUME rate \in Rates
  PROVE  /\ N \in Nat /\ threshold \in Nat /\ mempoolOOMDelay \in Nat
         /\ rate # 0 => Second \div rate \in Nat /\ threshold = (Second \div rate) * N
<1>1. N \in Nat
  BY WorkersAssumption, FS_CardinalityType DEF N
<1>2. rate \in Nat /\ {Second, msPerBlock, Millisecond} \subseteq Nat
  BY RatesAssumption, TimesAssumption
<1>3. \A a \in Nat, b \in Nat \ {0} : a \div b \in Nat
  OBVIOUS
<1>4. rate # 0 => Second \div rate \in Nat
  BY <1>2, <1>3
<1>5. mempoolOOMDelay \in Nat
  <2>1. msPerBlock * Millisecond \in Nat
    BY <1>2
  <2> QED
    BY <1>3, <2>1 DEF mempoolOOMDelay
<1>6. \A a, b \in Nat : a * b \in Nat
  OBVIOUS
<1>7. threshold \in Nat
  BY <1>1, <1>4, <1>6 DEF threshold
<1> QED
  BY <1>1, <1>4, <1>5, <1>7 DEF threshold

\* A call advances the counter; it is counted for an address, or panics.
LEMMA AskType ==
  ASSUME BaseType, Ask
  PROVE  /\ ClientTypeOK' /\ addr' = addr /\ inc' = AddOne(inc)
         /\ asked' \in [DOMAIN addr -> Nat] /\ crashed' \in BOOLEAN
<1>1. addr' = addr /\ inc' = AddOne(inc)
  BY DEF Ask, doRPCCall, doRPCCallPanics
<1>2. AddOne(inc) \in -(MaxInt32 + 1) .. MaxInt32
  BY MaxInt32Assumption DEF BaseType, ClientTypeOK, AddOne
<1>3. asked' \in [DOMAIN addr -> Nat] /\ crashed' \in BOOLEAN
  <2>1. CASE asked' = [asked EXCEPT ![idx + 1] = @ + 1] /\ UNCHANGED crashed
    <3>1. ASSUME NEW D, NEW f \in [D -> Nat], NEW i
          PROVE  [f EXCEPT ![i] = f[i] + 1] \in [D -> Nat]
      <4>1. CASE i \in D
        <5>1. f[i] + 1 \in Nat
          BY <4>1
        <5> QED
          BY <5>1
      <4>2. CASE i \notin D
        <5>1. [f EXCEPT ![i] = f[i] + 1] = f
          BY <4>2
        <5> QED
          BY <5>1
      <4> QED
        BY <4>1, <4>2
    <3> QED
      BY <2>1, <3>1, Zenon DEF BaseType
  <2>2. CASE crashed' = TRUE /\ UNCHANGED asked
    BY <2>2 DEF BaseType
  <2> QED
    BY <2>1, <2>2 DEF Ask
<1> QED
  BY <1>1, <1>2, <1>3 DEF BaseType, ClientTypeOK

\* Every step keeps the types.
LEMMA NextBaseType == BaseType /\ [Next]_vars => BaseType'
<1> SUFFICES ASSUME BaseType, [Next]_vars PROVE BaseType'
  OBVIOUS
<1> USE DEF BaseType
<1>1. rate \in Rates /\ threshold \in Nat /\ mempoolOOMDelay \in Nat
  BY Durations
<1>2. now \in Nat /\ MaxTime \in Nat /\ Latency \in Nat
  BY TimesAssumption
<1>3. CASE Tick
  BY <1>2, <1>3 DEF Tick, workerVars, clientVars, ClientTypeOK
<1>4. CASE Cancel
  BY <1>4 DEF Cancel, workerVars, clientVars, ClientTypeOK
<1>5. CASE ParserCall
  BY <1>5, AskType DEF ParserCall, workerVars
<1>6. ASSUME NEW w \in Workers, worker(w) PROVE BaseType'
  <2> USE DEF At, Goto, Aside, clientVars, ClientTypeOK
  <2>1. CASE Return(w)
    BY <2>1 DEF Return
  <2>2. CASE SeeTx(w)
    BY <2>2 DEF SeeTx
  <2>3. CASE SendTX(w)
    <3>1. /\ ClientTypeOK' /\ addr' = addr /\ asked' \in [DOMAIN addr -> Nat]
          /\ crashed' \in BOOLEAN
      BY <2>3, AskType DEF SendTX
    <3>2. left' \in Nat
      BY <2>3 DEF SendTX
    <3>3. now + Latency \in Nat
      BY <1>2
    <3> QED
      BY <2>3, <3>1, <3>2, <3>3 DEF SendTX
  <2>4. CASE Acked(w)
    <3>1. threshold * (localTxCounter[w] + 2) \in Nat
      <4>1. \A a, b \in Nat : a * (b + 2) \in Nat
        OBVIOUS
      <4> QED
        BY <1>1, <4>1
    <3>2. localTxCounter' \in [Workers -> Nat] /\ until' \in [Workers -> Nat]
      BY <2>4, <3>1 DEF Acked
    <3>3. wpc' \in [Workers -> {"select", "get", "sent", "sleep", "returned"}]
      BY <2>4 DEF Acked
    <3> QED
      BY <2>4, <3>2, <3>3 DEF Acked
  <2>5. CASE OutOfMemory(w)
    <3>1. now + mempoolOOMDelay \in Nat
      BY <1>1, <1>2
    <3> QED
      BY <2>5, <3>1 DEF OutOfMemory
  <2>6. CASE Fails(w)
    BY <2>6 DEF Fails
  <2>7. CASE Wake(w)
    BY <2>7 DEF Wake
  <2> QED
    BY <1>6, <2>1, <2>2, <2>3, <2>4, <2>5, <2>6, <2>7 DEF worker
<1>7. CASE UNCHANGED vars
  BY <1>7 DEF vars, clientVars, ClientTypeOK
<1> QED
  BY <1>3, <1>4, <1>5, <1>6, <1>7 DEF Next

\* A worker's step leaves the others, the clock and the rate alone.
LEMMA WorkerAlone ==
  ASSUME BaseType, NEW w \in Workers, worker(w)
  PROVE  /\ \A x \in Workers \ {w} : /\ wpc'[x] = wpc[x]
                                     /\ until'[x] = until[x]
                                     /\ localTxCounter'[x] = localTxCounter[x]
         /\ now' = now /\ rate' = rate /\ threshold' = threshold
<1> USE DEF BaseType, Goto, Aside
<1> SUFFICES /\ \A x \in Workers \ {w} : /\ wpc'[x] = wpc[x]
                                        /\ until'[x] = until[x]
                                        /\ localTxCounter'[x] = localTxCounter[x]
             /\ now' = now /\ rate' = rate
  BY DEF threshold
<1>1. CASE Return(w)
  BY <1>1 DEF Return
<1>2. CASE SeeTx(w)
  BY <1>2 DEF SeeTx
<1>3. CASE SendTX(w)
  BY <1>3 DEF SendTX
<1>4. CASE Acked(w)
  BY <1>4 DEF Acked
<1>5. CASE OutOfMemory(w)
  BY <1>5 DEF OutOfMemory
<1>6. CASE Fails(w)
  BY <1>6 DEF Fails
<1>7. CASE Wake(w)
  BY <1>7 DEF Wake
<1> QED
  BY <1>1, <1>2, <1>3, <1>4, <1>5, <1>6, <1>7 DEF worker

\* Initially there is at least one address that is not empty (client.go:50-66;
\* main.go:53-57 has asked one for its version).
LEMMA AddressesToAsk ==
  ASSUME addr \in Shuffles(rpcAddress)
  PROVE  addr \in Seq(Nodes) /\ Len(addr) >= 1
<1> DEFINE used == {i \in DOMAIN rpcAddress : rpcAddress[i] # NoAddress}
           n == Cardinality(used)
<1>1. /\ DOMAIN rpcAddress = 1 .. Len(rpcAddress) /\ Len(rpcAddress) \in Nat
      /\ \A i \in DOMAIN rpcAddress : rpcAddress[i] \in Nodes
  BY AddressAssumption, LenProperties, ElementOfSeq
<1>2. IsFiniteSet(used)
  <2>1. IsFiniteSet(1 .. Len(rpcAddress)) /\ used \in SUBSET (1 .. Len(rpcAddress))
    BY <1>1, FS_Interval
  <2> HIDE DEF used
  <2> QED
    BY <2>1, FS_Subset
<1>3. PICK p \in Bijection(1 .. n, used) : addr = [i \in DOMAIN p |-> rpcAddress[p[i]]]
  BY DEF Shuffles
<1>4. used # {}
  <2>1. SUFFICES ASSUME used = {} PROVE FALSE
    OBVIOUS
  <2>2. \A i \in DOMAIN rpcAddress : rpcAddress[i] = NoAddress
    BY <2>1
  <2>3. PICK i \in DOMAIN rpcAddress : TRUE
    <3>1. rpcAddress \in Seq(Nodes) /\ rpcAddress # <<>>
      BY AddressAssumption
    <3>2. Len(rpcAddress) # 0
      BY <3>1, EmptySeq
    <3> QED
      BY <1>1, <3>2
  <2>4. Range(rpcAddress) = {NoAddress}
    BY <2>2, <2>3, Zenon DEF Range
  <2> QED
    BY <2>4, AddressAssumption
<1>5. \A i \in used : rpcAddress[i] \in Nodes
  BY <1>1
<1>6. n \in Nat /\ n >= 1
  <2> HIDE DEF used
  <2> QED
    BY <1>2, <1>4, FS_CardinalityType, FS_EmptySet
<1> HIDE DEF used, n
<1>7. p \in [1 .. n -> used]
  BY DEF Bijection, Injection
<1>8. addr \in [1 .. n -> Nodes]
  BY <1>3, <1>5, <1>7
<1>9. addr \in Seq(Nodes) /\ DOMAIN addr = 1 .. n
  BY <1>6, <1>8, SeqDef
<1>10. Len(addr) = n
  BY <1>6, <1>9, LenProperties
<1> QED
  BY <1>6, <1>9, <1>10

\* The types initially, when the client has somewhere to call.
LEMMA InitBaseType == Init => BaseType /\ Len(addr) >= 1
<1> SUFFICES ASSUME Init PROVE BaseType /\ Len(addr) >= 1
  OBVIOUS
<1>1. addr \in Seq(Nodes) /\ Len(addr) >= 1
  BY AddressesToAsk DEF Init
<1>2. inc \in -(MaxInt32 + 1) .. MaxInt32 /\ seed \in Seeds
  BY MaxInt32Assumption DEF Init, Seeds
<1> QED
  <2>1. BaseType
    <3>1. now \in 0 .. MaxTime /\ left \in Nat
      BY TimesAssumption DEF Init
    <3> QED
      BY <1>1, <1>2, <3>1 DEF Init, BaseType, ClientTypeOK
  <2> QED
    BY <1>1, <2>1

-----------------------------------------------------------------------------
(* Every transaction is somewhere. *)

\* What a worker has is a natural number.
LEMMA HoldingsType ==
  ASSUME BaseType
  PROVE  /\ Holdings \in [Workers -> Nat] /\ Holdings \in [Workers -> Int]
         /\ \A w \in Workers :
              Holdings[w] = localTxCounter[w] + IF wpc[w] = "sent" THEN 1 ELSE 0
  BY DEF Holdings, BaseType

\* Initially everything is in the queue.
LEMMA InitNoneIsLost == Init => NoneIsLost
<1> SUFFICES ASSUME Init PROVE NoneIsLost
  OBVIOUS
<1>1. Holdings \in [Workers -> Int] /\ \A w \in Workers : Holdings[w] = 0
  BY InitBaseType, HoldingsType DEF Init
<1>2. /\ Total(Holdings) <= 0 * Cardinality(Workers)
      /\ Total(Holdings) >= 0 * Cardinality(Workers)
  BY <1>1, WorkersAssumption, TotalBounds
<1>3. Cardinality(Workers) \in Nat
  BY WorkersAssumption, FS_CardinalityType
<1>4. Total(Holdings) \in Int
  <2>1. PICK g \in [SUBSET Workers -> Int] :
           AddsUp(g, Holdings, Workers) /\ Total(Holdings) = g[Workers]
    BY <1>1, WorkersAssumption, TotalIsSum
  <2> QED
    BY <2>1
<1>5. Total(Holdings) = 0
  <2>1. 0 * Cardinality(Workers) = 0
    BY <1>3
  <2> QED
    BY <1>2, <1>4, <2>1
<1> QED
  BY <1>5, TimesAssumption DEF NoneIsLost, Init

\* A step moves a transaction from one place to another.
LEMMA NextNoneIsLost == BaseType /\ NoneIsLost /\ [Next]_vars => NoneIsLost'
<1> SUFFICES ASSUME BaseType, NoneIsLost, [Next]_vars PROVE NoneIsLost'
  OBVIOUS
<1>1. ASSUME UNCHANGED workerVars PROVE NoneIsLost'
  BY <1>1 DEF NoneIsLost, Holdings, workerVars
<1>2. ASSUME NEW w \in Workers, worker(w) PROVE NoneIsLost'
  <2>1. BaseType'
    BY NextBaseType
  <2>2. /\ Holdings' \in [Workers -> Int]
        /\ \A x \in Workers :
             Holdings'[x] = localTxCounter'[x] + IF wpc'[x] = "sent" THEN 1 ELSE 0
    BY <2>1 DEF Holdings, BaseType
  <2>3. /\ Holdings \in [Workers -> Int]
        /\ \A x \in Workers :
             Holdings[x] = localTxCounter[x] + IF wpc[x] = "sent" THEN 1 ELSE 0
    BY HoldingsType
  <2>4. \A x \in Workers \ {w} : Holdings'[x] = Holdings[x]
    BY <1>2, <2>2, <2>3, WorkerAlone
  <2>5. /\ Total(Holdings') \in Int /\ Total(Holdings) \in Int
        /\ Total(Holdings') = Total(Holdings) - Holdings[w] + Holdings'[w]
    <3> DEFINE e == Holdings'  f == Holdings
    <3>1. e \in [Workers -> Int] /\ f \in [Workers -> Int]
          /\ \A x \in Workers \ {w} : e[x] = f[x]
      BY <2>2, <2>3, <2>4
    <3> HIDE DEF e, f
    <3>2. Total(e) \in Int /\ Total(f) \in Int /\ Total(e) = Total(f) - f[w] + e[w]
      BY <3>1, WorkersAssumption, TotalChanges
    <3> QED
      BY <3>2 DEF e, f
  <2>6. left' + Holdings'[w] + countErr' = left + Holdings[w] + countErr
    <3> HIDE DEF Holdings
    <3> USE <2>2, <2>3 DEF BaseType, At, Goto, Aside
    <3>1. CASE Return(w)
      BY <3>1 DEF Return
    <3>2. CASE SeeTx(w)
      BY <3>2 DEF SeeTx
    <3>3. CASE SendTX(w)
      BY <3>3 DEF SendTX
    <3>4. CASE Acked(w)
      <4>1. wpc[w] = "sent" /\ wpc'[w] # "sent"
        BY <3>4 DEF Acked
      <4>2. localTxCounter'[w] = localTxCounter[w] + 1 /\ left' = left /\ countErr' = countErr
        BY <3>4 DEF Acked
      <4> QED
        BY <4>1, <4>2
    <3>5. CASE OutOfMemory(w)
      BY <3>5 DEF OutOfMemory
    <3>6. CASE Fails(w)
      BY <3>6 DEF Fails
    <3>7. CASE Wake(w)
      BY <3>7 DEF Wake
    <3> QED
      BY <1>2, <3>1, <3>2, <3>3, <3>4, <3>5, <3>6, <3>7 DEF worker
  <2>7. /\ Holdings[w] \in Int /\ Holdings'[w] \in Int
        /\ {left, left', countErr, countErr'} \subseteq Int
    BY <2>1, <2>2, <2>3 DEF BaseType
  <2>8. left' + Total(Holdings') + countErr' = DumpSize
    BY <2>5, <2>6, <2>7, TimesAssumption DEF NoneIsLost
  <2> QED
    BY <2>8 DEF NoneIsLost
<1> QED
  BY <1>1, <1>2 DEF Next, Tick, Cancel, ParserCall, vars, workerVars

\* So nobody has more than there was.
LEMMA TypeFollows == BaseType /\ NoneIsLost => TypeOK
<1> SUFFICES ASSUME BaseType, NoneIsLost PROVE TypeOK
  OBVIOUS
<1>1. /\ Holdings \in [Workers -> Nat]
      /\ \A w \in Workers : localTxCounter[w] <= Holdings[w]
  BY HoldingsType DEF BaseType
<1>2. Total(Holdings) \in Nat /\ \A w \in Workers : Holdings[w] <= Total(Holdings)
  BY <1>1, WorkersAssumption, TotalOfNat
<1>3. left + Total(Holdings) + countErr = DumpSize /\ left \in Nat /\ countErr \in Nat
  BY DEF NoneIsLost, BaseType
<1>4. left \in 0 .. DumpSize /\ countErr \in 0 .. DumpSize /\ Total(Holdings) <= DumpSize
  BY <1>2, <1>3, TimesAssumption
<1>5. \A w \in Workers : localTxCounter[w] \in 0 .. DumpSize
  <2> SUFFICES ASSUME NEW w \in Workers PROVE localTxCounter[w] \in 0 .. DumpSize
    OBVIOUS
  <2>1. localTxCounter[w] \in Nat /\ Holdings[w] \in Nat
    BY <1>1 DEF BaseType
  <2> QED
    BY <1>1, <1>2, <1>4, <2>1, TimesAssumption
<1>6. localTxCounter \in [Workers -> 0 .. DumpSize]
  BY <1>5 DEF BaseType
<1> QED
  BY <1>4, <1>6 DEF BaseType, TypeOK

\* Both hold throughout.
LEMMA BaseInvariant == Spec => [](BaseType /\ NoneIsLost)
<1>1. Init => BaseType /\ NoneIsLost
  BY InitBaseType, InitNoneIsLost
<1>2. BaseType /\ NoneIsLost /\ [Next]_vars => (BaseType /\ NoneIsLost)'
  BY NextBaseType, NextNoneIsLost
<1> QED
  BY <1>1, <1>2, PTL DEF Spec

\* Type correctness, with what bounds it: no transaction is lost or doubled, so
\* that no counter exceeds the dump (worker.go:238-260).
THEOREM TypeCorrect == Spec => []TypeOK
  BY BaseInvariant, TypeFollows, PTL

-----------------------------------------------------------------------------
(* The round robin. *)

\* The address that is asked: by the remainder, while the counter is no negative
\* number; with one address always that one.
LEMMA AddressAsked ==
  ASSUME BaseType, Len(addr) >= 1
  PROVE  /\ Len(addr) \in Nat \ {0} /\ DOMAIN addr = 1 .. Len(addr)
         /\ idx \in Int /\ idx < Len(addr)
         /\ AddOne(inc) >= 0 => idx = AddOne(inc) % Len(addr) /\ idx >= 0
         /\ Len(addr) = 1 => idx = 0
         /\ CallPanics <=> idx < 0
<1> DEFINE n == Len(addr)
           a == AddOne(inc)
<1>1. n \in Nat \ {0} /\ DOMAIN addr = 1 .. n /\ addr # <<>>
  <2>1. addr \in Seq(Nodes)
    BY DEF BaseType, ClientTypeOK
  <2>2. n \in Nat /\ DOMAIN addr = 1 .. n /\ n # 0
    BY <2>1, LenProperties
  <2>3. addr # <<>>
    BY <2>1, <2>2, EmptySeq
  <2> QED
    BY <2>2, <2>3
<1>2. a \in Int
  BY MaxInt32Assumption DEF BaseType, ClientTypeOK, AddOne
<1>3. idx = IF a >= 0 THEN a % n ELSE -((-a) % n)
  BY DEF idx, Remainder
<1> HIDE DEF n, a
<1>4. a % n \in 0 .. n - 1 /\ (-a) % n \in 0 .. n - 1
  <2>1. -a \in Int
    BY <1>2
  <2> QED
    BY <1>1, <1>2, <2>1, Numbers!Division
<1>5. /\ idx \in Int /\ idx < n
      /\ a >= 0 => idx = a % n /\ idx >= 0
      /\ n = 1 => idx = 0
  BY <1>1, <1>2, <1>3, <1>4
<1>6. CallPanics <=> idx < 0
  BY <1>1 DEF CallPanics
<1> QED
  BY <1>1, <1>5, <1>6 DEF n, a

\* Initially nobody has been asked.
LEMMA InitRoundRobin == Init => RoundRobin
<1> SUFFICES ASSUME Init PROVE RoundRobin
  OBVIOUS
<1>1. BaseType /\ Len(addr) >= 1
  BY InitBaseType
<1>2. IsFiniteSet(DOMAIN addr)
  BY <1>1, AddressAsked, FS_Interval
<1>3. asked \in [DOMAIN addr -> Int] /\ \A k \in DOMAIN addr : asked[k] = 0
  BY DEF Init
<1>4. Total(asked) = 0
  <2>1. /\ Total(asked) <= 0 * Cardinality(DOMAIN addr)
        /\ Total(asked) >= 0 * Cardinality(DOMAIN addr)
    BY <1>2, <1>3, TotalBounds
  <2>2. Cardinality(DOMAIN addr) \in Nat /\ Total(asked) \in Nat
    BY <1>1, <1>2, FS_CardinalityType, TotalOfNat DEF BaseType
  <2> QED
    BY <2>1, <2>2
<1>5. inc = seed /\ seed \in Int /\ ~crashed
  BY DEF Init, Seeds
<1>6. \A k \in DOMAIN asked : asked[k] =
        (inc - (k - 1)) \div Len(addr) - (seed - (k - 1)) \div Len(addr)
  <2> SUFFICES ASSUME NEW k \in DOMAIN asked
               PROVE  asked[k] = (inc - (k - 1)) \div Len(addr) - (seed - (k - 1)) \div Len(addr)
    OBVIOUS
  <2>1. k \in Nat /\ asked[k] = 0
    BY <1>1, <1>3, AddressAsked
  <2>2. (inc - (k - 1)) \div Len(addr) \in Int
    BY <1>1, <1>5, <2>1, AddressAsked
  <2> QED
    BY <1>5, <2>1, <2>2
<1> QED
  BY <1>1, <1>4, <1>5, <1>6 DEF RoundRobin

\* A call keeps the invariant, and does not panic before the counter wraps.
LEMMA AskRoundRobin ==
  ASSUME BaseType, RoundRobin, Ask, ~crashed, seed' = seed
  PROVE  RoundRobin'
<1> DEFINE n == Len(addr)
<1>1. /\ n \in Nat \ {0} /\ DOMAIN addr = 1 .. n /\ idx \in Int /\ idx < n
      /\ AddOne(inc) >= 0 => idx = AddOne(inc) % n /\ idx >= 0
      /\ n = 1 => idx = 0
      /\ CallPanics <=> idx < 0
  BY AddressAsked DEF RoundRobin
<1>2. addr' = addr /\ inc' = AddOne(inc) /\ asked' \in [DOMAIN addr -> Nat]
  BY AskType
<1>3. /\ IsFiniteSet(DOMAIN addr) /\ asked \in [DOMAIN addr -> Nat]
      /\ inc \in Int /\ seed \in Int /\ MaxInt32 \in Nat /\ inc <= MaxInt32 /\ seed >= 0
  BY <1>1, FS_Interval, MaxInt32Assumption DEF BaseType, ClientTypeOK, Seeds
<1>4. Total(asked) \in Nat
  BY <1>3, TotalOfNat
<1>5. ~Wrapped <=> seed + Total(asked) <= MaxInt32
  BY <1>3, <1>4 DEF Wrapped
\* Before the counter wraps, the next number is the next to be counted.
<1>6. ASSUME seed + Total(asked) + 1 <= MaxInt32
      PROVE  /\ inc = seed + Total(asked) /\ AddOne(inc) = inc + 1 /\ inc + 1 >= 0
             /\ idx = (inc + 1) % n /\ idx >= 0
             /\ \A k \in DOMAIN asked :
                   asked[k] = (inc - (k - 1)) \div n - (seed - (k - 1)) \div n
  <2>1. ~Wrapped
    BY <1>3, <1>4, <1>5, <1>6
  <2>2. /\ inc = seed + Total(asked)
        /\ \A k \in DOMAIN asked :
              asked[k] = (inc - (k - 1)) \div n - (seed - (k - 1)) \div n
    BY <2>1 DEF RoundRobin
  <2>3. AddOne(inc) = inc + 1 /\ inc + 1 >= 0
    BY <1>3, <1>4, <1>6, <2>2 DEF AddOne
  <2> QED
    BY <1>1, <2>2, <2>3
<1> HIDE DEF n
<1>7. CASE doRPCCallPanics /\ crashed' = TRUE /\ UNCHANGED asked
  <2>1. idx < 0
    BY <1>1, <1>7 DEF doRPCCallPanics
  <2>2. n # 1
    BY <1>1, <2>1
  <2>3. ~(seed + Total(asked) + 1 <= MaxInt32)
    BY <1>6, <2>1, <1>1
  <2>4. Wrapped'
    <3>1. Total(asked') = Total(asked)
      BY <1>7
    <3> QED
      BY <1>3, <1>4, <1>7, <2>3, <3>1 DEF Wrapped
  <2>5. Len(addr') > 1 /\ Len(addr') >= 1
    BY <1>1, <1>2, <2>2 DEF n
  <2> QED
    BY <2>4, <2>5 DEF RoundRobin
<1>8. CASE /\ \E m \in Nodes : doRPCCall(m)
           /\ asked' = [asked EXCEPT ![idx + 1] = @ + 1]
           /\ UNCHANGED crashed
  <2>1. idx >= 0 /\ idx + 1 \in DOMAIN addr
    BY <1>1, <1>8 DEF doRPCCall
  <2>2. /\ asked'[idx + 1] = asked[idx + 1] + 1
        /\ \A k \in DOMAIN addr \ {idx + 1} : asked'[k] = asked[k]
    BY <1>3, <1>8, <2>1
  <2>3. Total(asked') = Total(asked) + 1
    <3> DEFINE e == asked'
               w == idx + 1
    <3>1. /\ e \in [DOMAIN addr -> Int] /\ asked \in [DOMAIN addr -> Int] /\ w \in DOMAIN addr
          /\ \A k \in DOMAIN addr \ {w} : e[k] = asked[k]
      BY <1>2, <1>3, <2>1, <2>2
    <3>2. e[w] = asked[w] + 1
      BY <2>2
    <3> HIDE DEF e, w
    <3>3. Total(e) = Total(asked) - asked[w] + e[w]
      BY <1>3, <3>1, TotalChanges
    <3>4. Total(e) = Total(asked) + 1
      BY <1>4, <3>1, <3>2, <3>3
    <3> QED
      BY <3>4 DEF e
  <2>4. ~crashed'
    BY <1>8
  <2>5. ASSUME ~Wrapped'
        PROVE  /\ inc' = seed' + Total(asked')
               /\ \A k \in DOMAIN asked' :
                     asked'[k] = (inc' - (k - 1)) \div n - (seed' - (k - 1)) \div n
    <3>1. seed + Total(asked) + 1 <= MaxInt32
      BY <1>3, <1>4, <2>3, <2>4, <2>5 DEF Wrapped
    <3>2. /\ inc = seed + Total(asked) /\ inc' = inc + 1 /\ idx = (inc + 1) % n
          /\ \A k \in DOMAIN asked :
                asked[k] = (inc - (k - 1)) \div n - (seed - (k - 1)) \div n
      BY <1>2, <1>6, <3>1
    <3>3. ASSUME NEW k \in DOMAIN addr
          PROVE  asked'[k] = (inc' - (k - 1)) \div n - (seed' - (k - 1)) \div n
      <4> DEFINE j == k - 1
      <4>1. k \in Int /\ j \in 0 .. n - 1
        BY <1>1
      <4>2. asked[k] = (inc - j) \div n - (seed - j) \div n
        BY <1>3, <3>2
      <4> HIDE DEF j
      <4>3. (inc - j) + 1 = (inc + 1) - j /\ inc - j \in Int /\ inc + 1 \in Int
        BY <1>3, <4>1
      <4>4. ((inc - j) + 1) \div n = (inc - j) \div n + IF ((inc - j) + 1) % n = 0 THEN 1 ELSE 0
        BY <1>1, <4>3, Numbers!DivisionStep
      <4>5. ((inc + 1) - j) % n = 0 <=> (inc + 1) % n = j
        BY <1>1, <4>1, <4>3, Numbers!SameRemainder
      <4>6. (inc + 1) % n = j <=> k = idx + 1
        BY <1>1, <3>2, <4>1 DEF j
      <4>7. ((inc + 1) - j) \div n = (inc - j) \div n + IF k = idx + 1 THEN 1 ELSE 0
        BY <4>3, <4>4, <4>5, <4>6
      <4>8. asked'[k] = asked[k] + IF k = idx + 1 THEN 1 ELSE 0
        BY <1>3, <2>2
      <4>9. (inc - j) \div n \in Int /\ (seed - j) \div n \in Int
        <5>1. seed - j \in Int
          BY <1>3, <4>1
        <5> QED
          BY <1>1, <4>3, <5>1, Numbers!Division
      <4>10. asked'[k] = ((inc + 1) - j) \div n - (seed - j) \div n
        BY <4>2, <4>7, <4>8, <4>9
      <4> QED
        BY <3>2, <4>10 DEF j
    <3>4. inc' = seed' + Total(asked')
      BY <1>3, <1>4, <2>3, <3>2
    <3> QED
      BY <1>2, <3>3, <3>4
  <2> QED
    BY <1>1, <1>2, <2>4, <2>5 DEF RoundRobin, n
<1> QED
  BY <1>7, <1>8 DEF Ask

\* Every step keeps the round robin: only calls touch it.
LEMMA NextRoundRobin == BaseType /\ RoundRobin /\ [Next]_vars => RoundRobin'
<1> SUFFICES ASSUME BaseType, RoundRobin, [Next]_vars PROVE RoundRobin'
  OBVIOUS
<1>1. ASSUME UNCHANGED <<clientVars, asked, seed, crashed>> PROVE RoundRobin'
  BY <1>1 DEF RoundRobin, Wrapped, clientVars
<1>2. CASE ParserCall
  BY <1>2, AskRoundRobin DEF ParserCall
<1>3. ASSUME NEW w \in Workers, worker(w) PROVE RoundRobin'
  <2>1. CASE SendTX(w)
    BY <2>1, AskRoundRobin DEF SendTX, At
  <2>2. CASE ~SendTX(w)
    BY <1>1, <1>3, <2>2 DEF worker, Return, SeeTx, Acked, OutOfMemory, Fails, Wake, Aside
  <2> QED
    BY <2>1, <2>2
<1>4. CASE Tick \/ Cancel \/ UNCHANGED vars
  BY <1>1, <1>4 DEF Tick, Cancel, vars, clientVars
<1> QED
  BY <1>2, <1>3, <1>4 DEF Next

\* It holds throughout.
LEMMA RoundRobinInvariant == Spec => [](BaseType /\ RoundRobin)
<1>1. Init => BaseType /\ RoundRobin
  BY InitBaseType, InitRoundRobin
<1>2. BaseType /\ RoundRobin /\ [Next]_vars => (BaseType /\ RoundRobin)'
  BY NextBaseType, NextRoundRobin
<1> QED
  BY <1>1, <1>2, PTL DEF Spec

\* Until the counter has wrapped, the calls of all goroutines together are spread
\* evenly over the addresses (client.go:166-175).
THEOREM CallsAreSpread == Spec => []AddressesBalanced
<1>1. BaseType /\ RoundRobin => AddressesBalanced
  <2> SUFFICES ASSUME BaseType, RoundRobin, ~Wrapped, NEW j \in DOMAIN asked, NEW k \in DOMAIN asked
               PROVE  asked[j] <= asked[k] + 1
    BY DEF AddressesBalanced
  <2> DEFINE n == Len(addr)
  <2>1. n \in Nat \ {0} /\ j \in Int /\ k \in Int /\ inc \in Int /\ seed \in Int
    <3>1. Len(addr) \in Nat \ {0} /\ DOMAIN addr = 1 .. Len(addr)
      BY AddressAsked DEF RoundRobin
    <3>2. DOMAIN asked = DOMAIN addr
      BY DEF BaseType
    <3> QED
      BY <3>1, <3>2, MaxInt32Assumption DEF BaseType, ClientTypeOK, Seeds
  <2> DEFINE a == inc - (j - 1)
             b == seed - (j - 1)
             c == inc - (k - 1)
             d == seed - (k - 1)
  <2>2. /\ asked[j] = (a \div n) - (b \div n)
        /\ asked[k] = (c \div n) - (d \div n)
    BY DEF RoundRobin
  <2>3. a \in Int /\ b \in Int /\ c \in Int /\ d \in Int /\ a - b = c - d
    BY <2>1
  <2> HIDE DEF n, a, b, c, d
  <2>4. (a \div n) - (b \div n) <= (c \div n) - (d \div n) + 1
    BY <2>1, <2>3, Numbers!SameDistance
  <2> QED
    BY <2>2, <2>4
<1> QED
  BY <1>1, RoundRobinInvariant, PTL

\* A call panics only after that, and never with a single address (client.go:167).
THEOREM PanicsNeedTheWrap == Spec => []PanicsOnlyAfterWrap
<1>1. RoundRobin => PanicsOnlyAfterWrap
  BY DEF RoundRobin, PanicsOnlyAfterWrap
<1> QED
  BY <1>1, RoundRobinInvariant, PTL

-----------------------------------------------------------------------------
(* The rate limit. *)

\* Initially nothing has been acknowledged.
LEMMA InitPaced == Init => Paced
<1> SUFFICES ASSUME Init, NEW w \in Workers PROVE localTxCounter[w] = 0
  BY DEF Paced
<1> QED
  BY DEF Init

\* An acknowledgement sets the time of the next transaction, and nothing but its
\* passing lets the worker go on.
LEMMA NextPaced == BaseType /\ Paced /\ [Next]_vars => Paced'
<1> SUFFICES ASSUME BaseType, Paced, [Next]_vars PROVE Paced'
  OBVIOUS
<1>1. /\ threshold \in Nat /\ now \in Nat
      /\ \A w \in Workers : localTxCounter[w] \in Nat /\ until[w] \in Nat
  BY Durations, TimesAssumption DEF BaseType
<1>2. ASSUME UNCHANGED <<rate, wpc, until, localTxCounter>>, now' \in Nat, now' >= now
      PROVE  Paced'
  <2>1. threshold' = threshold
    BY <1>2 DEF threshold
  <2>2. \A c \in Nat : threshold * c \in Nat /\ threshold * (c + 1) \in Nat
    BY <1>1
  <2> SUFFICES ASSUME NEW w \in Workers
               PROVE  /\ localTxCounter[w] >= 1 =>
                            \/ now' >= threshold * (localTxCounter[w] + 1)
                            \/ wpc[w] = "sleep" /\ until[w] = threshold * (localTxCounter[w] + 1)
                      /\ localTxCounter[w] >= 2 => now' >= threshold * localTxCounter[w]
    BY <1>2, <2>1 DEF Paced
  <2> QED
    BY <1>1, <1>2, <2>2 DEF Paced
<1>3. ASSUME NEW w \in Workers, worker(w) PROVE Paced'
  <2>1. /\ \A x \in Workers \ {w} : /\ wpc'[x] = wpc[x] /\ until'[x] = until[x]
                                   /\ localTxCounter'[x] = localTxCounter[x]
        /\ now' = now /\ threshold' = threshold
    BY <1>3, WorkerAlone
  <2> DEFINE P(pc, u, c) ==
               /\ c >= 1 => (now >= threshold * (c + 1)
                            \/ (pc = "sleep" /\ u = threshold * (c + 1)))
               /\ c >= 2 => now >= threshold * c
             c0 == localTxCounter[w]
  <2>2. \A x \in Workers : P(wpc[x], until[x], localTxCounter[x])
    BY DEF Paced
  <2>3. SUFFICES P(wpc'[w], until'[w], localTxCounter'[w])
    BY <2>1, <2>2 DEF Paced
  <2>4. c0 \in Nat /\ P(wpc[w], until[w], c0)
    BY <1>1, <2>2
  <2> USE DEF At, Goto, BaseType
  <2>5. ASSUME localTxCounter'[w] = c0, wpc[w] # "sleep" PROVE P(wpc'[w], until'[w], localTxCounter'[w])
    BY <2>4, <2>5
  <2>6. CASE Return(w) \/ SeeTx(w) \/ SendTX(w) \/ OutOfMemory(w) \/ Fails(w)
    BY <2>5, <2>6 DEF Return, SeeTx, SendTX, OutOfMemory, Fails
  <2>7. CASE Acked(w)
    <3>1. /\ wpc[w] = "sent" /\ localTxCounter'[w] = c0 + 1
          /\ until'[w] = threshold * (c0 + 2)
          /\ wpc'[w] = IF threshold > 0 /\ until'[w] > now THEN "sleep" ELSE "select"
      BY <2>7 DEF Acked
    <3>2. c0 >= 1 => now >= threshold * (c0 + 1)
      BY <2>4, <3>1
    <3>3. threshold * (c0 + 2) \in Nat /\ (threshold = 0 => threshold * (c0 + 2) = 0)
      BY <1>1, <2>4
    <3>4. wpc'[w] = "sleep" \/ now >= threshold * (c0 + 2)
      BY <1>1, <3>1, <3>3
    <3> DEFINE c1 == c0 + 1
    <3>5. c1 \in Nat /\ c1 + 1 = c0 + 2 /\ (c1 >= 2 => c0 >= 1)
      BY <2>4
    <3>6. P(wpc'[w], until'[w], c1)
      BY <3>1, <3>2, <3>4, <3>5
    <3> QED
      BY <3>1, <3>6
  <2>8. CASE Wake(w)
    <3>1. now >= until[w] /\ localTxCounter'[w] = c0
      BY <2>8 DEF Wake
    <3> QED
      BY <2>4, <3>1
  <2> QED
    BY <1>3, <2>6, <2>7, <2>8 DEF worker
<1>4. CASE Tick
  BY <1>1, <1>2, <1>4 DEF Tick, workerVars
<1>5. CASE Cancel \/ ParserCall \/ UNCHANGED vars
  BY <1>1, <1>2, <1>5 DEF Cancel, ParserCall, workerVars, vars
<1> QED
  BY <1>3, <1>4, <1>5 DEF Next

\* The pace is kept throughout.
LEMMA PacedInvariant == Spec => [](BaseType /\ Paced)
<1>1. Init => BaseType /\ Paced
  BY InitBaseType, InitPaced
<1>2. BaseType /\ Paced /\ [Next]_vars => (BaseType /\ Paced)'
  BY NextBaseType, NextPaced
<1> QED
  BY <1>1, <1>2, PTL DEF Spec

\* Every worker has had at most now \div threshold acknowledgements, or one.
LEMMA PacedKeepsRate == BaseType /\ Paced => RateKept
<1> SUFFICES ASSUME BaseType, Paced, rate # 0, Total(localTxCounter) > N
             PROVE  Total(localTxCounter) * (Second \div rate) <= now
  BY DEF RateKept
<1> DEFINE t == Total(localTxCounter)
           q == Second \div rate
<1>1. /\ N \in Nat /\ threshold \in Nat /\ q \in Nat /\ threshold = q * N /\ now \in Nat
      /\ \A w \in Workers : localTxCounter[w] \in Nat
  BY Durations, TimesAssumption DEF BaseType
<1>2. localTxCounter \in [Workers -> Int] /\ t \in Nat /\ IsFiniteSet(Workers)
  BY WorkersAssumption, TotalOfNat DEF BaseType
<1>3. \A m \in Int : (\A w \in Workers : localTxCounter[w] <= m) => t <= m * N
  BY <1>2, TotalBounds DEF N
<1>4. PICK v \in Workers : localTxCounter[v] >= 2
  <2>1. (\A w \in Workers : localTxCounter[w] <= 1) => t <= 1 * N
    BY <1>3
  <2>2. ~(t <= 1 * N)
    BY <1>1, <1>2
  <2> QED
    BY <1>1, <2>1, <2>2
<1> HIDE DEF t, q
<1>5. CASE threshold = 0
  <2>1. N >= 1
    BY <1>1, WorkersAssumption, FS_EmptySet DEF N
  <2>2. q = 0
    BY <1>1, <1>5, <2>1
  <2> QED
    BY <1>1, <1>2, <2>2 DEF t, q
<1>6. CASE threshold > 0
  <2> DEFINE m == now \div threshold
  <2>1. now = threshold * m + (now % threshold) /\ now % threshold \in 0 .. threshold - 1 /\ m \in Int
    <3>1. threshold \in Nat \ {0} /\ now \in Int
      BY <1>1, <1>6
    <3> QED
      BY <3>1, Numbers!Division
  <2> HIDE DEF m
  <2>2. ASSUME NEW c \in Nat, threshold * c <= now PROVE c <= m
    <3>1. threshold * c <= threshold * m + (threshold - 1)
      BY <1>1, <2>1, <2>2
    <3>2. threshold * (c - m) <= threshold - 1
      BY <1>1, <2>1, <3>1
    <3>3. c - m >= 1 => threshold * (c - m) >= threshold
      BY <1>1, <2>1
    <3> QED
      BY <1>1, <2>1, <3>2, <3>3
  <2>3. \A w \in Workers : localTxCounter[w] >= 2 => localTxCounter[w] <= m
    BY <1>1, <2>2 DEF Paced
  <2>4. \A w \in Workers : localTxCounter[w] <= m
    <3>1. m >= 2
      BY <1>1, <1>4, <2>1, <2>3
    <3> QED
      BY <1>1, <2>1, <2>3, <3>1
  <2>5. t <= m * N
    BY <1>3, <2>1, <2>4
  <2>6. t * q <= (m * N) * q
    BY <1>1, <1>2, <2>1, <2>5
  <2>7. (m * N) * q = threshold * m
    BY <1>1, <2>1
  <2>8. threshold * m <= now
    BY <1>1, <2>1
  <2>9. t * q \in Int /\ threshold * m \in Int
    BY <1>1, <1>2, <2>1
  <2>10. t * q <= now
    BY <1>1, <2>6, <2>7, <2>8, <2>9
  <2> QED
    BY <2>10 DEF t, q
<1> QED
  BY <1>1, <1>5, <1>6

\* The workers together keep the rate limit, though each looks at its own count
\* and clock only, however late answers and sleeps are (worker.go:259-269).
THEOREM RateIsKept == Spec => []RateKept
  BY PacedKeepsRate, PacedInvariant, PTL

-----------------------------------------------------------------------------
(* The delays after a refusal. *)

\* A share is a duration, no longer than a delay from now.
LEMMA ShareType ==
  ASSUME mempoolOOMDelay \in Nat, NEW pc, NEW end \in Nat, NEW time \in Nat
  PROVE  /\ Share(pc, end, time) \in Nat
         /\ Share(pc, end, time) <= time + mempoolOOMDelay
BY DEF Share

\* The workers' times are durations, at most a delay from now.
LEMMA TakenType ==
  ASSUME BaseType
  PROVE  /\ mempoolOOMDelay \in Nat /\ now \in Nat
         /\ Taken \in [Workers -> Int]
         /\ \A w \in Workers : Taken[w] <= now + mempoolOOMDelay
<1>1. mempoolOOMDelay \in Nat /\ now \in Nat /\ \A w \in Workers : until[w] \in Nat
  BY Durations, TimesAssumption DEF BaseType
<1> QED
  BY <1>1, ShareType DEF Taken

\* Initially nothing was refused.
LEMMA InitDelaysTaken == Init => DelaysTaken
<1> SUFFICES ASSUME Init PROVE DelaysTaken
  OBVIOUS
<1>1. mempoolOOMDelay \in Nat /\ Taken \in [Workers -> Int]
  BY InitBaseType, TakenType
<1>2. \A w \in Workers : Taken[w] >= 0
  BY DEF Init, Taken, Share
<1>3. Total(Taken) >= 0 * Cardinality(Workers) /\ Cardinality(Workers) \in Nat
  BY <1>1, <1>2, WorkersAssumption, TotalBounds, FS_CardinalityType
<1>4. Total(Taken) >= 0
  BY <1>3
<1>5. refusals * mempoolOOMDelay = 0
  BY <1>1 DEF Init
<1> QED
  BY <1>4, <1>5 DEF DelaysTaken

\* A refusal adds a delay to its worker's time, and nothing takes from it.
LEMMA NextDelaysTaken == BaseType /\ DelaysTaken /\ [Next]_vars => DelaysTaken'
<1> SUFFICES ASSUME BaseType, DelaysTaken, [Next]_vars PROVE DelaysTaken'
  OBVIOUS
<1>1. /\ mempoolOOMDelay \in Nat /\ now \in Nat /\ now' \in Nat /\ refusals \in Nat
      /\ \A w \in Workers : until[w] \in Nat /\ until'[w] \in Nat
  BY NextBaseType, Durations, TimesAssumption DEF BaseType
<1>2. Taken \in [Workers -> Int] /\ \A w \in Workers : Taken[w] = Share(wpc[w], until[w], now)
  BY TakenType DEF Taken
<1>3. /\ Taken' \in [Workers -> Int]
      /\ \A w \in Workers : Taken'[w] = Share(wpc'[w], until'[w], now')
  BY <1>1, ShareType DEF Taken
\* A worker's time never becomes less.
<1>4. ASSUME refusals' = refusals, \A w \in Workers : Taken'[w] >= Taken[w]
      PROVE  DelaysTaken'
  <2> DEFINE e == Taken'
  <2>1. e \in [Workers -> Int] /\ \A w \in Workers : Taken[w] <= e[w]
    BY <1>2, <1>3, <1>4
  <2> HIDE DEF e
  <2>2. Total(Taken) <= Total(e)
    BY <1>2, <2>1, WorkersAssumption, TotalGrows
  <2>3. Total(Taken) \in Int /\ Total(e) \in Int
    <3>1. \E g \in [SUBSET Workers -> Int] : AddsUp(g, e, Workers) /\ Total(e) = g[Workers]
      BY <2>1, WorkersAssumption, TotalIsSum
    <3>2. \E g \in [SUBSET Workers -> Int] : AddsUp(g, Taken, Workers) /\ Total(Taken) = g[Workers]
      BY <1>2, WorkersAssumption, TotalIsSum
    <3> QED
      BY <3>1, <3>2
  <2>4. refusals * mempoolOOMDelay \in Nat
    BY <1>1
  <2>5. refusals' * mempoolOOMDelay <= Total(e)
    BY <1>4, <2>2, <2>3, <2>4 DEF DelaysTaken
  <2> QED
    BY <2>5 DEF DelaysTaken, e
<1>5. ASSUME UNCHANGED <<wpc, until, refusals>>, now' >= now PROVE DelaysTaken'
  <2>1. \A w \in Workers : Taken'[w] >= Taken[w]
    BY <1>1, <1>2, <1>3, <1>5 DEF Share
  <2> QED
    BY <1>4, <1>5, <2>1
<1>6. ASSUME NEW w \in Workers, worker(w) PROVE DelaysTaken'
  <2>1. now' = now /\ \A x \in Workers \ {w} : Taken'[x] = Taken[x]
    BY <1>2, <1>3, <1>6, WorkerAlone
  <2>2. ASSUME refusals' = refusals, Taken'[w] >= Taken[w] PROVE DelaysTaken'
    <3>1. \A x \in Workers : Taken'[x] >= Taken[x]
      <4> SUFFICES ASSUME NEW x \in Workers PROVE Taken'[x] >= Taken[x]
        OBVIOUS
      <4>1. Taken[x] \in Int
        BY <1>2
      <4> QED
        BY <2>1, <2>2, <4>1
    <3> QED
      BY <1>4, <2>2, <3>1
  <2> USE DEF At, Goto, BaseType
  <2>3. ASSUME wpc[w] # "sleep", wpc'[w] # "sleep", refusals' = refusals PROVE DelaysTaken'
    <3>1. Taken'[w] >= Taken[w]
      BY <1>1, <1>2, <1>3, <2>1, <2>3 DEF Share
    <3> QED
      BY <2>2, <2>3, <3>1
  <2>4. CASE Return(w) \/ SeeTx(w) \/ SendTX(w) \/ Fails(w)
    BY <2>3, <2>4 DEF Return, SeeTx, SendTX, Fails
  <2>5. CASE Acked(w)
    <3>1. wpc[w] = "sent" /\ refusals' = refusals /\ (wpc'[w] # "sleep" \/ until'[w] > now)
      BY <2>5 DEF Acked
    <3>2. Taken[w] = now
      BY <1>2, <3>1 DEF Share
    <3>3. Taken'[w] >= now
      BY <1>1, <1>3, <2>1, <3>1 DEF Share
    <3> QED
      BY <2>2, <3>1, <3>2, <3>3
  <2>6. CASE OutOfMemory(w)
    <3>1. /\ wpc[w] = "sent" /\ wpc'[w] = "sleep" /\ refusals' = refusals + 1
          /\ until'[w] = now + mempoolOOMDelay
      BY <2>6 DEF OutOfMemory
    <3>2. Taken[w] = now /\ Taken'[w] = now + mempoolOOMDelay
      BY <1>1, <1>2, <1>3, <2>1, <3>1 DEF Share
    <3> DEFINE e == Taken'
    <3>3. /\ e \in [Workers -> Int] /\ e[w] = now + mempoolOOMDelay
          /\ \A x \in Workers \ {w} : e[x] = Taken[x]
      BY <1>3, <2>1, <3>2
    <3> HIDE DEF e
    <3>4. /\ Total(e) \in Int /\ Total(Taken) \in Int
          /\ Total(e) = Total(Taken) - Taken[w] + e[w]
      BY <1>2, <3>3, WorkersAssumption, TotalChanges
    <3>5. Total(e) = Total(Taken) + mempoolOOMDelay
      BY <1>1, <3>2, <3>3, <3>4
    <3>6. (refusals + 1) * mempoolOOMDelay = refusals * mempoolOOMDelay + mempoolOOMDelay
      BY <1>1
    <3>7. refusals * mempoolOOMDelay <= Total(Taken) /\ refusals * mempoolOOMDelay \in Nat
      BY <1>1 DEF DelaysTaken
    <3>8. refusals' * mempoolOOMDelay <= Total(e)
      BY <1>1, <3>1, <3>4, <3>5, <3>6, <3>7
    <3> QED
      BY <3>8 DEF e, DelaysTaken
  <2>7. CASE Wake(w)
    <3>1. wpc[w] = "sleep" /\ wpc'[w] = "select" /\ now >= until[w] /\ refusals' = refusals
      BY <2>7 DEF Wake
    <3>2. Taken[w] <= now /\ Taken'[w] = now
      BY <1>1, <1>2, <1>3, <2>1, <3>1 DEF Share
    <3> QED
      BY <2>2, <3>1, <3>2
  <2> QED
    BY <1>6, <2>4, <2>5, <2>6, <2>7 DEF worker
<1>7. CASE Tick
  BY <1>1, <1>5, <1>7 DEF Tick, workerVars
<1>8. CASE Cancel \/ ParserCall \/ UNCHANGED vars
  BY <1>1, <1>5, <1>8 DEF Cancel, ParserCall, workerVars, vars
<1> QED
  BY <1>6, <1>7, <1>8 DEF Next

\* A node without memory is asked once per delay and worker (worker.go:243-250).
THEOREM RefusalsAreSpaced == Spec => []RefusalsSpaced
<1>1. Init => BaseType /\ DelaysTaken
  BY InitBaseType, InitDelaysTaken
<1>2. BaseType /\ DelaysTaken /\ [Next]_vars => (BaseType /\ DelaysTaken)'
  BY NextBaseType, NextDelaysTaken
<1>3. BaseType /\ DelaysTaken => RefusalsSpaced
  <2> SUFFICES ASSUME BaseType, DelaysTaken PROVE RefusalsSpaced
    OBVIOUS
  <2> DEFINE m == now + mempoolOOMDelay
  <2>1. /\ mempoolOOMDelay \in Nat /\ m \in Int /\ Taken \in [Workers -> Int]
        /\ \A w \in Workers : Taken[w] <= m
    BY TakenType
  <2> HIDE DEF m
  <2>2. Total(Taken) <= m * N
    BY <2>1, WorkersAssumption, TotalBounds DEF N
  <2>3. PICK g \in [SUBSET Workers -> Int] : AddsUp(g, Taken, Workers) /\ Total(Taken) = g[Workers]
    BY <2>1, WorkersAssumption, TotalIsSum
  <2>4. N \in Nat /\ refusals \in Nat
    BY Durations DEF BaseType
  <2>5. m * N = N * m /\ m * N \in Int /\ refusals * mempoolOOMDelay \in Nat /\ Total(Taken) \in Int
    BY <2>1, <2>3, <2>4
  <2>6. refusals * mempoolOOMDelay <= N * m
    BY <2>2, <2>5 DEF DelaysTaken
  <2> QED
    BY <2>6 DEF RefusalsSpaced, m
<1> QED
  BY <1>1, <1>2, <1>3, PTL DEF Spec

-----------------------------------------------------------------------------
(* The end of the sleeps. *)

\* The number of getters, and what follows from it.
LEMMA GettersLeft ==
  ASSUME BaseType
  PROVE  /\ IsFiniteSet(Getters) /\ Cardinality(Getters) \in 0 .. N
         /\ N \in Nat /\ timeLimit \in Nat /\ Latency \in Nat
         /\ LastCall \in Int /\ timeLimit <= LastCall /\ LastCall <= timeLimit + N * Latency
         /\ \A w \in Workers : wpc[w] # "get" => timeLimit + Latency <= LastCall
<1>1. N \in Nat /\ timeLimit \in Nat /\ Latency \in Nat
  BY Durations, TimesAssumption DEF BaseType
<1>2. Getters \in SUBSET Workers /\ IsFiniteSet(Workers)
  BY WorkersAssumption DEF Getters
<1>3. /\ IsFiniteSet(Getters) /\ Cardinality(Getters) \in Nat /\ Cardinality(Getters) <= N
      /\ Getters # Workers => Cardinality(Getters) < N
  BY <1>2, FS_Subset, FS_CardinalityType DEF N
<1>4. \A w \in Workers : wpc[w] # "get" => Getters # Workers
  BY DEF Getters
<1> DEFINE k == N - Cardinality(Getters)
<1>5. k \in Nat /\ k <= N /\ (Getters # Workers => k >= 1)
  BY <1>1, <1>3
<1>6. \A i, j, l \in Nat : i * l \in Nat /\ (i <= j => i * l <= j * l) /\ (i >= 1 => l <= i * l)
  OBVIOUS
<1> HIDE DEF k
<1>7. k * Latency \in Nat /\ k * Latency <= N * Latency /\ (k >= 1 => Latency <= k * Latency)
  BY <1>1, <1>5, <1>6
<1>8. LastCall = timeLimit + k * Latency /\ N * Latency \in Nat
  BY <1>1, <1>6 DEF LastCall, k
<1>9. /\ LastCall \in Int /\ timeLimit <= LastCall /\ LastCall <= timeLimit + N * Latency
      /\ k >= 1 => timeLimit + Latency <= LastCall
  BY <1>1, <1>7, <1>8
<1>10. \A w \in Workers : wpc[w] # "get" => timeLimit + Latency <= LastCall
  BY <1>4, <1>5, <1>9
<1> QED
  BY <1>1, <1>3, <1>9, <1>10

\* The same after a step.
LEMMA LastCallAfter ==
  (BaseType => /\ LastCall \in Int /\ timeLimit <= LastCall
               /\ \A w \in Workers : wpc[w] # "get" => timeLimit + Latency <= LastCall)'
<1>1. BaseType => /\ LastCall \in Int /\ timeLimit <= LastCall
                  /\ \A w \in Workers : wpc[w] # "get" => timeLimit + Latency <= LastCall
  BY GettersLeft
<1> QED
  BY <1>1, PTL

\* The bound on the sleeps: one may begin as late as the last call ends.
LEMMA SleepEnds ==
  ASSUME BaseType
  PROVE  /\ LastSleep \in Int /\ threshold \in Nat /\ mempoolOOMDelay \in Nat
         /\ \A t \in Int : t <= LastCall => t + threshold <= LastSleep /\ t + mempoolOOMDelay <= LastSleep
<1>1. threshold \in Nat /\ mempoolOOMDelay \in Nat
  BY Durations DEF BaseType
<1>2. LastCall \in Int /\ LastCall <= timeLimit + N * Latency /\ timeLimit + N * Latency \in Int
  BY GettersLeft
<1> DEFINE m == timeLimit + N * Latency
<1>3. m \in Int /\ LastCall <= m /\ LastSleep = m + Longer(threshold, mempoolOOMDelay)
  BY <1>2 DEF LastSleep
<1> HIDE DEF m
<1>4. /\ LastSleep \in Int
      /\ m + threshold <= LastSleep /\ m + mempoolOOMDelay <= LastSleep
  BY <1>1, <1>3 DEF Longer
<1> QED
  BY <1>1, <1>2, <1>3, <1>4

\* A worker does not sleep longer than LeavesInTime allows.
InTime(w) == until[w] <= LastSleep \/ (localTxCounter[w] = 1 /\ until[w] = 2 * threshold)

\* A worker that looks at the time before the limit calls at once or waits in Get,
\* where only a refusal, itself the end of a call, can give it something to send.
LEMMA NextCallsEnd == BaseType /\ Paced /\ CallsEnd /\ LeavesInTime /\ [Next]_vars
                         => CallsEnd' /\ LeavesInTime'
<1> SUFFICES ASSUME BaseType, Paced, CallsEnd, LeavesInTime, [Next]_vars
             PROVE  CallsEnd' /\ LeavesInTime'
  OBVIOUS
<1>0. BaseType'
  BY NextBaseType
<1>1. /\ IsFiniteSet(Getters) /\ Cardinality(Getters) \in 0 .. N
      /\ N \in Nat /\ timeLimit \in Nat /\ Latency \in Nat
      /\ LastCall \in Int /\ timeLimit <= LastCall
  BY GettersLeft
<1>2. /\ LastSleep \in Int /\ threshold \in Nat /\ mempoolOOMDelay \in Nat
      /\ \A t \in Int : t <= LastCall => t + threshold <= LastSleep /\ t + mempoolOOMDelay <= LastSleep
  BY SleepEnds
<1>3. /\ now \in Nat /\ now' \in Nat /\ left \in Nat /\ left' \in Nat
      /\ \A x \in Workers : until[x] \in Nat /\ until'[x] \in Nat /\ localTxCounter[x] \in Nat
  BY <1>0, TimesAssumption DEF BaseType
<1>4. /\ \A x \in Workers : wpc[x] = "sent" =>
            now <= until[x] /\ until[x] <= now + Latency /\ until[x] <= LastCall
      /\ Getters # {} /\ left > 0 => now <= LastCall
  BY DEF CallsEnd
<1>5. ASSUME rate' = rate PROVE LastSleep' = LastSleep
  BY <1>5 DEF LastSleep, threshold
<1>s. \A x \in Workers : wpc[x] = "sleep" => InTime(x)
  BY DEF LeavesInTime, InTime
<1>t. ASSUME \A x \in Workers : wpc'[x] = "sleep" => InTime(x)' PROVE LeavesInTime'
  BY <1>t DEF LeavesInTime, InTime
<1>6. CASE Tick
  <2>1. /\ now' = now + 1 /\ UNCHANGED <<rate, wpc, until, localTxCounter, left>>
        /\ \A x \in Workers : wpc[x] = "sent" => now < until[x]
        /\ Getters = {} \/ left = 0
    BY <1>6 DEF Tick, workerVars, Getters
  <2>2. LastSleep' = LastSleep /\ LastCall' = LastCall /\ Getters' = Getters
    BY <1>5, <2>1 DEF LastCall, Getters
  <2>3. LeavesInTime'
    BY <2>1 DEF LeavesInTime, LastSleep, threshold
  <2>4. \A x \in Workers : wpc[x] = "sent" => now + 1 <= until[x] /\ until[x] <= (now + 1) + Latency
    BY <1>1, <1>3, <1>4, <2>1
  <2>5. CallsEnd'
    BY <1>4, <2>1, <2>2, <2>4 DEF CallsEnd
  <2> QED
    BY <2>3, <2>5
<1>7. CASE Cancel \/ ParserCall \/ UNCHANGED vars
  <2>1. UNCHANGED <<now, rate, wpc, until, localTxCounter, left>>
    BY <1>7 DEF Cancel, ParserCall, workerVars, vars
  <2> QED
    BY <2>1 DEF CallsEnd, LeavesInTime, LastSleep, LastCall, Getters, threshold
<1>8. ASSUME NEW w \in Workers, worker(w) PROVE CallsEnd' /\ LeavesInTime'
  <2>1. /\ \A x \in Workers \ {w} : /\ wpc'[x] = wpc[x] /\ until'[x] = until[x]
                                   /\ localTxCounter'[x] = localTxCounter[x]
        /\ now' = now /\ rate' = rate /\ threshold' = threshold
    BY <1>8, WorkerAlone
  <2>2. LastSleep' = LastSleep
    BY <1>5, <2>1
  <2>3. ASSUME wpc'[w] = "sleep" => InTime(w)'
        PROVE  LeavesInTime'
    <3>1. \A x \in Workers \ {w} : wpc'[x] = "sleep" => InTime(x)'
      BY <1>s, <2>1, <2>2 DEF InTime
    <3> QED
      BY <1>t, <2>3, <3>1
  <2>4. ASSUME wpc[w] # "get", wpc'[w] # "get" PROVE Getters' = Getters /\ LastCall' = LastCall
    <3>1. Getters' = Getters
      BY <2>1, <2>4 DEF Getters
    <3> QED
      BY <3>1 DEF LastCall
  \* A step that neither asks for a transaction nor sends one.
  <2>5. ASSUME wpc[w] # "get", wpc'[w] \notin {"get", "sent"},
               left' > 0 => left > 0 \/ now <= LastCall
        PROVE  CallsEnd'
    <3>1. Getters' = Getters /\ LastCall' = LastCall
      BY <2>4, <2>5
    <3>2. \A x \in Workers : wpc'[x] = "sent" =>
             now <= until'[x] /\ until'[x] <= now + Latency /\ until'[x] <= LastCall
      BY <1>4, <2>1, <2>5
    <3>3. Getters # {} /\ left' > 0 => now <= LastCall
      BY <1>4, <2>5
    <3> QED
      BY <2>1, <3>1, <3>2, <3>3 DEF CallsEnd
  <2> USE DEF At, Goto, BaseType
  <2>6. CASE Return(w)
    <3>1. wpc[w] = "select" /\ wpc'[w] = "returned" /\ left' = left
      BY <2>6 DEF Return
    <3> QED
      BY <2>3, <2>5, <3>1
  <2>7. CASE SeeTx(w)
    <3>1. wpc[w] = "select" /\ wpc'[w] = "get" /\ now < timeLimit
      BY <2>7 DEF SeeTx
    <3>2. /\ LastCall' \in Int /\ timeLimit <= LastCall'
          /\ \A x \in Workers : wpc'[x] # "get" => timeLimit + Latency <= LastCall'
      <4> HIDE DEF At, Goto, BaseType
      <4> QED
        BY <1>0, LastCallAfter
    <3>3. \A x \in Workers : wpc'[x] = "sent" =>
             /\ wpc[x] = "sent" /\ until'[x] = until[x]
             /\ until[x] <= now + Latency /\ timeLimit + Latency <= LastCall'
      BY <1>4, <2>1, <3>1, <3>2
    <3>4. \A x \in Workers : wpc'[x] = "sent" =>
             now <= until'[x] /\ until'[x] <= now + Latency /\ until'[x] <= LastCall'
      <4> SUFFICES ASSUME NEW x \in Workers, wpc'[x] = "sent"
                   PROVE  now <= until[x] /\ until[x] <= now + Latency /\ until[x] <= LastCall'
        BY <3>3
      <4>1. now <= until[x] /\ until[x] <= now + Latency /\ timeLimit + Latency <= LastCall'
        BY <1>4, <3>3
      <4> QED
        BY <1>1, <1>3, <3>1, <3>2, <4>1
    <3>5. now <= LastCall'
      BY <1>1, <1>3, <3>1, <3>2
    <3>6. CallsEnd'
      BY <2>1, <3>4, <3>5 DEF CallsEnd
    <3> QED
      BY <2>3, <3>1, <3>6
  <2>8. CASE SendTX(w)
    <3>1. /\ wpc[w] = "get" /\ wpc'[w] = "sent" /\ left > 0 /\ until'[w] = now + Latency
      BY <2>8 DEF SendTX
    <3>2. w \in Getters /\ Getters' = Getters \ {w}
      BY <2>1, <3>1 DEF Getters
    <3>3. Cardinality(Getters') = Cardinality(Getters) - 1
      BY <1>1, <3>2, FS_RemoveElement
    <3>4. LastCall' = LastCall + Latency
      <4> DEFINE c == Cardinality(Getters)
      <4>1. LastCall' = timeLimit + (N - (c - 1)) * Latency /\ LastCall = timeLimit + (N - c) * Latency
        BY <3>3 DEF LastCall
      <4>2. c \in Int
        BY <1>1
      <4> HIDE DEF c
      <4>3. (N - (c - 1)) * Latency = (N - c) * Latency + Latency /\ (N - c) * Latency \in Int
        BY <1>1, <4>2
      <4> QED
        BY <1>1, <4>1, <4>3
    <3>5. now <= LastCall
      BY <1>4, <3>1, <3>2
    <3>6. \A x \in Workers : wpc'[x] = "sent" =>
             now <= until'[x] /\ until'[x] <= now + Latency /\ until'[x] <= LastCall'
      <4>1. \A x \in Workers \ {w} : wpc'[x] = "sent" =>
               now <= until'[x] /\ until'[x] <= now + Latency /\ until'[x] <= LastCall'
        BY <1>1, <1>3, <1>4, <2>1, <3>4
      <4>2. now <= until'[w] /\ until'[w] <= now + Latency /\ until'[w] <= LastCall'
        BY <1>1, <1>3, <3>1, <3>4, <3>5
      <4> QED
        BY <4>1, <4>2
    <3>7. now <= LastCall'
      BY <1>1, <1>3, <3>4, <3>5
    <3>8. CallsEnd'
      BY <2>1, <3>6, <3>7 DEF CallsEnd
    <3> QED
      BY <2>3, <3>1, <3>8
  <2>9. CASE Acked(w)
    <3>1. /\ wpc[w] = "sent" /\ left' = left
          /\ until'[w] = threshold * (localTxCounter[w] + 2)
          /\ localTxCounter'[w] = localTxCounter[w] + 1
          /\ wpc'[w] \in {"sleep", "select"}
      BY <2>9 DEF Acked
    <3> DEFINE c == localTxCounter[w]
    <3>2. c \in Nat /\ (c >= 1 => now >= threshold * (c + 1))
      BY <1>3, <3>1 DEF Paced
    <3>3. now <= LastCall
      BY <1>1, <1>3, <1>4, <3>1
    <3> HIDE DEF c
    <3>4. /\ threshold * (c + 2) = threshold * (c + 1) + threshold
          /\ threshold * (c + 1) \in Nat
          /\ c = 0 => threshold * (c + 2) = 2 * threshold
      BY <1>2, <3>2
    <3>5. until'[w] <= LastSleep \/ (localTxCounter'[w] = 1 /\ until'[w] = 2 * threshold)
      <4>1. CASE c = 0
        BY <3>1, <3>4, <4>1 DEF c
      <4>2. CASE c >= 1
        <5>1. now + threshold <= LastSleep
          BY <1>2, <1>3, <3>3
        <5>2. until'[w] = threshold * (c + 2)
          BY <3>1 DEF c
        <5> QED
          BY <1>2, <1>3, <3>2, <3>4, <4>2, <5>1, <5>2
      <4> QED
        BY <3>2, <4>1, <4>2
    <3>6. InTime(w)'
      BY <2>1, <2>2, <3>5 DEF InTime
    <3> QED
      BY <2>3, <2>5, <3>1, <3>6
  <2>10. CASE OutOfMemory(w)
    <3>1. wpc[w] = "sent" /\ wpc'[w] = "sleep" /\ until'[w] = now + mempoolOOMDelay
      BY <2>10 DEF OutOfMemory
    <3>2. now <= LastCall
      BY <1>1, <1>3, <1>4, <3>1
    <3>3. now + mempoolOOMDelay <= LastSleep
      BY <1>2, <1>3, <3>2
    <3>4. InTime(w)'
      BY <2>2, <3>1, <3>3 DEF InTime
    <3> QED
      BY <2>3, <2>5, <3>1, <3>2, <3>4
  <2>11. CASE Fails(w)
    <3>1. wpc[w] = "sent" /\ wpc'[w] = "select" /\ left' = left
      BY <2>11 DEF Fails
    <3> QED
      BY <2>3, <2>5, <3>1
  <2>12. CASE Wake(w)
    <3>1. wpc[w] = "sleep" /\ wpc'[w] = "select" /\ left' = left
      BY <2>12 DEF Wake
    <3> QED
      BY <2>3, <2>5, <3>1
  <2> QED
    BY <1>8, <2>6, <2>7, <2>8, <2>9, <2>10, <2>11, <2>12 DEF worker
<1> QED
  BY <1>6, <1>7, <1>8 DEF Next

\* Nobody sleeps on for longer than a threshold or a delay after the last call
\* that can follow the time limit, unless it is the sleep after the worker's first
\* acknowledgement, which ends at the second threshold however far off that is
\* (worker.go:228-269).
THEOREM SleepsEndInTime == Spec => []LeavesInTime
<1> DEFINE I == BaseType /\ Paced /\ CallsEnd /\ LeavesInTime
<1>1. Init => I
  <2> SUFFICES ASSUME Init PROVE CallsEnd /\ LeavesInTime
    BY InitBaseType, InitPaced
  <2>1. \A w \in Workers : wpc[w] = "select"
    BY DEF Init
  <2>2. Getters = {}
    BY <2>1 DEF Getters
  <2> QED
    BY <2>1, <2>2 DEF CallsEnd, LeavesInTime
<1>2. I /\ [Next]_vars => I'
  BY NextBaseType, NextPaced, NextCallsEnd
<1>3. I => LeavesInTime
  OBVIOUS
<1> QED
  BY <1>1, <1>2, <1>3, PTL DEF Spec
=============================================================================
