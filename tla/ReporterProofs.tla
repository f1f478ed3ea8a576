---------------------------- MODULE ReporterProofs ----------------------------
(***************************************************************************)
(* What the sums of Reporter do, for lists of any length, after facts      *)
(* about numbers that other proofs rest on as well.  The induction         *)
(* theorems of the library range over predicates, so the induction over    *)
(* the length of a list is made here over sets of numbers.                 *)
(***************************************************************************)
EXTENDS Reporter, SequenceTheorems, WellFoundedInduction, TLAPS

-----------------------------------------------------------------------------
(* Numbers: the least one, induction, quotients and remainders. *)

\* A set of naturals that is not empty has a least element.
LEMMA LeastNat ==
  ASSUME NEW T \in SUBSET Nat, T # {}
  PROVE  \E m \in T : \A n \in T : m <= n
<1> DEFINE R == {ss \in Nat \X Nat : ss[1] < ss[2]}
<1>1. IsWellFoundedOn(R, Nat)
  BY NatLessThanWellFounded DEF OpToRel
<1>2. \A m, n \in T : <<n, m>> \in R <=> n < m
  OBVIOUS
<1> HIDE DEF R
<1>3. PICK m \in T : \A n \in T : ~(<<n, m>> \in R)
  BY <1>1, WFMin
<1> SUFFICES ASSUME NEW n \in T PROVE m <= n
  OBVIOUS
<1>4. ~(n < m) /\ n \in Nat /\ m \in Nat
  BY <1>2, <1>3
<1> QED
  BY <1>4

\* A set of naturals that holds zero and every successor holds them all.
LEMMA SetInduction ==
  ASSUME NEW T \in SUBSET Nat, 0 \in T, \A n \in T : n + 1 \in T
  PROVE  T = Nat
<1> SUFFICES ASSUME T # Nat PROVE FALSE
  OBVIOUS
<1>1. PICK m \in Nat \ T : \A n \in Nat \ T : m <= n
  BY LeastNat
<1>2. m # 0 /\ m - 1 \in Nat /\ m - 1 \in T
  BY <1>1
<1> QED
  BY <1>1, <1>2

-----------------------------------------------------------------------------
\* Quotient and remainder.
LEMMA Division ==
  ASSUME NEW a \in Int, NEW n \in Nat \ {0}
  PROVE  a = n * (a \div n) + (a % n) /\ a % n \in 0 .. n - 1 /\ a \div n \in Int
OBVIOUS

\* They are the only ones.
LEMMA DivisionIsUnique ==
  ASSUME NEW n \in Nat \ {0}, NEW q \in Int, NEW r \in 0 .. n - 1, NEW a \in Int,
         a = n * q + r
  PROVE  a \div n = q /\ a % n = r
<1> DEFINE p == a \div n
           s == a % n
<1>1. n * q + r = n * p + s /\ s \in 0 .. n - 1 /\ p \in Int
  BY Division
<1> HIDE DEF p, s
<1>2. n * (q - p) = s - r
  BY <1>1
<1>3. q - p >= 1 => n * (q - p) >= n
  BY <1>1
<1>4. q - p <= -1 => n * (q - p) <= -n
  BY <1>1
<1>5. q = p
  BY <1>1, <1>2, <1>3, <1>4
<1>6. s = r
  BY <1>1, <1>5
<1> QED
  BY <1>5, <1>6 DEF p, s

\* The quotient grows with the number when the remainder is zero again.
LEMMA DivisionStep ==
  ASSUME NEW a \in Int, NEW n \in Nat \ {0}
  PROVE  (a + 1) \div n = a \div n + IF (a + 1) % n = 0 THEN 1 ELSE 0
<1> DEFINE q == a \div n
           r == a % n
<1>1. a = n * q + r /\ r \in 0 .. n - 1 /\ q \in Int
  BY Division
<1> DEFINE c == a + 1
<1>2. c = a + 1 /\ c \in Int
  OBVIOUS
<1> HIDE DEF q, r, c
<1>3. CASE r = n - 1
  <2> DEFINE p == q + 1
             z == 0
  <2>1. n * (q + 1) = n * q + n
    BY <1>1
  <2>2. c = n * p + z /\ p \in Int /\ z \in 0 .. n - 1
    BY <1>1, <1>2, <1>3, <2>1
  <2>3. p = q + 1 /\ z = 0
    OBVIOUS
  <2> HIDE DEF p, z
  <2>4. c \div n = p /\ c % n = z
    BY <1>2, <2>2, DivisionIsUnique
  <2>5. c \div n = q + IF c % n = 0 THEN 1 ELSE 0
    BY <1>1, <2>3, <2>4
  <2> QED
    BY <2>5 DEF c, q
<1>4. CASE r # n - 1
  <2> DEFINE t == r + 1
  <2>1. c = n * q + t /\ t \in 0 .. n - 1 /\ t # 0
    BY <1>1, <1>2, <1>4
  <2> HIDE DEF t
  <2>2. c \div n = q /\ c % n = t
    BY <1>1, <1>2, <2>1, DivisionIsUnique
  <2>3. c \div n = q + IF c % n = 0 THEN 1 ELSE 0
    BY <1>1, <2>1, <2>2
  <2> QED
    BY <2>3 DEF c, q
<1> QED
  BY <1>3, <1>4

\* Which numbers have the remainder j.
LEMMA SameRemainder ==
  ASSUME NEW a \in Int, NEW n \in Nat \ {0}, NEW j \in 0 .. n - 1
  PROVE  (a - j) % n = 0 <=> a % n = j
<1> DEFINE q == a \div n
           p == (a - j) \div n
<1>1. a = n * q + (a % n) /\ a % n \in 0 .. n - 1 /\ q \in Int
  BY Division
<1>2. a - j = n * p + ((a - j) % n) /\ (a - j) % n \in 0 .. n - 1 /\ p \in Int
  <2>1. a - j \in Int
    OBVIOUS
  <2> QED
    BY <2>1, Division
<1> HIDE DEF q, p
<1>3. ASSUME (a - j) % n = 0 PROVE a % n = j
  <2>1. a = n * p + j /\ p \in Int
    BY <1>2, <1>3
  <2> HIDE DEF p
  <2> QED
    BY <2>1, DivisionIsUnique
<1>4. ASSUME a % n = j PROVE (a - j) % n = 0
  <2> DEFINE c == a - j
  <2>1. c = n * q + 0 /\ 0 \in 0 .. n - 1 /\ c \in Int /\ q \in Int
    BY <1>1, <1>4
  <2> HIDE DEF c
  <2>2. c % n = 0
    BY <2>1, DivisionIsUnique
  <2> QED
    BY <2>2 DEF c
<1> QED
  BY <1>3, <1>4

\* Numbers as far apart have quotients as far apart, give or take one.
LEMMA SameDistance ==
  ASSUME NEW n \in Nat \ {0}, NEW a \in Int, NEW b \in Int, NEW c \in Int, NEW d \in Int,
         a - b = c - d
  PROVE  a \div n - b \div n <= c \div n - d \div n + 1
<1> DEFINE p == a \div n - b \div n
           q == c \div n - d \div n
<1>1. ASSUME NEW x \in Int, NEW y \in Int
      PROVE  /\ x \div n - y \div n \in Int
             /\ n * (x \div n - y \div n) < x - y + n
             /\ n * (x \div n - y \div n) > x - y - n
  <2> DEFINE u == x \div n
             v == y \div n
  <2>1. x = n * u + (x % n) /\ x % n \in 0 .. n - 1 /\ u \in Int
    BY Division
  <2>2. y = n * v + (y % n) /\ y % n \in 0 .. n - 1 /\ v \in Int
    BY Division
  <2> HIDE DEF u, v
  <2>3. n * (u - v) = (x - (x % n)) - (y - (y % n))
    BY <2>1, <2>2
  <2>4. u - v \in Int /\ n * (u - v) < x - y + n /\ n * (u - v) > x - y - n
    BY <2>1, <2>2, <2>3
  <2> QED
    BY <2>4 DEF u, v
<1>2. p \in Int /\ q \in Int /\ n * p < a - b + n /\ n * q > c - d - n
  BY <1>1
<1> HIDE DEF p, q
<1>3. p - q >= 2 => n * (p - q) >= 2 * n
  BY <1>2
<1>4. n * (p - q) < 2 * n
  <2>1. n * (p - q) = n * p - n * q
    BY <1>2
  <2>2. n * p \in Int /\ n * q \in Int /\ a - b \in Int /\ c - d \in Int
    BY <1>2
  <2>3. \A i, j, k \in Int : i < k + n /\ j > k - n => i - j < 2 * n
    OBVIOUS
  <2> QED
    BY <1>2, <2>1, <2>2, <2>3
<1>5. p <= q + 1
  BY <1>2, <1>3, <1>4
<1> QED
  BY <1>5 DEF p, q

-----------------------------------------------------------------------------
\* f adds up the first k elements of s.
AddsUp(f, s, k) ==
    f = [i \in 0 .. k |-> IF i = 0 THEN 0 ELSE f[i - 1] + s[i]]

\* A function that adds up a list exists, and is one of integers.
LEMMA AddsUpExists ==
  ASSUME NEW s \in Seq(Int), NEW k \in 0 .. Len(s)
  PROVE  \E f \in [0 .. k -> Int] : AddsUp(f, s, k)
<1> DEFINE T == {n \in Nat : n <= Len(s) => \E f \in [0 .. n -> Int] : AddsUp(f, s, n)}
<1>n. Len(s) \in Nat /\ \A i \in 1 .. Len(s) : s[i] \in Int
  BY LenProperties, ElementOfSeq
<1>1. 0 \in T
  <2>1. [i \in 0 .. 0 |-> 0] \in [0 .. 0 -> Int]
    OBVIOUS
  <2>2. AddsUp([i \in 0 .. 0 |-> 0], s, 0)
    BY DEF AddsUp
  <2> QED
    BY <2>1, <2>2
<1>2. ASSUME NEW n \in T PROVE n + 1 \in T
  <2> SUFFICES ASSUME n + 1 <= Len(s)
               PROVE  \E h \in [0 .. n + 1 -> Int] : AddsUp(h, s, n + 1)
    OBVIOUS
  <2>1. n \in Nat /\ n <= Len(s) /\ s[n + 1] \in Int
    BY <1>n
  <2>2. PICK f \in [0 .. n -> Int] : AddsUp(f, s, n)
    BY <2>1
  <2> DEFINE h == [i \in 0 .. n + 1 |-> IF i = n + 1 THEN f[n] + s[n + 1] ELSE f[i]]
  <2>3. h \in [0 .. n + 1 -> Int]
    BY <2>1
  <2>4. ASSUME NEW i \in 0 .. n + 1
        PROVE  h[i] = IF i = 0 THEN 0 ELSE h[i - 1] + s[i]
    <3>1. CASE i = n + 1
      BY <2>1, <3>1
    <3>2. CASE i # n + 1
      <4>1. i \in 0 .. n /\ h[i] = f[i] /\ (i # 0 => i - 1 \in 0 .. n /\ h[i - 1] = f[i - 1])
        BY <2>1, <3>2
      <4>2. f[i] = IF i = 0 THEN 0 ELSE f[i - 1] + s[i]
        BY <2>2, <4>1 DEF AddsUp
      <4> QED
        BY <4>1, <4>2
    <3> QED
      BY <3>1, <3>2
  <2> HIDE DEF h
  <2>5. AddsUp(h, s, n + 1)
    BY <2>3, <2>4 DEF AddsUp
  <2> QED
    BY <2>3, <2>5
<1>3. T = Nat
  <2> HIDE DEF T
  <2> QED
    BY <1>1, <1>2, SetInduction DEF T
<1> QED
  BY <1>3, <1>n

\* The sums of a list, element by element (report.go:137-139).
LEMMA PartialSumsDef ==
  ASSUME NEW s \in Seq(Int)
  PROVE  /\ PartialSums(s) \in [0 .. Len(s) -> Int]
         /\ PartialSums(s)[0] = 0
         /\ \A i \in 1 .. Len(s) : PartialSums(s)[i] = PartialSums(s)[i - 1] + s[i]
<1>1. Len(s) \in Nat
  BY LenProperties
<1>2. PICK f \in [0 .. Len(s) -> Int] : AddsUp(f, s, Len(s))
  BY <1>1, AddsUpExists
<1>3. AddsUp(PartialSums(s), s, Len(s))
  BY <1>2 DEF PartialSums, AddsUp
<1>4. \A i \in 1 .. Len(s) : s[i] \in Int
  BY ElementOfSeq
<1> DEFINE g == PartialSums(s)
<1>5. /\ g = [i \in 0 .. Len(s) |-> g[i]]
      /\ \A i \in 0 .. Len(s) : g[i] = IF i = 0 THEN 0 ELSE g[i - 1] + s[i]
  BY <1>3 DEF AddsUp
<1> HIDE DEF g
<1>6. \A i \in 0 .. Len(s) : g[i] \in Int
  <2> DEFINE T == {i \in 0 .. Len(s) : g[i] \notin Int}
  <2> SUFFICES ASSUME T # {} PROVE FALSE
    OBVIOUS
  <2>1. PICK m \in T : \A i \in T : m <= i
    <3>1. T \in SUBSET Nat
      BY <1>1
    <3> HIDE DEF T
    <3> QED
      BY <3>1, LeastNat
  <2>2. m # 0 /\ m \in 1 .. Len(s) /\ m - 1 \in 0 .. Len(s)
    BY <1>1, <1>5, <2>1
  <2>3. g[m - 1] \in Int
    BY <2>1, <2>2
  <2>4. g[m] = g[m - 1] + s[m] /\ s[m] \in Int
    BY <1>4, <1>5, <2>2
  <2> QED
    BY <2>1, <2>3, <2>4
<1>7. g \in [0 .. Len(s) -> Int]
  BY <1>5, <1>6
<1>8. g[0] = 0 /\ \A i \in 1 .. Len(s) : g[i] = g[i - 1] + s[i]
  BY <1>1, <1>5
<1> QED
  BY <1>7, <1>8 DEF g

\* Two lists that agree up to k have the same sums up to k.
LEMMA SamePartialSums ==
  ASSUME NEW s \in Seq(Int), NEW t \in Seq(Int), NEW k \in Nat,
         k <= Len(s), k <= Len(t), \A i \in 1 .. k : s[i] = t[i]
  PROVE  PartialSums(s)[k] = PartialSums(t)[k]
<1> DEFINE f == PartialSums(s)
           g == PartialSums(t)
           T == {i \in 0 .. k : f[i] # g[i]}
<1>n. Len(s) \in Nat /\ Len(t) \in Nat
  BY LenProperties
<1>1. /\ f[0] = g[0]
      /\ \A i \in 1 .. k : f[i] = f[i - 1] + s[i] /\ g[i] = g[i - 1] + t[i]
  BY <1>n, PartialSumsDef
<1>2. ASSUME T # {} PROVE FALSE
  <2>1. PICK m \in T : \A i \in T : m <= i
    <3>1. T \in SUBSET Nat
      OBVIOUS
    <3> HIDE DEF T
    <3> QED
      BY <3>1, <1>2, LeastNat
  <2> HIDE DEF f, g
  <2>2. m # 0 /\ m \in 1 .. k /\ m - 1 \in 0 .. k /\ m - 1 \notin T
    BY <1>1, <2>1
  <2> QED
    BY <1>1, <2>1, <2>2
<1> QED
  BY <1>2

\* An empty list adds up to nothing.
LEMMA SumOfEmpty == SumOf(<<>>) = 0
  BY PartialSumsDef, EmptySeq DEF SumOf

\* A sum of integers is an integer.
LEMMA SumOfInt == ASSUME NEW s \in Seq(Int) PROVE SumOf(s) \in Int
  BY PartialSumsDef, LenProperties DEF SumOf

\* One more number adds that number.
LEMMA SumOfAppend ==
  ASSUME NEW s \in Seq(Int), NEW x \in Int
  PROVE  SumOf(Append(s, x)) = SumOf(s) + x
<1> DEFINE t == Append(s, x)
<1>1. /\ t \in Seq(Int) /\ Len(t) = Len(s) + 1 /\ Len(s) \in Nat
      /\ t[Len(s) + 1] = x /\ \A i \in 1 .. Len(s) : s[i] = t[i]
  BY AppendProperties, LenProperties
<1> HIDE DEF t
<1>2. PartialSums(t)[Len(s) + 1] = PartialSums(t)[Len(s)] + x
  <2>1. Len(s) + 1 \in 1 .. Len(t) /\ (Len(s) + 1) - 1 = Len(s)
    BY <1>1
  <2>2. \A i \in 1 .. Len(t) : PartialSums(t)[i] = PartialSums(t)[i - 1] + t[i]
    BY <1>1, PartialSumsDef
  <2>3. PartialSums(t)[Len(s) + 1] = PartialSums(t)[(Len(s) + 1) - 1] + t[Len(s) + 1]
    BY <2>1, <2>2
  <2> QED
    BY <1>1, <2>1, <2>3
<1>3. PartialSums(s)[Len(s)] = PartialSums(t)[Len(s)]
  <2>1. Len(s) <= Len(s) /\ Len(s) <= Len(t)
    BY <1>1
  <2> QED
    BY <1>1, <2>1, SamePartialSums
<1> QED
  BY <1>1, <1>2, <1>3 DEF SumOf, t

\* Lists one after the other add up to the sum of their sums.
LEMMA SumOfConcat ==
  ASSUME NEW s \in Seq(Int), NEW t \in Seq(Int)
  PROVE  SumOf(s \o t) = SumOf(s) + SumOf(t)
<1> DEFINE u == s \o t
           f == PartialSums(u)
           g == PartialSums(t)
           T == {i \in 0 .. Len(t) : f[Len(s) + i] # f[Len(s)] + g[i]}
<1>1. /\ u \in Seq(Int) /\ Len(u) = Len(s) + Len(t) /\ Len(s) \in Nat /\ Len(t) \in Nat
      /\ \A i \in 1 .. Len(s) : s[i] = u[i]
      /\ \A i \in 1 .. Len(t) : t[i] = u[Len(s) + i]
  BY ConcatProperties, LenProperties
<1> HIDE DEF u
<1>2. /\ f \in [0 .. Len(u) -> Int] /\ g[0] = 0
      /\ \A i \in 1 .. Len(u) : f[i] = f[i - 1] + u[i]
      /\ g \in [0 .. Len(t) -> Int] /\ \A i \in 1 .. Len(t) : g[i] = g[i - 1] + t[i]
  BY <1>1, PartialSumsDef
<1>3. ASSUME T # {} PROVE FALSE
  <2>1. PICK m \in T : \A i \in T : m <= i
    <3>1. T \in SUBSET Nat
      BY <1>1
    <3> HIDE DEF T
    <3> QED
      BY <3>1, <1>3, LeastNat
  <2>a. f[Len(s)] \in Int
    BY <1>1, <1>2
  <2>2. m # 0
    <3>1. f[Len(s) + 0] = f[Len(s)] + g[0]
      BY <1>1, <1>2, <2>a
    <3> HIDE DEF f, g
    <3> QED
      BY <2>1, <3>1
  <2>3. m \in 1 .. Len(t) /\ m - 1 \in 0 .. Len(t) /\ m - 1 \notin T
    <3>1. m \in 0 .. Len(t) /\ \A i \in T : i \in 0 .. Len(t)
      BY <2>1
    <3> HIDE DEF T
    <3>2. m \in 1 .. Len(t) /\ m - 1 \in 0 .. Len(t) /\ ~(m <= m - 1)
      BY <1>1, <2>2, <3>1
    <3> QED
      BY <2>1, <3>2
  <2>4. f[Len(s) + (m - 1)] = f[Len(s)] + g[m - 1]
    BY <2>3
  <2> HIDE DEF f, g
  <2>5. /\ Len(s) + m \in 1 .. Len(u) /\ (Len(s) + m) - 1 = Len(s) + (m - 1)
        /\ u[Len(s) + m] = t[m] /\ t[m] \in Int
    BY <1>1, <2>3, ElementOfSeq
  <2>6. f[Len(s) + m] = f[Len(s) + (m - 1)] + t[m] /\ g[m] = g[m - 1] + t[m]
    <3>1. f[Len(s) + m] = f[(Len(s) + m) - 1] + u[Len(s) + m]
      BY <1>2, <2>5
    <3>2. g[m] = g[m - 1] + t[m]
      BY <1>2, <2>3
    <3> QED
      BY <2>5, <3>1, <3>2
  <2>7. f[Len(s)] \in Int /\ g[m - 1] \in Int
    BY <1>2, <2>a, <2>3
  <2>8. f[Len(s) + m] = f[Len(s)] + g[m]
    BY <2>4, <2>5, <2>6, <2>7
  <2> QED
    BY <2>1, <2>8
<1>4. f[Len(s) + Len(t)] = f[Len(s)] + g[Len(t)]
  <2> HIDE DEF T
  <2>0. T = {}
    BY <1>3
  <2>1. Len(t) \in 0 .. Len(t) /\ Len(t) \notin T
    BY <1>1, <2>0
  <2> HIDE DEF f, g
  <2> QED
    BY <2>1 DEF T
<1>5. PartialSums(s)[Len(s)] = f[Len(s)]
  <2>1. Len(s) <= Len(s) /\ Len(s) <= Len(u)
    BY <1>1
  <2> QED
    BY <1>1, <2>1, SamePartialSums
<1> QED
  BY <1>1, <1>4, <1>5 DEF SumOf, u

\* Numbers of which none is above zero's, or another list's, at its place.
LEMMA SumOfZeros ==
  ASSUME NEW s \in Seq(Int), \A i \in 1 .. Len(s) : s[i] = 0
  PROVE  SumOf(s) = 0
<1> DEFINE f == PartialSums(s)
           T == {i \in 0 .. Len(s) : f[i] # 0}
<1>1. Len(s) \in Nat /\ f[0] = 0 /\ \A i \in 1 .. Len(s) : f[i] = f[i - 1] + 0
  BY PartialSumsDef, LenProperties
<1> HIDE DEF f
<1>2. ASSUME T # {} PROVE FALSE
  <2>1. PICK m \in T : \A i \in T : m <= i
    <3>1. T \in SUBSET Nat
      BY <1>1
    <3> HIDE DEF T
    <3> QED
      BY <3>1, <1>2, LeastNat
  <2>2. m \in 1 .. Len(s) /\ m - 1 \in 0 .. Len(s) /\ m - 1 \notin T
    BY <1>1, <2>1
  <2> QED
    BY <1>1, <2>1, <2>2
<1>3. f[Len(s)] = 0
  <2>1. Len(s) \in 0 .. Len(s)
    BY <1>1
  <2> QED
    BY <1>2, <2>1
<1> QED
  BY <1>3 DEF f, SumOf

\* A list that is nowhere above another one adds up to no more.
LEMMA SumOfMonotone ==
  ASSUME NEW s \in Seq(Int), NEW t \in Seq(Int), Len(s) = Len(t),
         \A i \in 1 .. Len(s) : s[i] <= t[i]
  PROVE  SumOf(s) <= SumOf(t)
<1> DEFINE f == PartialSums(s)
           g == PartialSums(t)
           T == {i \in 0 .. Len(s) : ~(f[i] <= g[i])}
<1>0. \A i \in 1 .. Len(s) : s[i] \in Int /\ t[i] \in Int
  BY ElementOfSeq
<1>1. /\ Len(s) \in Nat /\ f \in [0 .. Len(s) -> Int] /\ g \in [0 .. Len(s) -> Int]
      /\ f[0] = 0 /\ \A i \in 1 .. Len(s) : f[i] = f[i - 1] + s[i]
      /\ g[0] = 0 /\ \A i \in 1 .. Len(s) : g[i] = g[i - 1] + t[i]
  BY PartialSumsDef, LenProperties
<1> HIDE DEF f, g
<1>2. ASSUME T # {} PROVE FALSE
  <2>1. PICK m \in T : \A i \in T : m <= i
    <3>1. T \in SUBSET Nat
      BY <1>1
    <3> HIDE DEF T
    <3> QED
      BY <3>1, <1>2, LeastNat
  <2>2. m \in 1 .. Len(s) /\ m - 1 \in 0 .. Len(s) /\ m - 1 \notin T
    BY <1>1, <2>1
  <2>3. /\ f[m] = f[m - 1] + s[m] /\ g[m] = g[m - 1] + t[m] /\ s[m] <= t[m]
        /\ s[m] \in Int /\ t[m] \in Int /\ f[m - 1] \in Int /\ g[m - 1] \in Int
        /\ f[m - 1] <= g[m - 1]
    BY <1>0, <1>1, <2>2
  <2> QED
    BY <2>1, <2>3
<1>3. f[Len(s)] <= g[Len(s)]
  <2>1. Len(s) \in 0 .. Len(s)
    BY <1>1
  <2> QED
    BY <1>2, <2>1
<1> QED
  BY <1>3 DEF f, g, SumOf

\* A number of the list replaced by another one.
LEMMA SumOfExcept ==
  ASSUME NEW s \in Seq(Int), NEW k \in 1 .. Len(s), NEW x \in Int
  PROVE  SumOf([s EXCEPT ![k] = x]) = SumOf(s) - s[k] + x
<1> DEFINE t == [s EXCEPT ![k] = x]
           f == PartialSums(s)
           g == PartialSums(t)
           T == {i \in k .. Len(s) : g[i] # f[i] - s[k] + x}
<1>0. /\ t \in Seq(Int) /\ Len(t) = Len(s) /\ t[k] = x
      /\ \A i \in 1 .. Len(s) : i # k => t[i] = s[i]
      /\ \A i \in 1 .. Len(s) : s[i] \in Int /\ t[i] \in Int
  BY ExceptSeq, ElementOfSeq
<1> HIDE DEF t
<1>1. /\ Len(s) \in Nat /\ f \in [0 .. Len(s) -> Int] /\ g \in [0 .. Len(s) -> Int]
      /\ \A i \in 1 .. Len(s) : f[i] = f[i - 1] + s[i] /\ g[i] = g[i - 1] + t[i]
  BY <1>0, PartialSumsDef, LenProperties
<1>v. \A i \in 0 .. Len(s) : f[i] \in Int /\ g[i] \in Int
  BY <1>1
<1>s. /\ \A i \in 1 .. Len(s) : f[i] = f[i - 1] + s[i] /\ g[i] = g[i - 1] + t[i]
      /\ Len(s) \in Nat
  BY <1>1
<1>k. /\ \A i \in 1 .. Len(s) : i # k => t[i] = s[i]
      /\ t[k] = x /\ s[k] \in Int
  BY <1>0
<1>a. f[k - 1] = g[k - 1]
  <2>1. /\ k - 1 \in Nat /\ k - 1 <= Len(s) /\ k - 1 <= Len(t)
        /\ \A i \in 1 .. k - 1 : s[i] = t[i]
    BY <1>0, <1>1
  <2> QED
    BY <1>0, <2>1, SamePartialSums
<1> HIDE DEF f, g
<1>b. g[k] = f[k] - s[k] + x
  <2>1. /\ f[k] = f[k - 1] + s[k] /\ g[k] = g[k - 1] + x
        /\ f[k - 1] \in Int /\ s[k] \in Int
    BY <1>s, <1>v, <1>k
  <2> QED
    BY <2>1, <1>a
<1>2. ASSUME T # {} PROVE FALSE
  <2>1. PICK m \in T : \A i \in T : m <= i
    <3>1. T \in SUBSET Nat
      BY <1>1
    <3> HIDE DEF T
    <3> QED
      BY <3>1, <1>2, LeastNat
  <2>a. m # k
    BY <1>b, <2>1
  <2>2. m \in 1 .. Len(s) /\ m - 1 \in k .. Len(s) /\ m - 1 \notin T
    BY <1>s, <2>a, <2>1
  <2>b. g[m - 1] = f[m - 1] - s[k] + x
    BY <2>2
  <2>3. /\ f[m] = f[m - 1] + s[m] /\ g[m] = g[m - 1] + t[m] /\ s[m] = t[m]
        /\ s[m] \in Int /\ s[k] \in Int /\ f[m - 1] \in Int /\ g[m - 1] \in Int
    <3>1. m # k /\ m \in 1 .. Len(s) /\ m - 1 \in 0 .. Len(s)
      BY <1>s, <2>a, <2>2
    <3>2. s[m] \in Int
      BY <1>0, <3>1
    <3> QED
      BY <3>1, <3>2, <1>s, <1>v, <1>k
  <2> QED
    BY <2>1, <2>3, <2>b
<1>3. g[Len(s)] = f[Len(s)] - s[k] + x
  <2>1. Len(s) \in k .. Len(s)
    BY <1>1
  <2> QED
    BY <1>2, <2>1
<1> QED
  BY <1>0, <1>3 DEF f, g, t, SumOf

-----------------------------------------------------------------------------
(* The report's totals, as UpdateTPS changes the list they are made of.    *)

Infos == [DeltaTime : Nat, TxCount : Nat]

TxsOf(list) == [k \in DOMAIN list |-> list[k].TxCount]
TimesOf(list) == [k \in DOMAIN list |-> list[k].DeltaTime]

\* A function on 1 .. n is a sequence of its values.
LEMMA FcnIsSeq ==
  ASSUME NEW S, NEW n \in Nat, NEW s \in [1 .. n -> S]
  PROVE  s \in Seq(S) /\ Len(s) = n
<1>1. s \in Seq(S)
  BY SeqDef
<1> QED
  BY <1>1, LenProperties

\* The columns of a list of infos are lists of numbers of its length.
LEMMA Columns ==
  ASSUME NEW list \in Seq(Infos)
  PROVE  /\ TxsOf(list) \in Seq(Nat) /\ TxsOf(list) \in Seq(Int)
         /\ TimesOf(list) \in Seq(Nat) /\ TimesOf(list) \in Seq(Int)
         /\ Len(TxsOf(list)) = Len(list) /\ Len(TimesOf(list)) = Len(list)
         /\ \A k \in 1 .. Len(list) : /\ list[k] \in Infos
                                      /\ TxsOf(list)[k] = list[k].TxCount
                                      /\ TimesOf(list)[k] = list[k].DeltaTime
<1>1. Len(list) \in Nat /\ DOMAIN list = 1 .. Len(list)
      /\ \A k \in 1 .. Len(list) : list[k] \in Infos
  BY LenProperties, ElementOfSeq
<1>2. /\ TxsOf(list) \in [1 .. Len(list) -> Nat] /\ TimesOf(list) \in [1 .. Len(list) -> Nat]
      /\ TxsOf(list) \in [1 .. Len(list) -> Int] /\ TimesOf(list) \in [1 .. Len(list) -> Int]
  BY <1>1 DEF TxsOf, TimesOf, Infos
<1>3. /\ TxsOf(list) \in Seq(Nat) /\ TimesOf(list) \in Seq(Nat)
      /\ TxsOf(list) \in Seq(Int) /\ TimesOf(list) \in Seq(Int)
      /\ Len(TxsOf(list)) = Len(list) /\ Len(TimesOf(list)) = Len(list)
  BY <1>1, <1>2, FcnIsSeq
<1> QED
  BY <1>1, <1>3 DEF TxsOf, TimesOf

\* The columns of a list to which an info is added.
LEMMA ColumnsOfAppend ==
  ASSUME NEW list \in Seq(Infos), NEW info \in Infos
  PROVE  /\ TxsOf(Append(list, info)) = Append(TxsOf(list), info.TxCount)
         /\ TimesOf(Append(list, info)) = Append(TimesOf(list), info.DeltaTime)
<1> DEFINE a == Append(list, info)
           c == Append(TxsOf(list), info.TxCount)
           d == Append(TimesOf(list), info.DeltaTime)
<1>1. /\ a \in Seq(Infos) /\ Len(a) = Len(list) + 1 /\ a[Len(list) + 1] = info
      /\ \A k \in 1 .. Len(list) : a[k] = list[k]
      /\ Len(list) \in Nat
  BY AppendProperties, LenProperties
<1>2. info.TxCount \in Nat /\ info.DeltaTime \in Nat
  BY DEF Infos
<1>3. /\ c \in Seq(Nat) /\ Len(c) = Len(list) + 1 /\ c[Len(list) + 1] = info.TxCount
      /\ \A k \in 1 .. Len(list) : c[k] = list[k].TxCount
  BY <1>1, <1>2, Columns, AppendProperties
<1>4. /\ d \in Seq(Nat) /\ Len(d) = Len(list) + 1 /\ d[Len(list) + 1] = info.DeltaTime
      /\ \A k \in 1 .. Len(list) : d[k] = list[k].DeltaTime
  BY <1>1, <1>2, Columns, AppendProperties
<1> HIDE DEF a, c, d
<1>5. ASSUME NEW k \in 1 .. Len(a)
      PROVE  TxsOf(a)[k] = c[k] /\ TimesOf(a)[k] = d[k]
  <2>1. TxsOf(a)[k] = a[k].TxCount /\ TimesOf(a)[k] = a[k].DeltaTime
    BY <1>1, Columns
  <2>2. k \in 1 .. Len(list) \/ k = Len(list) + 1
    BY <1>1
  <2> QED
    BY <1>1, <1>3, <1>4, <2>1, <2>2
<1>6. TxsOf(a) = c /\ TimesOf(a) = d
  BY <1>1, <1>3, <1>4, <1>5, Columns, SeqEqual
<1> QED
  BY <1>6 DEF a, c, d

\* The columns of two lists put together are those of the lists put together.
LEMMA ColumnsOfConcat ==
  ASSUME NEW list \in Seq(Infos), NEW pool \in Seq(Infos)
  PROVE  /\ TxsOf(list \o pool) = TxsOf(list) \o TxsOf(pool)
         /\ TimesOf(list \o pool) = TimesOf(list) \o TimesOf(pool)
<1> DEFINE a == list \o pool
           c == TxsOf(list) \o TxsOf(pool)
           d == TimesOf(list) \o TimesOf(pool)
<1>1. /\ a \in Seq(Infos) /\ Len(a) = Len(list) + Len(pool)
      /\ \A k \in 1 .. Len(list) + Len(pool) :
             a[k] = IF k <= Len(list) THEN list[k] ELSE pool[k - Len(list)]
      /\ Len(list) \in Nat /\ Len(pool) \in Nat
  BY ConcatProperties, LenProperties
<1>2. /\ TxsOf(list) \in Seq(Nat) /\ TxsOf(pool) \in Seq(Nat)
      /\ TimesOf(list) \in Seq(Nat) /\ TimesOf(pool) \in Seq(Nat)
      /\ Len(TxsOf(list)) = Len(list) /\ Len(TxsOf(pool)) = Len(pool)
      /\ Len(TimesOf(list)) = Len(list) /\ Len(TimesOf(pool)) = Len(pool)
  BY Columns
<1>3. /\ c \in Seq(Nat) /\ Len(c) = Len(list) + Len(pool)
      /\ \A k \in 1 .. Len(list) + Len(pool) :
             c[k] = IF k <= Len(list) THEN TxsOf(list)[k] ELSE TxsOf(pool)[k - Len(list)]
  <2> DEFINE x == TxsOf(list)
             y == TxsOf(pool)
  <2>1. x \in Seq(Nat) /\ y \in Seq(Nat) /\ Len(x) = Len(list) /\ Len(y) = Len(pool)
    BY <1>2
  <2> HIDE DEF x, y
  <2>2. /\ x \o y \in Seq(Nat) /\ Len(x \o y) = Len(x) + Len(y)
        /\ \A k \in 1 .. Len(x) + Len(y) :
               (x \o y)[k] = IF k <= Len(x) THEN x[k] ELSE y[k - Len(x)]
    BY <2>1, ConcatProperties
  <2>3. c = x \o y
    BY DEF x, y
  <2> HIDE DEF c
  <2> QED
    BY <2>1, <2>2, <2>3 DEF x, y
<1>4. /\ d \in Seq(Nat) /\ Len(d) = Len(list) + Len(pool)
      /\ \A k \in 1 .. Len(list) + Len(pool) :
             d[k] = IF k <= Len(list) THEN TimesOf(list)[k] ELSE TimesOf(pool)[k - Len(list)]
  <2> DEFINE x == TimesOf(list)
             y == TimesOf(pool)
  <2>1. x \in Seq(Nat) /\ y \in Seq(Nat) /\ Len(x) = Len(list) /\ Len(y) = Len(pool)
    BY <1>2
  <2> HIDE DEF x, y
  <2>2. /\ x \o y \in Seq(Nat) /\ Len(x \o y) = Len(x) + Len(y)
        /\ \A k \in 1 .. Len(x) + Len(y) :
               (x \o y)[k] = IF k <= Len(x) THEN x[k] ELSE y[k - Len(x)]
    BY <2>1, ConcatProperties
  <2>3. d = x \o y
    BY DEF x, y
  <2> HIDE DEF d
  <2> QED
    BY <2>1, <2>2, <2>3 DEF x, y
<1> HIDE DEF a, c, d
<1>5. ASSUME NEW k \in 1 .. Len(a)
      PROVE  TxsOf(a)[k] = c[k] /\ TimesOf(a)[k] = d[k]
  <2>1. TxsOf(a)[k] = a[k].TxCount /\ TimesOf(a)[k] = a[k].DeltaTime
    BY <1>1, Columns
  <2>2. CASE k <= Len(list)
    <3>1. k \in 1 .. Len(list) /\ k \in 1 .. Len(list) + Len(pool)
      BY <1>1, <2>2
    <3>2. TxsOf(list)[k] = list[k].TxCount /\ TimesOf(list)[k] = list[k].DeltaTime
      BY <3>1, Columns
    <3>3. a[k] = list[k] /\ c[k] = TxsOf(list)[k] /\ d[k] = TimesOf(list)[k]
      BY <1>1, <1>3, <1>4, <2>2, <3>1
    <3> QED
      BY <2>1, <3>2, <3>3
  <2>3. CASE ~(k <= Len(list))
    <3> DEFINE j == k - Len(list)
    <3>1. j \in 1 .. Len(pool) /\ k \in 1 .. Len(list) + Len(pool)
      BY <1>1, <2>3
    <3>2. a[k] = pool[j] /\ c[k] = TxsOf(pool)[j] /\ d[k] = TimesOf(pool)[j]
      BY <1>1, <1>3, <1>4, <2>3, <3>1
    <3> HIDE DEF j
    <3>3. TxsOf(pool)[j] = pool[j].TxCount /\ TimesOf(pool)[j] = pool[j].DeltaTime
      BY <3>1, Columns
    <3> QED
      BY <2>1, <3>2, <3>3
  <2> QED
    BY <2>2, <2>3
<1>6. TxsOf(a) = c /\ TimesOf(a) = d
  BY <1>1, <1>3, <1>4, <1>5, Columns, SeqEqual
<1> QED
  BY <1>6 DEF a, c, d

\* The totals of an empty report.
LEMMA EmptyReport == ReportedTxs(<<>>) = 0 /\ OverallBlocksTime(<<>>) = 0
<1>1. <<>> \in Seq(Infos) /\ Len(<<>>) = 0
  BY EmptySeq
<1> DEFINE none == <<>>
<1> HIDE DEF none
<1>2. Len(TxsOf(none)) = 0 /\ Len(TimesOf(none)) = 0
  BY <1>1, Columns DEF none
<1>3. TxsOf(none) \in Seq(Int) /\ TimesOf(none) \in Seq(Int)
  BY <1>1, Columns DEF none
<1>a. /\ \A k \in 1 .. Len(TxsOf(none)) : TxsOf(none)[k] = 0
      /\ \A k \in 1 .. Len(TimesOf(none)) : TimesOf(none)[k] = 0
  BY <1>2
<1>4. SumOf(TxsOf(none)) = 0 /\ SumOf(TimesOf(none)) = 0
  BY <1>a, <1>3, SumOfZeros
<1> QED
  BY <1>4 DEF none, ReportedTxs, OverallBlocksTime, TxsOf, TimesOf

\* The totals after a list has grown by an info.
LEMMA TotalsOfAppend ==
  ASSUME NEW list \in Seq(Infos), NEW info \in Infos
  PROVE  /\ ReportedTxs(list) \in Int /\ OverallBlocksTime(list) \in Int
         /\ ReportedTxs(Append(list, info)) = ReportedTxs(list) + info.TxCount
         /\ OverallBlocksTime(Append(list, info))
              = OverallBlocksTime(list) + info.DeltaTime
<1>1. /\ ReportedTxs(Append(list, info)) = SumOf(TxsOf(Append(list, info)))
      /\ OverallBlocksTime(Append(list, info)) = SumOf(TimesOf(Append(list, info)))
      /\ ReportedTxs(list) = SumOf(TxsOf(list))
      /\ OverallBlocksTime(list) = SumOf(TimesOf(list))
  BY DEF ReportedTxs, OverallBlocksTime, TxsOf, TimesOf
<1>2. info.TxCount \in Int /\ info.DeltaTime \in Int
  BY DEF Infos
<1> QED
  BY <1>1, <1>2, Columns, ColumnsOfAppend, SumOfAppend, SumOfInt

\* And after a block with transactions has taken the pool with it
\* (report.go:273-287).
LEMMA TotalsOfFlush ==
  ASSUME NEW list \in Seq(Infos), NEW pool \in Seq(Infos), NEW info \in Infos
  PROVE  LET all == Append(list \o pool, info)
         IN  /\ ReportedTxs(all) = ReportedTxs(list) + ReportedTxs(pool) + info.TxCount
             /\ OverallBlocksTime(all) = OverallBlocksTime(list)
                                           + OverallBlocksTime(pool) + info.DeltaTime
<1>1. /\ ReportedTxs(list \o pool) = SumOf(TxsOf(list \o pool))
      /\ OverallBlocksTime(list \o pool) = SumOf(TimesOf(list \o pool))
      /\ ReportedTxs(list) = SumOf(TxsOf(list)) /\ ReportedTxs(pool) = SumOf(TxsOf(pool))
      /\ OverallBlocksTime(list) = SumOf(TimesOf(list))
      /\ OverallBlocksTime(pool) = SumOf(TimesOf(pool))
  BY DEF ReportedTxs, OverallBlocksTime, TxsOf, TimesOf
<1>2. /\ ReportedTxs(list \o pool) = ReportedTxs(list) + ReportedTxs(pool)
      /\ OverallBlocksTime(list \o pool) = OverallBlocksTime(list) + OverallBlocksTime(pool)
  BY <1>1, Columns, ColumnsOfConcat, SumOfConcat
<1>3. list \o pool \in Seq(Infos)
  BY ConcatProperties
<1> QED
  BY <1>2, <1>3, TotalsOfAppend

\* A pool of idle blocks holds no transactions.
LEMMA IdleTotal ==
  ASSUME NEW pool \in Seq(Infos), \A k \in 1 .. Len(pool) : pool[k].TxCount = 0
  PROVE  ReportedTxs(pool) = 0
<1>1. \A k \in 1 .. Len(TxsOf(pool)) : TxsOf(pool)[k] = 0
  BY Columns
<1> QED
  BY <1>1, Columns, SumOfZeros DEF ReportedTxs, TxsOf
=============================================================================
