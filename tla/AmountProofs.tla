---------------------------- MODULE AmountProofs ----------------------------
(***************************************************************************)
(* Proofs about exact amounts: the arithmetic of big.Rat (Rationals), what *)
(* an RI advised by the reshape analysis carries (Reshape), what a run of  *)
(* the commitment ladder allocates and schedules (Ladder, AwsLadder,       *)
(* LadderRuns), and what the stages between collection and purchase leave  *)
(* of the recommendations (RecFilter), each for every value of its         *)
(* constants.                                                              *)
(***************************************************************************)
EXTENDS Reshape, RecFilter, LadderRuns, SequenceTheorems, FiniteSetTheorems, TLAPS

-----------------------------------------------------------------------------
(* The first of some numbers, and induction up from zero.                  *)

LEMMA FirstIs == ASSUME NEW S \in SUBSET Nat, S # {} PROVE Min(S) \in S /\ \A k \in S : Min(S) <= k
<1>1. PICK m \in S : \A k \in S : ~ (<<k, m>> \in OpToRel(<, Nat))
  BY WFMin, NatLessThanWellFounded
<1>2. \A k \in S : k < m => <<k, m>> \in OpToRel(<, Nat)
  BY DEF OpToRel
<1>3. \A k \in S : ~ (k < m)
  BY <1>1, <1>2
<1>4. \A k \in S : m <= k
  BY <1>3
<1> QED BY <1>4 DEF Min

LEMMA UpFromZero == ASSUME NEW T \in SUBSET Nat, 0 \in T, \A n \in T : n + 1 \in T PROVE T = Nat
<1> SUFFICES ASSUME Nat \ T # {} PROVE FALSE
  OBVIOUS
<1> DEFINE m == Min(Nat \ T)
<1>1. m \in Nat \ T /\ \A k \in Nat \ T : m <= k
  BY FirstIs
<1> HIDE DEF m
<1>2. m # 0 /\ m - 1 \in Nat
  BY <1>1
<1>3. m - 1 \in T
  BY <1>1, <1>2
<1> QED BY <1>1, <1>3

LEMMA Cancels == ASSUME NEW x \in Int, NEW y \in Int, NEW k \in Nat \ {0}, x * k = y * k PROVE x = y
OBVIOUS
LEMMA CancelsLe == ASSUME NEW x \in Int, NEW y \in Int, NEW k \in Nat \ {0}, x * k <= y * k PROVE x <= y
OBVIOUS

(* Exact rational numbers: lowest terms exist and keep the value.          *)

DividesBoth(k, p) == k \in Nat \ {0} /\ \E i, j \in Nat : p[1] = k * i /\ p[2] = k * j
Greatest(p) ==
    CHOOSE k : DividesBoth(k, p) /\ \A j : DividesBoth(j, p) => j <= k

(* Euclid's step keeps the common divisors.                                *)
LEMMA EuclidKeeps ==
    ASSUME NEW a \in Nat, NEW b \in Nat \ {0}, NEW k
    PROVE  DividesBoth(k, <<a, b>>) <=> DividesBoth(k, <<b, a % b>>)
<1>1. a = b * (a \div b) + (a % b) /\ a \div b \in Nat /\ a % b \in Nat
  <2>1. a % b \in Nat
    OBVIOUS
  <2>2. a \div b \in Int
    OBVIOUS
  <2>3. a \div b >= 0
    OBVIOUS
  <2>4. a = (a \div b) * b + (a % b)
    OBVIOUS
  <2>5. (a \div b) * b = b * (a \div b)
    BY <2>2
  <2> QED BY <2>1, <2>2, <2>3, <2>4, <2>5
<1>2. PICK q \in Nat, r \in Nat : a = b * q + r /\ r = a % b
  BY <1>1
<1>3. ASSUME DividesBoth(k, <<a, b>>) PROVE DividesBoth(k, <<b, r>>)
  <2>1. PICK i, j \in Nat : a = k * i /\ b = k * j /\ k \in Nat \ {0}
    BY <1>3 DEF DividesBoth
  <2>2. r = k * (i - j * q)
    BY <1>2, <2>1
  <2>3. i - j * q \in Nat
    <3>1. PICK z \in Int : z = i - j * q
      OBVIOUS
    <3>2. k * z >= 0 /\ k > 0
      BY <2>1, <2>2, <3>1
    <3>3. z < 0 => k * z < 0
      BY <2>1, <3>1
    <3> QED BY <2>1, <3>1, <3>2, <3>3
  <2>4. PICK z \in Nat : r = k * z
    BY <2>2, <2>3
  <2> QED BY <2>1, <2>4 DEF DividesBoth
<1>4. ASSUME DividesBoth(k, <<b, r>>) PROVE DividesBoth(k, <<a, b>>)
  <2>1. PICK i, j \in Nat : b = k * i /\ r = k * j /\ k \in Nat \ {0}
    BY <1>4 DEF DividesBoth
  <2>2. k * i * q = k * (i * q) /\ i * q \in Nat
    BY <1>2, <2>1
  <2>3. a = k * (i * q) + k * j
    BY <1>2, <2>1, <2>2
  <2>4. a = k * (i * q + j) /\ i * q + j \in Nat
    BY <2>1, <2>2, <2>3
  <2> QED BY <2>1, <2>4 DEF DividesBoth
<1> QED BY <1>2, <1>3, <1>4

LEMMA GCDStep == ASSUME NEW p \in Nat \X Nat
                 PROVE  GCD[p] = IF p[2] = 0 THEN p[1] ELSE GCD[<<p[2], p[1] % p[2]>>]
<1> DEFINE f == [q \in Nat \X Nat |-> IF q = <<0, 0>> THEN 0 ELSE Greatest(q)]
           Euclid(h) == h = [q \in Nat \X Nat |-> IF q[2] = 0 THEN q[1] ELSE h[<<q[2], q[1] % q[2]>>]]
<1>1. ASSUME NEW q \in Nat \X Nat PROVE f[q] = IF q[2] = 0 THEN q[1] ELSE f[<<q[2], q[1] % q[2]>>]
  <2>1. PICK a \in Nat, b \in Nat : q = <<a, b>>
    OBVIOUS
  <2>2. CASE b = 0 /\ a = 0
    BY <2>1, <2>2
  <2>3. CASE b = 0 /\ a # 0
    <3>1. DividesBoth(a, q)
      <4>1. a = a * 1 /\ b = a * 0
        BY <2>3
      <4> QED BY <2>1, <2>3, <4>1 DEF DividesBoth
    <3>2. ASSUME NEW k, DividesBoth(k, q) PROVE k <= a /\ k \in Nat
      <4>1. PICK i \in Nat : a = k * i /\ k \in Nat \ {0}
        BY <2>1, <3>2 DEF DividesBoth
      <4>2. i >= 1
        BY <2>3, <4>1
      <4>3. k * i >= k
        BY <4>1, <4>2
      <4> QED BY <4>1, <4>3
    <3>3. Greatest(q) = a
      BY <2>1, <3>1, <3>2 DEF Greatest
    <3> QED BY <2>1, <2>3, <3>3
  <2>4. CASE b # 0
    <3>1. a % b \in Nat
      BY <2>4
    <3>2. \A k : DividesBoth(k, <<a, b>>) <=> DividesBoth(k, <<b, a % b>>)
      BY <2>4, EuclidKeeps
    <3>3. Greatest(<<a, b>>) = Greatest(<<b, a % b>>)
      BY <3>2 DEF Greatest
    <3>4. f[<<a, b>>] = Greatest(<<a, b>>) /\ f[<<b, a % b>>] = Greatest(<<b, a % b>>)
      BY <2>4, <3>1
    <3> QED BY <2>1, <2>4, <3>3, <3>4
  <2> QED BY <2>2, <2>3, <2>4
<1>2. Euclid(f)
  <2>1. f = [q \in Nat \X Nat |-> f[q]]
    OBVIOUS
  <2> HIDE DEF f
  <2> QED BY <1>1, <2>1
<1>3. GCD = CHOOSE h : Euclid(h)
  BY DEF GCD
<1> HIDE DEF f
<1>4. \E h : Euclid(h)
  BY <1>2
<1> HIDE DEF Euclid
<1>5. Euclid(GCD)
  BY <1>3, <1>4
<1> QED BY <1>5 DEF Euclid

(* Euclid's algorithm ends in a common divisor: else take a pair with the  *)
(* least second number of which that is not so.                            *)
GCDIs(p) == DividesBoth(GCD[p], p)
LEMMA GCDDivides == ASSUME NEW a \in Nat, NEW b \in Nat \ {0} PROVE DividesBoth(GCD[<<a, b>>], <<a, b>>)
<1>1. ASSUME NEW x \in Nat \ {0} PROVE GCDIs(<<x, 0>>)
  <2>1. GCD[<<x, 0>>] = x
    BY GCDStep
  <2>2. x = x * 1 /\ 0 = x * 0
    OBVIOUS
  <2> QED BY <2>1, <2>2 DEF GCDIs, DividesBoth
<1> DEFINE T == {n \in Nat \ {0} : \E x \in Nat : ~GCDIs(<<x, n>>)}
<1>2. ASSUME T # {} PROVE FALSE
  <2>1. PICK m \in T : \A k \in T : m <= k
    BY <1>2, FirstIs
  <2>2. PICK x \in Nat : ~GCDIs(<<x, m>>)
    BY <2>1
  <2>3. GCD[<<x, m>>] = GCD[<<m, x % m>>] /\ x % m \in Nat /\ x % m < m
    BY <2>1, GCDStep
  <2>4. GCDIs(<<m, x % m>>)
    <3>1. CASE x % m = 0
      BY <1>1, <2>1, <3>1
    <3>2. CASE x % m # 0
      BY <2>1, <2>3, <3>2
    <3> QED BY <3>1, <3>2
  <2> QED BY <2>1, <2>2, <2>3, <2>4, EuclidKeeps DEF GCDIs
<1>3. GCDIs(<<a, b>>)
  BY <1>2
<1> QED BY <1>3 DEF GCDIs

LEMMA RatIs ==
    ASSUME NEW n \in Int, NEW d \in Nat \ {0}
    PROVE  IsRational(Rat(n, d)) /\ Rat(n, d)[1] * d = n * Rat(n, d)[2]
<1>1. CASE n = 0
  <2>1. Rat(n, d) = <<0, 1>>
    BY <1>1 DEF Rat
  <2> QED BY <1>1, <2>1 DEF IsRational
<1>2. CASE n # 0
  <2>1. PICK m \in Nat \ {0} : m = IF n < 0 THEN -n ELSE n
    BY <1>2
  <2>2. PICK g : g = GCD[<<m, d>>]
    OBVIOUS
  <2>3. PICK i, j \in Nat : m = g * i /\ d = g * j /\ g \in Nat \ {0}
    BY <2>1, <2>2, GCDDivides DEF DividesBoth
  <2>4. Rat(n, d) = <<n \div g, d \div g>>
    BY <1>2, <2>1, <2>2 DEF Rat
  <2>5. d \div g = j /\ j > 0
    BY <2>3
  <2>6. PICK k \in Int : n = g * k
    <3>1. n = m \/ n = -m
      BY <2>1
    <3>2. n = g * i \/ n = g * (-i)
      BY <2>3, <3>1
    <3> QED BY <3>2
  <2>7. n \div g = k
    BY <2>3, <2>6
  <2>8. k * (g * j) = (g * k) * j
    BY <2>3, <2>6
  <2> QED BY <2>3, <2>4, <2>5, <2>6, <2>7, <2>8 DEF IsRational
<1> QED BY <1>1, <1>2

-----------------------------------------------------------------------------
(* Equal fractions have the same lowest terms.                             *)

LEMMA ModIs ==
    ASSUME NEW y \in Nat \ {0}, NEW q \in Int, NEW r \in 0..(y - 1)
    PROVE  (y * q + r) % y = r
<1>1. PICK x \in Int : x = y * q + r
  OBVIOUS
<1>2. PICK p \in Int, s \in Int : p = x \div y /\ s = x % y
  OBVIOUS
<1>3. x = p * y + s /\ s >= 0 /\ s < y
  <2>1. x = (x \div y) * y + (x % y)
    OBVIOUS
  <2>2. x % y >= 0 /\ x % y < y
    OBVIOUS
  <2> QED BY <1>2, <2>1, <2>2
<1>4. (q - p) * y = s - r
  BY <1>1, <1>3
<1>5. q - p < 1
  <2>1. ASSUME q - p >= 1 PROVE (q - p) * y >= y
    <3>1. PICK z \in Nat \ {0} : z = q - p
      BY <2>1
    <3>2. z * y >= y
      OBVIOUS
    <3> QED BY <3>1, <3>2
  <2> QED BY <1>3, <1>4, <2>1
<1>6. q - p > -1
  <2>1. ASSUME p - q >= 1 PROVE (p - q) * y >= y
    <3>1. PICK z \in Nat \ {0} : z = p - q
      BY <2>1
    <3>2. z * y >= y
      OBVIOUS
    <3> QED BY <3>1, <3>2
  <2>2. (p - q) * y = r - s
    BY <1>1, <1>3
  <2> QED BY <1>3, <2>1, <2>2
<1>7. q = p
  BY <1>5, <1>6
<1> QED BY <1>1, <1>2, <1>4, <1>7

GCDScales(k, p) == GCD[<<k * p[1], k * p[2]>>] = k * GCD[p]
LEMMA GCDTimes == ASSUME NEW k \in Nat \ {0}, NEW a \in Nat, NEW b \in Nat PROVE GCDScales(k, <<a, b>>)
<1> DEFINE T == {n \in Nat : \E x \in Nat : ~GCDScales(k, <<x, n>>)}
<1>1. ASSUME T # {} PROVE FALSE
  <2>1. PICK m \in T : \A j \in T : m <= j
    BY <1>1, FirstIs
  <2>2. PICK x \in Nat : ~GCDScales(k, <<x, m>>)
    BY <2>1
  <2>3. k * x \in Nat /\ k * m \in Nat
    BY <2>1
  <2>4. CASE m = 0
    <3>1. GCD[<<x, m>>] = x
      BY <2>4, GCDStep
    <3>2. k * m = 0
      BY <2>4
    <3>3. GCD[<<k * x, k * m>>] = k * x
      BY <2>3, <3>2, GCDStep
    <3> QED BY <2>2, <3>1, <3>3 DEF GCDScales
  <2>5. CASE m # 0
    <3>1. PICK r \in Nat : r = x % m
      BY <2>5
    <3>2. r < m /\ x = m * (x \div m) + r /\ x \div m \in Int
      <4>1. x = (x \div m) * m + (x % m) /\ x \div m \in Int
        BY <2>5
      <4>2. x % m < m
        BY <2>5
      <4>3. \A i, j \in Int : i * j = j * i
        OBVIOUS
      <4> QED BY <2>1, <3>1, <4>1, <4>2, <4>3
    <3>3. k * m # 0 /\ k * r \in 0..(k * m - 1)
      <4>1. PICK z \in Nat : m = r + 1 + z
        <5>1. m - r - 1 \in Nat /\ m = r + 1 + (m - r - 1)
          BY <2>1, <3>2
        <5> QED BY <5>1
      <4>2. k * m = k * r + k + k * z /\ k * r \in Nat /\ k * z \in Nat
        BY <4>1
      <4> QED BY <4>2
    <3>4. (k * x) % (k * m) = k * r
      <4>1. PICK q \in Int : q = x \div m
        BY <3>2
      <4>2. k * x = (k * m) * q + k * r
        <5>1. x = m * q + r
          BY <3>2, <4>1
        <5>2. k * (m * q + r) = (k * m) * q + k * r
          BY <2>1
        <5> QED BY <5>1, <5>2
      <4>3. k * m \in Nat \ {0}
        BY <2>3, <3>3
      <4>4. ((k * m) * q + k * r) % (k * m) = k * r
        BY <3>3, <4>3, ModIs
      <4> QED BY <4>2, <4>4
    <3>5. GCD[<<x, m>>] = GCD[<<m, r>>]
      BY <2>5, <3>1, GCDStep
    <3>6. GCD[<<k * x, k * m>>] = GCD[<<k * m, k * r>>]
      BY <2>3, <3>3, <3>4, GCDStep
    <3>7. GCDScales(k, <<m, r>>)
      BY <2>1, <3>1, <3>2
    <3> QED BY <2>2, <3>5, <3>6, <3>7 DEF GCDScales
  <2> QED BY <2>4, <2>5
<1> QED BY <1>1

LEMMA GCDFactor ==
    ASSUME NEW k \in Nat \ {0}, NEW a \in Nat, NEW b \in Nat PROVE GCD[<<k * a, k * b>>] = k * GCD[<<a, b>>]
BY GCDTimes DEF GCDScales

LEMMA CancelLeft == ASSUME NEW x \in Int, NEW y \in Int, NEW k \in Nat \ {0}, k * x = k * y PROVE x = y
OBVIOUS

AbsOf(n) == IF n < 0 THEN -n ELSE n

(* Numerator and denominator over their greatest common divisor.           *)
LEMMA LowestTerms ==
    ASSUME NEW n \in Int, NEW d \in Nat \ {0}
    PROVE  \E m \in Nat, g \in Nat \ {0}, i \in Int, j \in Nat \ {0} :
             /\ m = AbsOf(n) /\ g = GCD[<<m, d>>]
             /\ n = g * i /\ d = g * j /\ (n # 0 => Rat(n, d) = <<i, j>>)
<1>1. PICK m \in Nat : m = AbsOf(n)
  BY DEF AbsOf
<1>2. PICK g : g = GCD[<<m, d>>]
  OBVIOUS
<1>3. PICK k, j \in Nat : m = g * k /\ d = g * j /\ g \in Nat \ {0}
  BY <1>1, <1>2, GCDDivides DEF DividesBoth
<1>4. j # 0
  BY <1>3
<1>5. PICK i \in Int : n = g * i
  <2>1. n = m \/ n = -m
    BY <1>1 DEF AbsOf
  <2>2. n = g * k \/ n = g * (-k)
    BY <1>3, <2>1
  <2> QED BY <2>2
<1>6. n # 0 => Rat(n, d) = <<n \div g, d \div g>>
  BY <1>1, <1>2 DEF Rat, AbsOf
<1>7. n \div g = i /\ d \div g = j
  BY <1>3, <1>5
<1> QED BY <1>1, <1>2, <1>3, <1>4, <1>5, <1>6, <1>7

LEMMA RatEq ==
    ASSUME NEW n \in Int, NEW d \in Nat \ {0}, NEW p \in Int, NEW e \in Nat \ {0}, n * e = p * d
    PROVE  Rat(n, d) = Rat(p, e)
<1>1. CASE n = 0
  <2>1. p = 0
    BY <1>1
  <2> QED BY <1>1, <2>1 DEF Rat
<1>2. CASE n # 0
  <2>1. p # 0
    BY <1>2
  <2>2. PICK m \in Nat, g \in Nat \ {0}, i \in Int, j \in Nat \ {0} :
          /\ m = AbsOf(n) /\ g = GCD[<<m, d>>]
          /\ n = g * i /\ d = g * j /\ (n # 0 => Rat(n, d) = <<i, j>>)
    BY <1>2, LowestTerms
  <2>3. PICK m2 \in Nat, g2 \in Nat \ {0}, i2 \in Int, j2 \in Nat \ {0} :
          /\ m2 = AbsOf(p) /\ g2 = GCD[<<m2, e>>]
          /\ p = g2 * i2 /\ e = g2 * j2 /\ (p # 0 => Rat(p, e) = <<i2, j2>>)
    BY <2>1, LowestTerms
  <2>4. m * e = m2 * d
    <3>1. n > 0 <=> p > 0
      <4>1. n > 0 => n * e > 0
        OBVIOUS
      <4>2. p > 0 => p * d > 0
        OBVIOUS
      <4>3. n < 0 => n * e < 0
        OBVIOUS
      <4>4. p < 0 => p * d < 0
        OBVIOUS
      <4> QED BY <1>2, <2>1, <4>1, <4>2, <4>3, <4>4
    <3>2. CASE n > 0
      BY <2>2, <2>3, <3>1, <3>2 DEF AbsOf
    <3>3. CASE n < 0
      <4>1. m = -n /\ m2 = -p
        BY <2>1, <2>2, <2>3, <3>1, <3>3 DEF AbsOf
      <4>2. (-n) * e = -(n * e) /\ (-p) * d = -(p * d)
        OBVIOUS
      <4> QED BY <4>1, <4>2
    <3> QED BY <1>2, <3>2, <3>3
  <2>5. e * g = d * g2
    <3>1. GCD[<<e * m, e * d>>] = e * g
      BY <2>2, GCDFactor
    <3>2. GCD[<<d * m2, d * e>>] = d * g2
      BY <2>3, GCDFactor
    <3>3. e * m = d * m2 /\ e * d = d * e
      BY <2>4
    <3> QED BY <3>1, <3>2, <3>3
  <2>6. j2 = j
    <3>1. (g2 * j2) * g = (g * j) * g2
      BY <2>2, <2>3, <2>5
    <3>2. (g2 * j2) * g = (g * g2) * j2 /\ (g * j) * g2 = (g * g2) * j
      OBVIOUS
    <3>3. g * g2 \in Nat \ {0}
      OBVIOUS
    <3> QED BY <3>1, <3>2, <3>3, CancelLeft
  <2>7. i2 = i
    <3>1. (g * i) * (g2 * j) = (g2 * i2) * (g * j)
      BY <2>2, <2>3, <2>6
    <3>2. (g * i) * (g2 * j) = ((g * g2) * j) * i /\ (g2 * i2) * (g * j) = ((g * g2) * j) * i2
      OBVIOUS
    <3>3. (g * g2) * j \in Nat \ {0}
      OBVIOUS
    <3> QED BY <3>1, <3>2, <3>3, CancelLeft
  <2> QED BY <1>2, <2>1, <2>2, <2>3, <2>6, <2>7
<1> QED BY <1>1, <1>2

LEMMA RatScale ==
    ASSUME NEW n \in Int, NEW d \in Nat \ {0}, NEW k \in Nat \ {0}
    PROVE  Rat(k * n, k * d) = Rat(n, d)
<1>1. (k * n) * d = n * (k * d) /\ k * n \in Int /\ k * d \in Nat \ {0}
  OBVIOUS
<1> QED BY <1>1, RatEq

-----------------------------------------------------------------------------
(* The arithmetic of fractions, whatever terms they are given in.          *)

Rats == {Rat(n, d) : n \in Int, d \in Nat \ {0}}

LEMMA RatsAre == ASSUME NEW a \in Rats PROVE IsRational(a) /\ a = Rat(a[1], a[2])
<1>1. PICK n \in Int, d \in Nat \ {0} : a = Rat(n, d)
  BY DEF Rats
<1>2. IsRational(a) /\ a[1] * d = n * a[2]
  BY <1>1, RatIs
<1>3. Rat(a[1], a[2]) = Rat(n, d)
  <2>1. PICK x \in Int, y \in Nat \ {0} : x = a[1] /\ y = a[2]
    BY <1>2 DEF IsRational
  <2>2. x * d = n * y
    BY <1>2, <2>1
  <2> QED BY <2>1, <2>2, RatEq
<1> QED BY <1>1, <1>2, <1>3

LEMMA RatTerms ==
    ASSUME NEW n \in Int, NEW d \in Nat \ {0}
    PROVE  \E x \in Int, y \in Nat \ {0} : Rat(n, d)[1] = x /\ Rat(n, d)[2] = y /\ x * d = n * y
BY RatIs DEF IsRational

LEMMA Fraction == ASSUME NEW a \in Rats PROVE \E n \in Int, d \in Nat \ {0} : a = Rat(n, d)
BY DEF Rats

LEMMA IsRats == ASSUME NEW n \in Int, NEW d \in Nat \ {0} PROVE Rat(n, d) \in Rats
BY DEF Rats

LEMMA AddIs ==
    ASSUME NEW n \in Int, NEW d \in Nat \ {0}, NEW m \in Int, NEW e \in Nat \ {0}
    PROVE  RAdd(Rat(n, d), Rat(m, e)) = Rat(n * e + m * d, d * e)
<1>1. PICK x \in Int, y \in Nat \ {0} : Rat(n, d)[1] = x /\ Rat(n, d)[2] = y /\ x * d = n * y
  BY RatTerms
<1>2. PICK u \in Int, v \in Nat \ {0} : Rat(m, e)[1] = u /\ Rat(m, e)[2] = v /\ u * e = m * v
  BY RatTerms
<1>3. RAdd(Rat(n, d), Rat(m, e)) = Rat(x * v + u * y, y * v)
  BY <1>1, <1>2 DEF RAdd
<1>4. (x * v + u * y) * (d * e) = (n * e + m * d) * (y * v)
  <2>1. (x * v + u * y) * (d * e) = (x * d) * (v * e) + (u * e) * (y * d)
    OBVIOUS
  <2>2. (x * d) * (v * e) + (u * e) * (y * d) = (n * y) * (v * e) + (m * v) * (y * d)
    BY <1>1, <1>2
  <2>3. (n * y) * (v * e) + (m * v) * (y * d) = (n * e + m * d) * (y * v)
    OBVIOUS
  <2> QED BY <2>1, <2>2, <2>3
<1>5. x * v + u * y \in Int /\ y * v \in Nat \ {0} /\ n * e + m * d \in Int /\ d * e \in Nat \ {0}
  OBVIOUS
<1> QED BY <1>3, <1>4, <1>5, RatEq

LEMMA SubIs ==
    ASSUME NEW n \in Int, NEW d \in Nat \ {0}, NEW m \in Int, NEW e \in Nat \ {0}
    PROVE  RSub(Rat(n, d), Rat(m, e)) = Rat(n * e - m * d, d * e)
<1>1. PICK x \in Int, y \in Nat \ {0} : Rat(n, d)[1] = x /\ Rat(n, d)[2] = y /\ x * d = n * y
  BY RatTerms
<1>2. PICK u \in Int, v \in Nat \ {0} : Rat(m, e)[1] = u /\ Rat(m, e)[2] = v /\ u * e = m * v
  BY RatTerms
<1>3. RSub(Rat(n, d), Rat(m, e)) = Rat(x * v - u * y, y * v)
  BY <1>1, <1>2 DEF RSub
<1>4. (x * v - u * y) * (d * e) = (n * e - m * d) * (y * v)
  <2>1. (x * v - u * y) * (d * e) = (x * d) * (v * e) - (u * e) * (y * d)
    OBVIOUS
  <2>2. (x * d) * (v * e) - (u * e) * (y * d) = (n * y) * (v * e) - (m * v) * (y * d)
    BY <1>1, <1>2
  <2>3. (n * y) * (v * e) - (m * v) * (y * d) = (n * e - m * d) * (y * v)
    OBVIOUS
  <2> QED BY <2>1, <2>2, <2>3
<1>5. x * v - u * y \in Int /\ y * v \in Nat \ {0} /\ n * e - m * d \in Int /\ d * e \in Nat \ {0}
  OBVIOUS
<1> QED BY <1>3, <1>4, <1>5, RatEq

LEMMA MulIs ==
    ASSUME NEW n \in Int, NEW d \in Nat \ {0}, NEW m \in Int, NEW e \in Nat \ {0}
    PROVE  RMul(Rat(n, d), Rat(m, e)) = Rat(n * m, d * e)
<1>1. PICK x \in Int, y \in Nat \ {0} : Rat(n, d)[1] = x /\ Rat(n, d)[2] = y /\ x * d = n * y
  BY RatTerms
<1>2. PICK u \in Int, v \in Nat \ {0} : Rat(m, e)[1] = u /\ Rat(m, e)[2] = v /\ u * e = m * v
  BY RatTerms
<1>3. RMul(Rat(n, d), Rat(m, e)) = Rat(x * u, y * v)
  BY <1>1, <1>2 DEF RMul
<1>4. (x * u) * (d * e) = (n * m) * (y * v)
  <2>1. (x * u) * (d * e) = (x * d) * (u * e)
    OBVIOUS
  <2>2. (x * d) * (u * e) = (n * y) * (m * v)
    BY <1>1, <1>2
  <2>3. (n * y) * (m * v) = (n * m) * (y * v)
    OBVIOUS
  <2> QED BY <2>1, <2>2, <2>3
<1>5. x * u \in Int /\ y * v \in Nat \ {0} /\ n * m \in Int /\ d * e \in Nat \ {0}
  OBVIOUS
<1> QED BY <1>3, <1>4, <1>5, RatEq

LEMMA QuoIs ==
    ASSUME NEW n \in Int, NEW d \in Nat \ {0}, NEW m \in Nat \ {0}, NEW e \in Nat \ {0}
    PROVE  RQuo(Rat(n, d), Rat(m, e)) = Rat(n * e, d * m)
<1>1. PICK x \in Int, y \in Nat \ {0} : Rat(n, d)[1] = x /\ Rat(n, d)[2] = y /\ x * d = n * y
  BY RatTerms
<1>2. PICK u \in Int, v \in Nat \ {0} : Rat(m, e)[1] = u /\ Rat(m, e)[2] = v /\ u * e = m * v
  BY RatTerms
<1>3. RQuo(Rat(n, d), Rat(m, e)) = Rat(x * v, y * u)
  BY <1>1, <1>2 DEF RQuo
<1>4. u > 0
  <2>1. m * v > 0
    OBVIOUS
  <2>2. u <= 0 => u * e <= 0
    OBVIOUS
  <2> QED BY <1>2, <2>1, <2>2
<1>5. (x * v) * (d * m) = (n * e) * (y * u)
  <2>1. (x * v) * (d * m) = (x * d) * (m * v)
    OBVIOUS
  <2>2. (x * d) * (m * v) = (n * y) * (u * e)
    BY <1>1, <1>2
  <2>3. (n * y) * (u * e) = (n * e) * (y * u)
    OBVIOUS
  <2> QED BY <2>1, <2>2, <2>3
<1>6. x * v \in Int /\ y * u \in Nat \ {0} /\ n * e \in Int /\ d * m \in Nat \ {0}
  BY <1>4
<1> QED BY <1>3, <1>5, <1>6, RatEq

LEMMA ScaleLe ==
    ASSUME NEW x \in Int, NEW y \in Int, NEW k \in Nat \ {0} PROVE (k * x <= k * y) <=> (x <= y)
<1>1. x <= y => k * x <= k * y
  <2>1. ASSUME x <= y PROVE k * x <= k * y
    <3>1. PICK z \in Nat : y = x + z
      <4>1. y - x \in Nat /\ y = x + (y - x)
        BY <2>1
      <4> QED BY <4>1
    <3>2. k * (x + z) = k * x + k * z /\ k * z >= 0
      OBVIOUS
    <3> QED BY <3>1, <3>2
  <2> QED BY <2>1
<1>2. k * x <= k * y => x <= y
  <2>1. ASSUME y < x PROVE k * y < k * x
    <3>1. PICK z \in Nat \ {0} : x = y + z
      <4>1. x - y \in Nat \ {0} /\ x = y + (x - y)
        BY <2>1
      <4> QED BY <4>1
    <3>2. k * (y + z) = k * y + k * z /\ k * z > 0
      OBVIOUS
    <3> QED BY <3>1, <3>2
  <2> QED BY <2>1
<1> QED BY <1>1, <1>2

LEMMA LeIs ==
    ASSUME NEW n \in Int, NEW d \in Nat \ {0}, NEW m \in Int, NEW e \in Nat \ {0}
    PROVE  /\ RLe(Rat(n, d), Rat(m, e)) <=> n * e <= m * d
           /\ RLt(Rat(n, d), Rat(m, e)) <=> n * e < m * d
<1>1. PICK x \in Int, y \in Nat \ {0} : Rat(n, d)[1] = x /\ Rat(n, d)[2] = y /\ x * d = n * y
  BY RatTerms
<1>2. PICK u \in Int, v \in Nat \ {0} : Rat(m, e)[1] = u /\ Rat(m, e)[2] = v /\ u * e = m * v
  BY RatTerms
<1>3. (d * e) * (x * v) = (y * v) * (n * e)
  <2>1. (d * e) * (x * v) = (x * d) * (v * e)
    OBVIOUS
  <2>2. (x * d) * (v * e) = (n * y) * (v * e)
    BY <1>1
  <2> QED BY <2>1, <2>2
<1>4. (d * e) * (u * y) = (y * v) * (m * d)
  <2>1. (d * e) * (u * y) = (u * e) * (y * d)
    OBVIOUS
  <2>2. (u * e) * (y * d) = (m * v) * (y * d)
    BY <1>2
  <2> QED BY <2>1, <2>2
<1>5. d * e \in Nat \ {0} /\ y * v \in Nat \ {0} /\ x * v \in Int /\ u * y \in Int /\ n * e \in Int /\ m * d \in Int
  OBVIOUS
<1>6. (x * v <= u * y) <=> (n * e <= m * d)
  BY <1>3, <1>4, <1>5, ScaleLe
<1>7. (u * y <= x * v) <=> (m * d <= n * e)
  BY <1>3, <1>4, <1>5, ScaleLe
<1>8. RLe(Rat(n, d), Rat(m, e)) <=> x * v <= u * y
  BY <1>1, <1>2 DEF RLe
<1>9. RLt(Rat(n, d), Rat(m, e)) <=> x * v < u * y
  BY <1>1, <1>2 DEF RLt
<1> QED BY <1>5, <1>6, <1>7, <1>8, <1>9

-----------------------------------------------------------------------------
(* The laws of addition, multiplication and order.                         *)

LEMMA IntRat == ASSUME NEW n \in Int PROVE Int2Rat(n) = Rat(n, 1) /\ Int2Rat(n) \in Rats
<1>1. PICK m \in Nat : m = AbsOf(n)
  BY DEF AbsOf
<1>2. GCD[<<m, 1>>] = 1
  <2>1. DividesBoth(GCD[<<m, 1>>], <<m, 1>>)
    BY GCDDivides
  <2>2. PICK g \in Nat \ {0}, j \in Nat : g = GCD[<<m, 1>>] /\ 1 = g * j
    BY <2>1 DEF DividesBoth
  <2> QED BY <2>2
<1>3. Rat(n, 1) = <<n, 1>>
  <2>1. n \div 1 = n /\ 1 \div 1 = 1
    OBVIOUS
  <2> QED BY <1>1, <1>2, <2>1 DEF Rat, AbsOf
<1> QED BY <1>3, IsRats DEF Int2Rat

LEMMA Closed ==
    ASSUME NEW a \in Rats, NEW b \in Rats
    PROVE  RAdd(a, b) \in Rats /\ RSub(a, b) \in Rats /\ RMul(a, b) \in Rats /\ RMin(a, b) \in Rats /\ RMax(a, b) \in Rats
<1>1. PICK n \in Int, d \in Nat \ {0}, m \in Int, e \in Nat \ {0} : a = Rat(n, d) /\ b = Rat(m, e)
  BY Fraction
<1>2. n * e + m * d \in Int /\ n * e - m * d \in Int /\ n * m \in Int /\ d * e \in Nat \ {0}
  OBVIOUS
<1>3. RAdd(a, b) \in Rats /\ RSub(a, b) \in Rats /\ RMul(a, b) \in Rats
  <2>1. RAdd(a, b) = Rat(n * e + m * d, d * e)
    BY <1>1, AddIs
  <2>2. RSub(a, b) = Rat(n * e - m * d, d * e)
    BY <1>1, SubIs
  <2>3. RMul(a, b) = Rat(n * m, d * e)
    BY <1>1, MulIs
  <2> QED BY <1>2, <2>1, <2>2, <2>3, IsRats
<1> QED BY <1>3 DEF RMin, RMax

LEMMA AddCommutes == ASSUME NEW a, NEW b, IsRational(a), IsRational(b) PROVE RAdd(a, b) = RAdd(b, a) /\ RMul(a, b) = RMul(b, a)
<1>1. PICK n \in Int, d \in Nat \ {0}, m \in Int, e \in Nat \ {0} : n = a[1] /\ d = a[2] /\ m = b[1] /\ e = b[2]
  BY DEF IsRational
<1>2. n * e + m * d = m * d + n * e /\ d * e = e * d /\ n * m = m * n
  OBVIOUS
<1> QED BY <1>1, <1>2 DEF RAdd, RMul

LEMMA AddAssociates ==
    ASSUME NEW a \in Rats, NEW b \in Rats, NEW c \in Rats
    PROVE  RAdd(RAdd(a, b), c) = RAdd(a, RAdd(b, c))
<1>1. PICK n \in Int, d \in Nat \ {0}, m \in Int, e \in Nat \ {0} : a = Rat(n, d) /\ b = Rat(m, e)
  BY Fraction
<1>2. PICK p \in Int, f \in Nat \ {0} : c = Rat(p, f)
  BY Fraction
<1>3. RAdd(RAdd(a, b), c) = Rat((n * e + m * d) * f + p * (d * e), (d * e) * f)
  <2>1. PICK x \in Int, y \in Nat \ {0} : x = n * e + m * d /\ y = d * e
    OBVIOUS
  <2>2. RAdd(a, b) = Rat(x, y)
    BY <1>1, <2>1, AddIs
  <2>3. RAdd(RAdd(a, b), c) = Rat(x * f + p * y, y * f)
    BY <1>2, <2>2, AddIs
  <2> QED BY <2>1, <2>3
<1>4. RAdd(a, RAdd(b, c)) = Rat(n * (e * f) + (m * f + p * e) * d, d * (e * f))
  <2>1. PICK x \in Int, y \in Nat \ {0} : x = m * f + p * e /\ y = e * f
    OBVIOUS
  <2>2. RAdd(b, c) = Rat(x, y)
    BY <1>1, <1>2, <2>1, AddIs
  <2>3. RAdd(a, RAdd(b, c)) = Rat(n * y + x * d, d * y)
    BY <1>1, <2>2, AddIs
  <2> QED BY <2>1, <2>3
<1>5. (n * e + m * d) * f + p * (d * e) = n * (e * f) + (m * f + p * e) * d /\ (d * e) * f = d * (e * f)
  OBVIOUS
<1> QED BY <1>3, <1>4, <1>5

LEMMA MulAssociates ==
    ASSUME NEW a \in Rats, NEW b \in Rats, NEW c \in Rats
    PROVE  RMul(RMul(a, b), c) = RMul(a, RMul(b, c))
<1>1. PICK n \in Int, d \in Nat \ {0}, m \in Int, e \in Nat \ {0} : a = Rat(n, d) /\ b = Rat(m, e)
  BY Fraction
<1>2. PICK p \in Int, f \in Nat \ {0} : c = Rat(p, f)
  BY Fraction
<1>3. RMul(RMul(a, b), c) = Rat((n * m) * p, (d * e) * f)
  <2>1. PICK x \in Int, y \in Nat \ {0} : x = n * m /\ y = d * e
    OBVIOUS
  <2>2. RMul(a, b) = Rat(x, y)
    BY <1>1, <2>1, MulIs
  <2>3. RMul(RMul(a, b), c) = Rat(x * p, y * f)
    BY <1>2, <2>2, MulIs
  <2> QED BY <2>1, <2>3
<1>4. RMul(a, RMul(b, c)) = Rat(n * (m * p), d * (e * f))
  <2>1. PICK x \in Int, y \in Nat \ {0} : x = m * p /\ y = e * f
    OBVIOUS
  <2>2. RMul(b, c) = Rat(x, y)
    BY <1>1, <1>2, <2>1, MulIs
  <2>3. RMul(a, RMul(b, c)) = Rat(n * x, d * y)
    BY <1>1, <2>2, MulIs
  <2> QED BY <2>1, <2>3
<1>5. (n * m) * p = n * (m * p) /\ (d * e) * f = d * (e * f)
  OBVIOUS
<1> QED BY <1>3, <1>4, <1>5

LEMMA MulDistributes ==
    ASSUME NEW a \in Rats, NEW b \in Rats, NEW c \in Rats
    PROVE  RMul(RAdd(a, b), c) = RAdd(RMul(a, c), RMul(b, c))
<1>1. PICK n \in Int, d \in Nat \ {0}, m \in Int, e \in Nat \ {0} : a = Rat(n, d) /\ b = Rat(m, e)
  BY Fraction
<1>2. PICK p \in Int, f \in Nat \ {0} : c = Rat(p, f)
  BY Fraction
<1>3. RMul(RAdd(a, b), c) = Rat((n * e + m * d) * p, (d * e) * f)
  <2>1. PICK x \in Int, y \in Nat \ {0} : x = n * e + m * d /\ y = d * e
    OBVIOUS
  <2>2. RAdd(a, b) = Rat(x, y)
    BY <1>1, <2>1, AddIs
  <2>3. RMul(RAdd(a, b), c) = Rat(x * p, y * f)
    BY <1>2, <2>2, MulIs
  <2> QED BY <2>1, <2>3
<1>4. RAdd(RMul(a, c), RMul(b, c)) = Rat((n * p) * (e * f) + (m * p) * (d * f), (d * f) * (e * f))
  <2>1. n * p \in Int /\ d * f \in Nat \ {0} /\ m * p \in Int /\ e * f \in Nat \ {0}
    OBVIOUS
  <2>2. RMul(a, c) = Rat(n * p, d * f) /\ RMul(b, c) = Rat(m * p, e * f)
    BY <1>1, <1>2, MulIs
  <2> QED BY <2>1, <2>2, AddIs
<1>5. (n * p) * (e * f) + (m * p) * (d * f) = f * ((n * e + m * d) * p) /\ (d * f) * (e * f) = f * ((d * e) * f)
  OBVIOUS
<1>6. (n * e + m * d) * p \in Int /\ (d * e) * f \in Nat \ {0}
  OBVIOUS
<1>7. Rat(f * ((n * e + m * d) * p), f * ((d * e) * f)) = Rat((n * e + m * d) * p, (d * e) * f)
  BY <1>6, RatScale
<1> QED BY <1>3, <1>4, <1>5, <1>7

LEMMA ZeroIs == Zero \in Rats /\ Zero = Rat(0, 1)
<1>1. Zero = Rat(0, 1)
  BY DEF Zero, Rat
<1>2. Rat(0, 1) \in Rats
  BY IsRats
<1> QED BY <1>1, <1>2

LEMMA AddZero == ASSUME NEW a \in Rats PROVE RAdd(a, Zero) = a /\ RAdd(Zero, a) = a
<1>1. PICK n \in Int, d \in Nat \ {0} : a = Rat(n, d)
  BY Fraction
<1>2. RAdd(a, Zero) = Rat(n * 1 + 0 * d, d * 1)
  BY <1>1, ZeroIs, AddIs
<1>3. n * 1 + 0 * d = n /\ d * 1 = d
  OBVIOUS
<1>4. RAdd(a, Zero) = a
  BY <1>1, <1>2, <1>3
<1> QED BY <1>4, ZeroIs, RatsAre, AddCommutes

LEMMA MulZero == ASSUME NEW a \in Rats PROVE RMul(Zero, a) = Zero
<1>1. PICK n \in Int, d \in Nat \ {0} : a = Rat(n, d)
  BY Fraction
<1>2. RMul(Zero, a) = Rat(0 * n, 1 * d)
  BY <1>1, ZeroIs, MulIs
<1>3. 0 * n = 0 /\ 1 * d = d
  OBVIOUS
<1> QED BY <1>2, <1>3 DEF Rat, Zero

LEMMA SubAdds == ASSUME NEW a \in Rats, NEW b \in Rats PROVE RAdd(RSub(a, b), b) = a
<1>1. PICK n \in Int, d \in Nat \ {0}, m \in Int, e \in Nat \ {0} : a = Rat(n, d) /\ b = Rat(m, e)
  BY Fraction
<1>2. RAdd(RSub(a, b), b) = Rat((n * e - m * d) * e + m * (d * e), (d * e) * e)
  <2>1. PICK x \in Int, y \in Nat \ {0} : x = n * e - m * d /\ y = d * e
    OBVIOUS
  <2>2. RSub(a, b) = Rat(x, y)
    BY <1>1, <2>1, SubIs
  <2>3. RAdd(RSub(a, b), b) = Rat(x * e + m * y, y * e)
    BY <1>1, <2>2, AddIs
  <2> QED BY <2>1, <2>3
<1>3. (n * e - m * d) * e + m * (d * e) = (e * e) * n /\ (d * e) * e = (e * e) * d
  OBVIOUS
<1>4. PICK k \in Nat \ {0} : k = e * e
  OBVIOUS
<1>5. Rat(k * n, k * d) = Rat(n, d)
  BY RatScale
<1> QED BY <1>1, <1>2, <1>3, <1>4, <1>5

LEMMA QuoMultiplies ==
    ASSUME NEW a \in Rats, NEW b \in Rats, RLt(Zero, b) PROVE RMul(RQuo(a, b), b) = a /\ RQuo(a, b) \in Rats
<1>1. PICK n \in Int, d \in Nat \ {0}, m \in Int, e \in Nat \ {0} : a = Rat(n, d) /\ b = Rat(m, e)
  BY Fraction
<1>2. m \in Nat \ {0}
  <2>1. 0 * e < m * 1
    BY <1>1, ZeroIs, LeIs
  <2> QED BY <2>1
<1>3. RQuo(a, b) = Rat(n * e, d * m) /\ n * e \in Int /\ d * m \in Nat \ {0}
  BY <1>1, <1>2, QuoIs
<1>4. RMul(RQuo(a, b), b) = Rat((n * e) * m, (d * m) * e)
  BY <1>1, <1>3, MulIs
<1>5. (n * e) * m = (m * e) * n /\ (d * m) * e = (m * e) * d
  BY <1>2
<1>6. PICK k \in Nat \ {0} : k = m * e
  BY <1>2
<1>7. Rat(k * n, k * d) = Rat(n, d)
  BY RatScale
<1>8. RQuo(a, b) \in Rats
  BY <1>3, IsRats
<1> QED BY <1>1, <1>4, <1>5, <1>6, <1>7, <1>8

LEMMA Ordered ==
    ASSUME NEW a \in Rats, NEW b \in Rats
    PROVE  /\ RLt(a, b) <=> ~RLe(b, a)
           /\ (RLe(a, b) /\ RLe(b, a)) => a = b
           /\ RLe(a, a)
<1>1. PICK n \in Int, d \in Nat \ {0}, m \in Int, e \in Nat \ {0} : a = Rat(n, d) /\ b = Rat(m, e)
  BY Fraction
<1>2. n * e \in Int /\ m * d \in Int
  OBVIOUS
<1>3. RLe(a, b) <=> n * e <= m * d
  BY <1>1, LeIs
<1>4. RLe(b, a) <=> m * d <= n * e
  BY <1>1, LeIs
<1>5. RLt(a, b) <=> n * e < m * d
  BY <1>1, LeIs
<1>6. RLe(a, a)
  BY <1>1, LeIs
<1>7. n * e = m * d => a = b
  BY <1>1, RatEq
<1> QED BY <1>2, <1>3, <1>4, <1>5, <1>6, <1>7

LEMMA LeTransitive == ASSUME NEW a \in Rats, NEW b \in Rats, NEW c \in Rats, RLe(a, b), RLe(b, c) PROVE RLe(a, c)
<1>1. PICK n \in Int, d \in Nat \ {0}, m \in Int, e \in Nat \ {0} : a = Rat(n, d) /\ b = Rat(m, e)
  BY Fraction
<1>2. PICK p \in Int, f \in Nat \ {0} : c = Rat(p, f)
  BY Fraction
<1>3. n * e <= m * d /\ m * f <= p * e
  BY <1>1, <1>2, LeIs
<1>4. f * (n * e) <= f * (m * d) /\ d * (m * f) <= d * (p * e)
  <2>1. n * e \in Int /\ m * d \in Int /\ m * f \in Int /\ p * e \in Int
    OBVIOUS
  <2> QED BY <1>3, <2>1, ScaleLe
<1>5. f * (m * d) = d * (m * f) /\ f * (n * e) = e * (n * f) /\ d * (p * e) = e * (p * d)
  OBVIOUS
<1>6. e * (n * f) <= e * (p * d)
  <2>1. f * (m * d) \in Int /\ e * (n * f) \in Int /\ e * (p * d) \in Int
    OBVIOUS
  <2> QED BY <1>4, <1>5, <2>1
<1>7. n * f \in Int /\ p * d \in Int
  OBVIOUS
<1>8. n * f <= p * d
  BY <1>6, <1>7, ScaleLe
<1> QED BY <1>1, <1>2, <1>8, LeIs

LEMMA AddMonotone == ASSUME NEW a \in Rats, NEW b \in Rats, NEW c \in Rats
                     PROVE  RLe(RAdd(a, c), RAdd(b, c)) <=> RLe(a, b)
<1>1. PICK n \in Int, d \in Nat \ {0}, m \in Int, e \in Nat \ {0} : a = Rat(n, d) /\ b = Rat(m, e)
  BY Fraction
<1>2. PICK p \in Int, f \in Nat \ {0} : c = Rat(p, f)
  BY Fraction
<1>3. RAdd(a, c) = Rat(n * f + p * d, d * f) /\ RAdd(b, c) = Rat(m * f + p * e, e * f)
  <2>1. RAdd(a, c) = Rat(n * f + p * d, d * f)
    BY <1>1, <1>2, AddIs
  <2>2. RAdd(b, c) = Rat(m * f + p * e, e * f)
    BY <1>1, <1>2, AddIs
  <2> QED BY <2>1, <2>2
<1>4. n * f + p * d \in Int /\ d * f \in Nat \ {0} /\ m * f + p * e \in Int /\ e * f \in Nat \ {0}
  OBVIOUS
<1>5. RLe(RAdd(a, c), RAdd(b, c)) <=> (n * f + p * d) * (e * f) <= (m * f + p * e) * (d * f)
  BY <1>3, <1>4, LeIs
<1>6. (n * f + p * d) * (e * f) = (f * f) * (n * e) + (p * d) * (e * f) /\ (m * f + p * e) * (d * f) = (f * f) * (m * d) + (p * d) * (e * f)
  OBVIOUS
<1>7. (f * f) * (n * e) \in Int /\ (f * f) * (m * d) \in Int /\ (p * d) * (e * f) \in Int /\ f * f \in Nat \ {0} /\ n * e \in Int /\ m * d \in Int
  OBVIOUS
<1>8. RLe(RAdd(a, c), RAdd(b, c)) <=> (f * f) * (n * e) <= (f * f) * (m * d)
  BY <1>5, <1>6, <1>7
<1>9. RLe(RAdd(a, c), RAdd(b, c)) <=> n * e <= m * d
  BY <1>7, <1>8, ScaleLe
<1> QED BY <1>1, <1>9, LeIs

LEMMA MulMonotone == ASSUME NEW a \in Rats, NEW b \in Rats, NEW c \in Rats, RLe(a, b), RLe(Zero, c)
                     PROVE  RLe(RMul(a, c), RMul(b, c))
<1>1. PICK n \in Int, d \in Nat \ {0}, m \in Int, e \in Nat \ {0} : a = Rat(n, d) /\ b = Rat(m, e)
  BY Fraction
<1>2. PICK p \in Int, f \in Nat \ {0} : c = Rat(p, f)
  BY Fraction
<1>3. n * e <= m * d /\ p >= 0
  <2>1. 0 * f <= p * 1
    BY <1>2, ZeroIs, LeIs
  <2> QED BY <1>1, <2>1, LeIs
<1>4. RMul(a, c) = Rat(n * p, d * f) /\ RMul(b, c) = Rat(m * p, e * f)
  BY <1>1, <1>2, MulIs
<1>5. n * p \in Int /\ d * f \in Nat \ {0} /\ m * p \in Int /\ e * f \in Nat \ {0}
  OBVIOUS
<1>6. (n * p) * (e * f) = (p * f) * (n * e) /\ (m * p) * (d * f) = (p * f) * (m * d)
  OBVIOUS
<1>7. (p * f) * (n * e) <= (p * f) * (m * d)
  <2>1. n * e \in Int /\ m * d \in Int /\ p * f \in Nat
    BY <1>3
  <2>2. CASE p * f = 0
    <3>1. \A x \in Int : 0 * x = 0
      OBVIOUS
    <3> QED BY <2>1, <2>2, <3>1
  <2>3. CASE p * f # 0
    BY <1>3, <2>1, <2>3, ScaleLe
  <2> QED BY <2>2, <2>3
<1> QED BY <1>4, <1>5, <1>6, <1>7, LeIs

-----------------------------------------------------------------------------
(* Sums over finite sets, in whatever order RSum adds.                     *)

PickOf(s) == CHOOSE x \in s : TRUE
Sums(F, f, S) == F = [s \in SUBSET S |-> IF s = {} THEN Zero ELSE RAdd(f[PickOf(s)], F[s \ {PickOf(s)}])]

LEMMA RSumIs == ASSUME NEW f PROVE RSum(f) = (CHOOSE F : Sums(F, f, DOMAIN f))[DOMAIN f]
BY DEF RSum, FoldFunction, FoldFunctionOnSet, MapThenFoldSet, Sums, PickOf

LEMMA PickIs == ASSUME NEW s, s # {} PROVE PickOf(s) \in s
BY DEF PickOf

(* What holds of the empty set and of a set with one more element.         *)
LEMMA FiniteInduct ==
    ASSUME NEW S, IsFiniteSet(S), NEW G, {} \in G, \A A \in SUBSET S : \A x \in S \ A : A \in G => A \cup {x} \in G
    PROVE  S \in G
<1> DEFINE T == {n \in Nat : \A A \in SUBSET S : Cardinality(A) = n => A \in G}
<1>1. 0 \in T
  <2>1. ASSUME NEW A \in SUBSET S, Cardinality(A) = 0 PROVE A \in G
    <3>1. IsFiniteSet(A)
      BY FS_Subset
    <3>2. A = {}
      BY <2>1, <3>1, FS_EmptySet
    <3> QED BY <3>2
  <2> QED BY <2>1
<1>2. ASSUME NEW n \in T PROVE n + 1 \in T
  <2>1. ASSUME NEW A \in SUBSET S, Cardinality(A) = n + 1 PROVE A \in G
    <3>1. IsFiniteSet(A)
      BY FS_Subset
    <3>2. A # {}
      BY <2>1, FS_EmptySet
    <3>3. PICK x \in A : TRUE
      BY <3>2
    <3>4. PICK B : B = A \ {x}
      OBVIOUS
    <3>5. Cardinality(B) = n /\ B \in SUBSET S
      <4>1. Cardinality(B) = Cardinality(A) - 1
        BY <3>1, <3>3, <3>4, FS_RemoveElement
      <4> QED BY <2>1, <3>4, <4>1
    <3>6. B \in G
      BY <3>5
    <3>7. B \cup {x} = A /\ x \in S \ B
      BY <3>3, <3>4
    <3> QED BY <3>5, <3>6, <3>7
  <2> QED BY <2>1
<1> HIDE DEF T
<1>3. T = Nat
  BY <1>1, <1>2, UpFromZero DEF T
<1>4. Cardinality(S) \in Nat
  BY FS_CardinalityType
<1> QED BY <1>3, <1>4 DEF T

LEMMA SumsExist == ASSUME NEW S, IsFiniteSet(S), NEW f PROVE \E F : Sums(F, f, S)
<1> DEFINE Adds(F, s) == F[s] = IF s = {} THEN Zero ELSE RAdd(f[PickOf(s)], F[s \ {PickOf(s)}])
           UpTo(F, n) == F = [s \in SUBSET S |-> F[s]] /\ \A s \in SUBSET S : Cardinality(s) <= n => Adds(F, s)
           T == {n \in Nat : \E F : UpTo(F, n)}
<1>1. \A s \in SUBSET S : IsFiniteSet(s) /\ Cardinality(s) \in Nat
  BY FS_Subset, FS_CardinalityType
<1>2. 0 \in T
  <2> DEFINE F == [s \in SUBSET S |-> Zero]
  <2>1. ASSUME NEW s \in SUBSET S, Cardinality(s) <= 0 PROVE Adds(F, s)
    <3>1. s = {}
      BY <1>1, <2>1, FS_EmptySet
    <3> QED BY <3>1
  <2>2. UpTo(F, 0)
    BY <2>1
  <2> QED BY <2>2
<1>3. ASSUME NEW n \in T PROVE n + 1 \in T
  <2>1. PICK F : UpTo(F, n)
    OBVIOUS
  <2> DEFINE H == [s \in SUBSET S |-> IF Cardinality(s) = n + 1 THEN RAdd(f[PickOf(s)], F[s \ {PickOf(s)}]) ELSE F[s]]
  <2>2. ASSUME NEW s \in SUBSET S, Cardinality(s) <= n + 1 PROVE Adds(H, s)
    <3>1. CASE s = {}
      <4>1. Cardinality(s) = 0 /\ 0 # n + 1 /\ 0 <= n
        BY <3>1, FS_EmptySet
      <4>2. H[s] = F[s]
        BY <4>1
      <4>3. F[s] = Zero
        BY <2>1, <3>1, <4>1
      <4> QED BY <3>1, <4>2, <4>3
    <3>2. CASE s # {}
      <4>1. PICK p : p = PickOf(s)
        OBVIOUS
      <4>2. p \in s
        BY <3>2, <4>1, PickIs
      <4>3. PICK r : r = s \ {p}
        OBVIOUS
      <4>4. r \in SUBSET S /\ Cardinality(r) = Cardinality(s) - 1
        BY <1>1, <4>2, <4>3, FS_RemoveElement
      <4>5. H[r] = F[r]
        BY <1>1, <2>2, <4>4
      <4>6. H[s] = RAdd(f[p], F[r])
        <5>1. CASE Cardinality(s) = n + 1
          BY <4>1, <4>3, <5>1
        <5>2. CASE Cardinality(s) # n + 1
          <6>1. Cardinality(s) <= n
            BY <1>1, <2>2, <5>2
          <6>2. Adds(F, s)
            BY <2>1, <6>1
          <6>3. H[s] = F[s]
            BY <5>2
          <6> QED BY <3>2, <4>1, <4>3, <6>2, <6>3
        <5> QED BY <5>1, <5>2
      <4> HIDE DEF H
      <4> QED BY <3>2, <4>1, <4>3, <4>5, <4>6
    <3> QED BY <3>1, <3>2
  <2>3. H = [s \in SUBSET S |-> H[s]]
    OBVIOUS
  <2> HIDE DEF H
  <2>4. UpTo(H, n + 1)
    BY <2>2, <2>3
  <2>5. n + 1 \in Nat
    BY <1>3
  <2> HIDE DEF UpTo
  <2> QED BY <2>4, <2>5
<1> HIDE DEF T
<1>4. T = Nat
  BY <1>2, <1>3, UpFromZero DEF T
<1>5. PICK F : UpTo(F, Cardinality(S))
  <2>1. Cardinality(S) \in T
    BY <1>4, FS_CardinalityType
  <2> QED BY <2>1 DEF T
<1>6. \A s \in SUBSET S : Adds(F, s)
  <2>1. \A s \in SUBSET S : Cardinality(s) <= Cardinality(S)
    BY FS_Subset
  <2> QED BY <1>5, <2>1
<1>7. F = [s \in SUBSET S |-> F[s]]
  BY <1>5
<1> QED BY <1>6, <1>7 DEF Sums

LEMMA AddSwaps ==
    ASSUME NEW u \in Rats, NEW v \in Rats, NEW w \in Rats PROVE RAdd(v, RAdd(u, w)) = RAdd(u, RAdd(v, w))
<1>1. RAdd(v, u) = RAdd(u, v)
  BY RatsAre, AddCommutes
<1>2. RAdd(v, RAdd(u, w)) = RAdd(RAdd(v, u), w) /\ RAdd(u, RAdd(v, w)) = RAdd(RAdd(u, v), w)
  BY AddAssociates
<1> QED BY <1>1, <1>2

(* Any element may be added last.                                          *)
Takes(F, f, s) == F[s] \in Rats /\ \A x \in s : F[s] = RAdd(f[x], F[s \ {x}])
LEMMA SumTakes ==
    ASSUME NEW S, IsFiniteSet(S), NEW f, \A x \in S : f[x] \in Rats, NEW F, Sums(F, f, S)
    PROVE  \A s \in SUBSET S : Takes(F, f, s)
<1> DEFINE T == {n \in Nat : \A s \in SUBSET S : Cardinality(s) <= n => Takes(F, f, s)}
<1>1. \A s \in SUBSET S : IsFiniteSet(s) /\ Cardinality(s) \in Nat
  BY FS_Subset, FS_CardinalityType
<1>2. \A s \in SUBSET S : F[s] = IF s = {} THEN Zero ELSE RAdd(f[PickOf(s)], F[s \ {PickOf(s)}])
  BY DEF Sums
<1>3. 0 \in T
  <2>1. ASSUME NEW s \in SUBSET S, Cardinality(s) <= 0 PROVE Takes(F, f, s)
    <3>1. s = {}
      BY <1>1, <2>1, FS_EmptySet
    <3> QED BY <1>2, <3>1, ZeroIs DEF Takes
  <2> QED BY <2>1
<1>4. ASSUME NEW n \in T PROVE n + 1 \in T
  <2>0. n \in Nat /\ \A s \in SUBSET S : Cardinality(s) <= n => Takes(F, f, s)
    OBVIOUS
  <2>1. ASSUME NEW s \in SUBSET S, Cardinality(s) <= n + 1 PROVE Takes(F, f, s)
    <3>0. CASE s = {}
      BY <1>2, <3>0, ZeroIs DEF Takes
    <3>1. CASE s # {}
      <4>1. PICK c : c = PickOf(s)
        OBVIOUS
      <4>2. c \in s /\ F[s] = RAdd(f[c], F[s \ {c}])
        BY <1>2, <3>1, <4>1, PickIs
      <4>3. ASSUME NEW r \in SUBSET s, r # s PROVE Takes(F, f, r)
        <5>1. Cardinality(r) < Cardinality(s)
          BY <1>1, <4>3, FS_Subset
        <5>2. Cardinality(r) <= n /\ r \in SUBSET S
          <6>1. Cardinality(r) \in Nat /\ Cardinality(s) \in Nat
            BY <1>1
          <6> QED BY <2>0, <2>1, <5>1, <6>1
        <5> QED BY <2>0, <5>2
      <4>4. ASSUME NEW x \in s PROVE F[s] = RAdd(f[x], F[s \ {x}])
        <5>1. CASE x = c
          BY <4>2, <5>1
        <5>2. CASE x # c
          <6>1. PICK r : r = (s \ {c}) \ {x}
            OBVIOUS
          <6>2. (s \ {x}) \ {c} = r /\ r \in SUBSET s /\ r # s
            BY <6>1
          <6>3. Takes(F, f, s \ {c}) /\ Takes(F, f, s \ {x}) /\ Takes(F, f, r)
            BY <4>2, <4>3, <6>2
          <6>4. F[s \ {c}] = RAdd(f[x], F[r]) /\ F[s \ {x}] = RAdd(f[c], F[r])
            <7>1. x \in s \ {c} /\ c \in s \ {x}
              BY <4>2, <5>2
            <7> QED BY <6>1, <6>2, <6>3, <7>1 DEF Takes
          <6>5. PICK u, v, w : u = f[x] /\ v = f[c] /\ w = F[r]
            OBVIOUS
          <6>6. u \in Rats /\ v \in Rats /\ w \in Rats
            BY <4>2, <6>3, <6>5 DEF Takes
          <6>7. RAdd(v, RAdd(u, w)) = RAdd(u, RAdd(v, w))
            BY <6>6, AddSwaps
          <6> QED BY <4>2, <6>4, <6>5, <6>7
        <5> QED BY <5>1, <5>2
      <4>5. F[s] \in Rats
        <5>1. Takes(F, f, s \ {c})
          BY <4>2, <4>3
        <5>2. f[c] \in Rats /\ F[s \ {c}] \in Rats
          BY <4>2, <5>1 DEF Takes
        <5> QED BY <4>2, <5>2, Closed
      <4> QED BY <4>4, <4>5 DEF Takes
    <3> QED BY <3>0, <3>1
  <2>2. n + 1 \in Nat
    BY <2>0
  <2> QED BY <2>1, <2>2
<1> HIDE DEF T
<1>5. T = Nat
  BY <1>3, <1>4, UpFromZero DEF T
<1>6. Cardinality(S) \in T
  BY <1>5, FS_CardinalityType
<1>7. \A s \in SUBSET S : Cardinality(s) <= Cardinality(S)
  BY FS_Subset
<1> QED BY <1>6, <1>7 DEF T

-----------------------------------------------------------------------------
(* The sum of f over a part of its domain.                                 *)
PartOf(f, A) == RSum([x \in A |-> f[x]])
Amounts(f, S) == IsFiniteSet(S) /\ \A x \in S : f[x] \in Rats

LEMMA SumsAgree ==
    ASSUME NEW S, NEW f, Amounts(f, S), NEW F, Sums(F, f, S), NEW s \in SUBSET S PROVE PartOf(f, s) = F[s]
<1> DEFINE h == [x \in s |-> f[x]]
<1>0. IsFiniteSet(S) /\ \A x \in S : f[x] \in Rats
  BY DEF Amounts
<1>1. IsFiniteSet(s) /\ \A x \in s : h[x] \in Rats
  BY <1>0, FS_Subset
<1>2. PICK H : H = CHOOSE K : Sums(K, h, s)
  OBVIOUS
<1>3. Sums(H, h, s)
  <2> HIDE DEF h
  <2>1. \E K : Sums(K, h, s)
    BY <1>1, SumsExist
  <2> QED BY <1>2, <2>1
<1>4. \A r \in SUBSET S : Takes(F, f, r)
  BY <1>0, SumTakes
<1>5. \A r \in SUBSET s : Takes(H, h, r)
  <2> HIDE DEF h
  <2> QED BY <1>1, <1>3, SumTakes
<1> DEFINE G == {r \in SUBSET s : H[r] = F[r]}
<1>6. {} \in G
  <2>1. H[{}] = Zero
    BY <1>3 DEF Sums
  <2>2. F[{}] = Zero
    BY DEF Sums
  <2> QED BY <2>1, <2>2
<1>7. ASSUME NEW A \in SUBSET s, NEW x \in s \ A, A \in G PROVE A \cup {x} \in G
  <2>1. PICK r : r = A \cup {x}
    OBVIOUS
  <2>2. r \in SUBSET s /\ r \in SUBSET S /\ x \in r /\ r \ {x} = A
    BY <1>7, <2>1
  <2>3. H[r] = RAdd(h[x], H[A])
    BY <1>5, <2>2 DEF Takes
  <2>4. F[r] = RAdd(f[x], F[A])
    BY <1>4, <2>2 DEF Takes
  <2> QED BY <1>7, <2>1, <2>2, <2>3, <2>4
<1>8. s \in G
  <2> HIDE DEF G
  <2> QED BY <1>1, <1>6, <1>7, FiniteInduct
<1>9. RSum(h) = H[s]
  <2>1. DOMAIN h = s
    OBVIOUS
  <2> HIDE DEF h
  <2> QED BY <1>2, <2>1, RSumIs
<1> QED BY <1>8, <1>9 DEF PartOf

(* Nothing adds up to zero; an element may be taken out of a sum.          *)
LEMMA PartTakes ==
    ASSUME NEW S, NEW f, Amounts(f, S)
    PROVE  /\ PartOf(f, {}) = Zero
           /\ \A A \in SUBSET S : PartOf(f, A) \in Rats
           /\ \A A \in SUBSET S : \A x \in A : PartOf(f, A) = RAdd(f[x], PartOf(f, A \ {x}))
<1>0. IsFiniteSet(S) /\ \A x \in S : f[x] \in Rats
  BY DEF Amounts
<1>1. PICK F : Sums(F, f, S)
  BY <1>0, SumsExist
<1>2. \A A \in SUBSET S : PartOf(f, A) = F[A]
  BY <1>1, SumsAgree
<1>3. \A A \in SUBSET S : Takes(F, f, A)
  BY <1>0, <1>1, SumTakes
<1>4. F[{}] = Zero
  BY <1>1 DEF Sums
<1>5. PartOf(f, {}) = Zero
  BY <1>2, <1>4
<1>6. ASSUME NEW A \in SUBSET S PROVE PartOf(f, A) \in Rats
  BY <1>2, <1>3 DEF Takes
<1>7. ASSUME NEW A \in SUBSET S, NEW x \in A PROVE PartOf(f, A) = RAdd(f[x], PartOf(f, A \ {x}))
  <2>1. F[A] = RAdd(f[x], F[A \ {x}])
    BY <1>3 DEF Takes
  <2>2. PartOf(f, A \ {x}) = F[A \ {x}]
    BY <1>2
  <2> QED BY <1>2, <2>1, <2>2
<1> QED BY <1>5, <1>6, <1>7

LEMMA PartGrows ==
    ASSUME NEW S, NEW f, Amounts(f, S), NEW A \in SUBSET S, NEW x \in S \ A
    PROVE  PartOf(f, A \cup {x}) = RAdd(f[x], PartOf(f, A))
<1>1. PICK r : r = A \cup {x}
  OBVIOUS
<1>2. r \in SUBSET S /\ x \in r /\ r \ {x} = A
  BY <1>1
<1>3. PartOf(f, r) = RAdd(f[x], PartOf(f, r \ {x}))
  BY <1>2, PartTakes
<1> QED BY <1>1, <1>2, <1>3

(* The sum is over the values, whatever function holds them.               *)
LEMMA PartSame ==
    ASSUME NEW A, NEW f, NEW g, \A x \in A : f[x] = g[x] PROVE PartOf(f, A) = PartOf(g, A)
<1>1. [x \in A |-> f[x]] = [x \in A |-> g[x]]
  OBVIOUS
<1> QED BY <1>1 DEF PartOf

LEMMA PartUnion ==
    ASSUME NEW S, NEW f, Amounts(f, S), NEW A \in SUBSET S, NEW B \in SUBSET S, A \cap B = {}
    PROVE  PartOf(f, A \cup B) = RAdd(PartOf(f, A), PartOf(f, B))
<1> DEFINE G == {r \in SUBSET B : PartOf(f, A \cup r) = RAdd(PartOf(f, A), PartOf(f, r))}
<1>0. IsFiniteSet(B)
  BY FS_Subset DEF Amounts
<1>1. {} \in G
  <2>1. A \cup {} = A /\ PartOf(f, {}) = Zero /\ PartOf(f, A) \in Rats
    BY PartTakes
  <2> QED BY <2>1, AddZero
<1>2. ASSUME NEW r \in SUBSET B, NEW x \in B \ r, r \in G PROVE r \cup {x} \in G
  <2>1. PICK q : q = A \cup r
    OBVIOUS
  <2>2. A \cup (r \cup {x}) = q \cup {x} /\ q \in SUBSET S /\ x \in S \ q /\ r \in SUBSET S /\ x \in S \ r
    BY <1>2, <2>1
  <2>3. PartOf(f, q \cup {x}) = RAdd(f[x], PartOf(f, q)) /\ PartOf(f, r \cup {x}) = RAdd(f[x], PartOf(f, r))
    BY <2>2, PartGrows
  <2>4. PartOf(f, q) = RAdd(PartOf(f, A), PartOf(f, r))
    BY <1>2, <2>1
  <2>5. PICK u, v, w : u = PartOf(f, A) /\ v = f[x] /\ w = PartOf(f, r)
    OBVIOUS
  <2>6. u \in Rats /\ v \in Rats /\ w \in Rats
    BY <2>2, <2>5, PartTakes DEF Amounts
  <2>7. RAdd(v, RAdd(u, w)) = RAdd(u, RAdd(v, w))
    BY <2>6, AddSwaps
  <2>8. PartOf(f, A \cup (r \cup {x})) = RAdd(PartOf(f, A), PartOf(f, r \cup {x}))
    BY <2>2, <2>3, <2>4, <2>5, <2>7
  <2> QED BY <1>2, <2>8
<1>3. B \in G
  <2> HIDE DEF G
  <2> QED BY <1>0, <1>1, <1>2, FiniteInduct
<1> QED BY <1>3

LEMMA PartScales ==
    ASSUME NEW S, NEW f, NEW g, Amounts(f, S), NEW k \in Rats, \A x \in S : g[x] = RMul(f[x], k)
    PROVE  PartOf(g, S) = RMul(PartOf(f, S), k)
<1> DEFINE G == {r \in SUBSET S : PartOf(g, r) = RMul(PartOf(f, r), k)}
<1>0. IsFiniteSet(S) /\ \A x \in S : f[x] \in Rats
  BY DEF Amounts
<1>1. Amounts(g, S)
  <2>1. \A x \in S : g[x] \in Rats
    BY <1>0, Closed
  <2> QED BY <1>0, <2>1 DEF Amounts
<1>2. {} \in G
  <2>1. PartOf(f, {}) = Zero /\ PartOf(g, {}) = Zero
    BY <1>1, PartTakes
  <2> QED BY <2>1, MulZero
<1>3. ASSUME NEW r \in SUBSET S, NEW x \in S \ r, r \in G PROVE r \cup {x} \in G
  <2>1. PartOf(f, r \cup {x}) = RAdd(f[x], PartOf(f, r)) /\ PartOf(g, r \cup {x}) = RAdd(g[x], PartOf(g, r))
    BY <1>1, PartGrows
  <2>2. PICK v, w : v = f[x] /\ w = PartOf(f, r)
    OBVIOUS
  <2>3. v \in Rats /\ w \in Rats
    BY <1>0, <2>2, PartTakes
  <2>4. RMul(RAdd(v, w), k) = RAdd(RMul(v, k), RMul(w, k))
    BY <2>3, MulDistributes
  <2> QED BY <1>3, <2>1, <2>2, <2>4
<1>4. S \in G
  <2> HIDE DEF G
  <2> QED BY <1>0, <1>2, <1>3, FiniteInduct
<1> QED BY <1>4

(* A sum of amounts that are not negative grows with what it is over.      *)
LEMMA AddRaises == ASSUME NEW a \in Rats, NEW b \in Rats, RLe(Zero, a) PROVE RLe(b, RAdd(a, b))
<1>1. RLe(RAdd(Zero, b), RAdd(a, b))
  BY ZeroIs, AddMonotone
<1> QED BY <1>1, AddZero

LEMMA PartNotNegative ==
    ASSUME NEW S, NEW f, Amounts(f, S), \A x \in S : RLe(Zero, f[x]) PROVE RLe(Zero, PartOf(f, S))
<1> DEFINE G == {r \in SUBSET S : RLe(Zero, PartOf(f, r))}
<1>0. IsFiniteSet(S) /\ \A x \in S : f[x] \in Rats
  BY DEF Amounts
<1>1. {} \in G
  BY PartTakes, ZeroIs, Ordered
<1>2. ASSUME NEW r \in SUBSET S, NEW x \in S \ r, r \in G PROVE r \cup {x} \in G
  <2>1. PartOf(f, r \cup {x}) = RAdd(f[x], PartOf(f, r))
    BY PartGrows
  <2>2. PICK v, w : v = f[x] /\ w = PartOf(f, r)
    OBVIOUS
  <2>3. v \in Rats /\ w \in Rats /\ RLe(Zero, v) /\ RLe(Zero, w)
    BY <1>0, <1>2, <2>2, PartTakes
  <2>4. RLe(w, RAdd(v, w)) /\ RAdd(v, w) \in Rats
    BY <2>3, AddRaises, Closed
  <2>5. RLe(Zero, RAdd(v, w))
    BY <2>3, <2>4, ZeroIs, LeTransitive
  <2> QED BY <1>2, <2>1, <2>2, <2>5
<1>3. S \in G
  <2> HIDE DEF G
  <2> QED BY <1>0, <1>1, <1>2, FiniteInduct
<1> QED BY <1>3

LEMMA PartLess ==
    ASSUME NEW S, NEW f, Amounts(f, S), \A x \in S : RLe(Zero, f[x]), NEW A \in SUBSET S
    PROVE  RLe(PartOf(f, A), PartOf(f, S))
<1>1. PICK B : B = S \ A
  OBVIOUS
<1>2. B \in SUBSET S /\ A \cap B = {} /\ A \cup B = S
  BY <1>1
<1>3. PartOf(f, S) = RAdd(PartOf(f, A), PartOf(f, B))
  BY <1>2, PartUnion
<1>4. Amounts(f, B)
  BY <1>2, FS_Subset DEF Amounts
<1>5. RLe(Zero, PartOf(f, B))
  BY <1>2, <1>4, PartNotNegative
<1>6. PICK u, v : u = PartOf(f, A) /\ v = PartOf(f, B)
  OBVIOUS
<1>7. u \in Rats /\ v \in Rats
  BY <1>2, <1>6, PartTakes
<1>8. RLe(u, RAdd(v, u)) /\ RAdd(v, u) = RAdd(u, v)
  BY <1>5, <1>6, <1>7, AddRaises, AddCommutes, RatsAre
<1> QED BY <1>3, <1>6, <1>8

(* What is zero adds nothing.                                              *)
LEMMA PartDropsZero ==
    ASSUME NEW S, NEW f, Amounts(f, S), NEW A \in SUBSET S, \A x \in S \ A : f[x] = Zero
    PROVE  PartOf(f, S) = PartOf(f, A)
<1> DEFINE G == {r \in SUBSET S : PartOf(f, r) = PartOf(f, r \cap A)}
<1>0. IsFiniteSet(S) /\ \A x \in S : f[x] \in Rats
  BY DEF Amounts
<1>1. {} \in G
  <2>1. {} \cap A = {}
    OBVIOUS
  <2> QED BY <2>1
<1>2. ASSUME NEW r \in SUBSET S, NEW x \in S \ r, r \in G PROVE r \cup {x} \in G
  <2>1. PartOf(f, r \cup {x}) = RAdd(f[x], PartOf(f, r))
    BY PartGrows
  <2>2. PICK q : q = r \cap A
    OBVIOUS
  <2>3. q \in SUBSET S /\ x \in S \ q
    BY <2>2
  <2>4. CASE x \in A
    <3>1. (r \cup {x}) \cap A = q \cup {x}
      BY <2>2, <2>4
    <3>2. PartOf(f, q \cup {x}) = RAdd(f[x], PartOf(f, q))
      BY <2>3, PartGrows
    <3> QED BY <1>2, <2>1, <2>2, <3>1, <3>2
  <2>5. CASE x \notin A
    <3>1. (r \cup {x}) \cap A = q
      BY <2>2, <2>5
    <3>2. f[x] = Zero
      BY <2>5
    <3>3. RAdd(Zero, PartOf(f, r)) = PartOf(f, r)
      BY PartTakes, AddZero
    <3> QED BY <1>2, <2>1, <2>2, <3>1, <3>2, <3>3
  <2> QED BY <2>4, <2>5
<1>3. S \in G
  <2> HIDE DEF G
  <2> QED BY <1>0, <1>1, <1>2, FiniteInduct
<1>4. S \cap A = A
  OBVIOUS
<1> QED BY <1>3, <1>4

LEMMA ImageFinite == ASSUME NEW S, IsFiniteSet(S), NEW to PROVE IsFiniteSet({to[x] : x \in S})
<1> DEFINE Im(r) == {to[x] : x \in r}
           G == {r \in SUBSET S : IsFiniteSet(Im(r))}
<1>1. {} \in G
  <2>1. Im({}) = {}
    OBVIOUS
  <2> QED BY <2>1, FS_EmptySet
<1>2. ASSUME NEW r \in SUBSET S, NEW x \in S \ r, r \in G PROVE r \cup {x} \in G
  <2>1. Im(r \cup {x}) = Im(r) \cup {to[x]}
    OBVIOUS
  <2>2. IsFiniteSet(Im(r) \cup {to[x]})
    <3> HIDE DEF Im
    <3> QED BY <1>2, FS_AddElement
  <2> HIDE DEF Im
  <2> QED BY <1>2, <2>1, <2>2
<1>3. S \in G
  <2> HIDE DEF G
  <2> QED BY <1>1, <1>2, FiniteInduct
<1> QED BY <1>3

(* The same amounts under other names.                                     *)
LEMMA PartRenamed ==
    ASSUME NEW S, NEW f, Amounts(f, S), NEW to, \A x, y \in S : to[x] = to[y] => x = y,
           NEW g, \A x \in S : g[to[x]] = f[x], NEW I, I = {to[x] : x \in S}
    PROVE  PartOf(g, I) = PartOf(f, S)
<1> DEFINE Im(r) == {to[x] : x \in r}
           G == {r \in SUBSET S : PartOf(g, Im(r)) = PartOf(f, r)}
<1>0. IsFiniteSet(S) /\ \A x \in S : f[x] \in Rats
  BY DEF Amounts
<1>1. Amounts(g, I)
  <2>1. IsFiniteSet(I)
    BY <1>0, ImageFinite
  <2>2. \A y \in I : g[y] \in Rats
    BY <1>0
  <2> QED BY <2>1, <2>2 DEF Amounts
<1>2. {} \in G
  <2>1. Im({}) = {}
    OBVIOUS
  <2>2. PartOf(g, {}) = Zero /\ PartOf(f, {}) = Zero
    BY <1>1, PartTakes
  <2> QED BY <2>1, <2>2
<1>3. ASSUME NEW r \in SUBSET S, NEW x \in S \ r, r \in G PROVE r \cup {x} \in G
  <2>1. PICK q : q = Im(r)
    OBVIOUS
  <2>2. PICK y : y = to[x]
    OBVIOUS
  <2>3. Im(r \cup {x}) = q \cup {y}
    BY <2>1, <2>2
  <2>4. q \in SUBSET I /\ y \in I \ q
    BY <2>1, <2>2
  <2>5. PartOf(g, q \cup {y}) = RAdd(g[y], PartOf(g, q))
    BY <1>1, <2>4, PartGrows
  <2>6. PartOf(f, r \cup {x}) = RAdd(f[x], PartOf(f, r))
    BY PartGrows
  <2>7. PartOf(g, q) = PartOf(f, r) /\ g[y] = f[x]
    BY <1>3, <2>1, <2>2
  <2> HIDE DEF Im
  <2> QED BY <2>3, <2>5, <2>6, <2>7
<1>4. S \in G
  <2> HIDE DEF G
  <2> QED BY <1>0, <1>2, <1>3, FiniteInduct
<1>5. Im(S) = I
  OBVIOUS
<1> HIDE DEF Im
<1> QED BY <1>4, <1>5

-------------------------------------------------------------------
(* Exact rational numbers: lowest terms exist and keep the value.          *)

(* Euclid's step keeps the common divisors.                                *)
(* Euclid's algorithm ends in a common divisor: else take a pair with the  *)
(* least second number of which that is not so.                            *)
-----------------------------------------------------------------------------
(* The load an RI carries when it is used for less than all of it.         *)

LEMMA RMinIs == ASSUME NEW a, NEW b PROVE RMin(a, b) = a \/ RMin(a, b) = b
BY DEF RMin

Share(load, bought) == RQuo(RMul(load, Int2Rat(100)), Int2Rat(bought))
LEMMA ShareIs ==
    ASSUME NEW load, IsRational(load), NEW bought \in Nat \ {0}
    PROVE  /\ IsRational(Share(load, bought))
           /\ Share(load, bought)[1] * (load[2] * bought) = (load[1] * 100) * Share(load, bought)[2]
<1>1. PICK n \in Int, d \in Nat \ {0} : n = load[1] /\ d = load[2]
  BY DEF IsRational
<1>2. PICK x : x = RMul(load, Int2Rat(100))
  OBVIOUS
<1>3. x = Rat(n * 100, d * 1)
  BY <1>1, <1>2 DEF RMul, Int2Rat
<1>4. n * 100 \in Int /\ d * 1 = d
  OBVIOUS
<1>5. IsRational(x) /\ x[1] * d = (n * 100) * x[2]
  BY <1>3, <1>4, RatIs
<1>6. PICK a \in Int, b \in Nat \ {0} : a = x[1] /\ b = x[2]
  BY <1>5 DEF IsRational
<1>7. PICK y : y = Share(load, bought)
  OBVIOUS
<1>8. y = Rat(a * 1, b * bought)
  BY <1>2, <1>6, <1>7 DEF Share, RQuo, Int2Rat
<1>9. a * 1 = a /\ b * bought \in Nat \ {0}
  OBVIOUS
<1>10. IsRational(y) /\ y[1] * (b * bought) = a * y[2]
  BY <1>8, <1>9, RatIs
<1>11. PICK e \in Int, f \in Nat \ {0} : e = y[1] /\ f = y[2]
  BY <1>10 DEF IsRational
<1>12. e * (d * bought) = (n * 100) * f
  <2>1. a * d = (n * 100) * b /\ e * (b * bought) = a * f
    BY <1>5, <1>6, <1>10, <1>11
  <2>2. (e * (d * bought)) * b = (e * (b * bought)) * d
    OBVIOUS
  <2>3. (e * (b * bought)) * d = (a * d) * f
    BY <2>1
  <2>4. (a * d) * f = ((n * 100) * f) * b
    BY <2>1
  <2>5. e * (d * bought) \in Int /\ (n * 100) * f \in Int
    OBVIOUS
  <2> QED BY <2>2, <2>3, <2>4, <2>5, Cancels
<1> QED BY <1>1, <1>7, <1>10, <1>11, <1>12

(* What is used of an RI that reports this share is the load.              *)
LEMMA UsedIs ==
    ASSUME NEW ri, Purchased(ri) \in Nat \ {0}, NEW load, IsRational(load),
           NEW util, util = Share(load, Purchased(ri))
    PROVE  IsRational(Used(ri, util)) /\ Used(ri, util)[1] * load[2] = load[1] * Used(ri, util)[2]
<1>1. PICK n \in Int, d \in Nat \ {0}, p \in Nat \ {0} : n = load[1] /\ d = load[2] /\ p = Purchased(ri)
  BY DEF IsRational
<1>2. PICK e \in Int, f \in Nat \ {0} : e = util[1] /\ f = util[2]
  BY ShareIs DEF IsRational
<1>3. e * (d * p) = (n * 100) * f
  BY <1>1, <1>2, ShareIs
<1>4. PICK z : z = RQuo(util, Int2Rat(100))
  OBVIOUS
<1>5. z = Rat(e * 1, f * 100)
  BY <1>2, <1>4 DEF RQuo, Int2Rat
<1>6. e * 1 = e /\ f * 100 \in Nat \ {0}
  OBVIOUS
<1>7. IsRational(z) /\ z[1] * (f * 100) = e * z[2]
  BY <1>5, <1>6, RatIs
<1>8. PICK g \in Int, h \in Nat \ {0} : g = z[1] /\ h = z[2]
  BY <1>7 DEF IsRational
<1>9. PICK u : u = Used(ri, util)
  OBVIOUS
<1>10. u = Rat(p * g, 1 * h)
  BY <1>1, <1>4, <1>8, <1>9 DEF Used, RMul, Int2Rat
<1>11. p * g \in Int /\ 1 * h = h
  OBVIOUS
<1>12. IsRational(u) /\ u[1] * h = (p * g) * u[2]
  BY <1>10, <1>11, RatIs
<1>13. PICK a \in Int, b \in Nat \ {0} : a = u[1] /\ b = u[2]
  BY <1>12 DEF IsRational
<1>14. g * (d * p) = n * h
  <2>1. g * (f * 100) = e * h
    BY <1>7, <1>8
  <2>2. (g * (d * p)) * (f * 100) = (g * (f * 100)) * (d * p)
    OBVIOUS
  <2>3. (g * (f * 100)) * (d * p) = (e * (d * p)) * h
    BY <2>1
  <2>4. (e * (d * p)) * h = (n * h) * (f * 100)
    BY <1>3
  <2>5. g * (d * p) \in Int /\ n * h \in Int /\ f * 100 \in Nat \ {0}
    OBVIOUS
  <2> QED BY <2>2, <2>3, <2>4, <2>5, Cancels
<1>15. a * d = n * b
  <2>1. a * h = (p * g) * b
    BY <1>12, <1>13, <1>8
  <2>2. (a * d) * h = (a * h) * d
    OBVIOUS
  <2>3. (a * h) * d = (g * (d * p)) * b
    BY <2>1
  <2>4. (g * (d * p)) * b = (n * b) * h
    BY <1>14
  <2>5. a * d \in Int /\ n * b \in Int
    OBVIOUS
  <2> QED BY <2>2, <2>3, <2>4, <2>5, Cancels
<1> QED BY <1>1, <1>9, <1>12, <1>13, <1>15

(* Whole instances of a size carry what is used when rounded up.           *)
LEMMA CeilCarries ==
    ASSUME NEW u, IsRational(u), NEW nf \in Nat \ {0}, NEW load, IsRational(load), u[1] * load[2] = load[1] * u[2]
    PROVE  CeilDiv(u, nf) \in Int /\ RLe(load, Int2Rat(nf * CeilDiv(u, nf)))
<1>1. PICK n \in Int, d \in Nat \ {0}, a \in Int, b \in Nat \ {0} : n = load[1] /\ d = load[2] /\ a = u[1] /\ b = u[2]
  BY DEF IsRational
<1>2. PICK m \in Nat \ {0} : m = b * nf
  BY <1>1
<1>3. PICK k \in Int : k = (-a) \div m
  OBVIOUS
<1>4. CeilDiv(u, nf) = -k
  BY <1>1, <1>2, <1>3 DEF CeilDiv
<1>5. k * m <= -a
  <2>1. \A x \in Int, y \in Nat \ {0} : (x \div y) * y <= x
    OBVIOUS
  <2>2. -a \in Int
    OBVIOUS
  <2> QED BY <1>3, <2>1, <2>2
<1>6. PICK c \in Int : c = -k
  OBVIOUS
<1>7. a <= c * m
  BY <1>5, <1>6
<1>8. n <= (nf * c) * d
  <2>1. n * b = a * d
    BY <1>1
  <2>2. a * d <= (c * m) * d
    BY <1>7
  <2>3. (c * m) * d = ((nf * c) * d) * b
    BY <1>2
  <2>4. n \in Int /\ (nf * c) * d \in Int
    OBVIOUS
  <2> QED BY <2>1, <2>2, <2>3, <2>4, CancelsLe
<1>9. load[1] * 1 <= (nf * c) * load[2]
  BY <1>1, <1>8
<1> QED BY <1>4, <1>6, <1>9 DEF RLe, Int2Rat

-----------------------------------------------------------------------------
(* The ends of a ladder.                                                   *)

LEMMA Factors == ASSUME NEW s PROVE EC2NormalizationFactor(s) \in 0..64
<1>1. CASE s \in DOMAIN SizeFactor
  BY <1>1 DEF SizeFactor, EC2NormalizationFactor
<1>2. CASE s \notin DOMAIN SizeFactor
  BY <1>2 DEF EC2NormalizationFactor
<1> QED BY <1>1, <1>2

LEMMA LargestIs == ASSUME NEW S, S # {} PROVE Largest(S) \in S
<1> DEFINE T == {64 - EC2NormalizationFactor(s) : s \in S}
<1>1. T \in SUBSET Nat /\ T # {}
  BY Factors
<1>2. PICK m \in T : \A k \in T : m <= k
  BY <1>1, FirstIs
<1>3. PICK s \in S : m = 64 - EC2NormalizationFactor(s)
  BY <1>2
<1>4. \A t \in S : EC2NormalizationFactor(t) <= EC2NormalizationFactor(s)
  <2>1. TAKE t \in S
  <2>2. 64 - EC2NormalizationFactor(s) <= 64 - EC2NormalizationFactor(t)
    BY <1>2, <1>3
  <2> QED BY <2>2, Factors
<1> QED BY <1>4 DEF Largest

LEMMA SmallestIs == ASSUME NEW S, S # {} PROVE Smallest(S) \in S
<1> DEFINE T == {EC2NormalizationFactor(s) : s \in S}
<1>1. T \in SUBSET Nat /\ T # {}
  BY Factors
<1>2. PICK m \in T : \A k \in T : m <= k
  BY <1>1, FirstIs
<1>3. PICK s \in S : m = EC2NormalizationFactor(s)
  BY <1>2
<1> QED BY <1>2, <1>3 DEF Smallest

LEMMA LadderIs ==
    ASSUME NEW offered, NEW family, HasLadder(offered, family)
    PROVE  /\ LadderFor(offered, family) # {}
           /\ \A s \in LadderFor(offered, family) :
                /\ EC2NormalizationFactor(s) \in Nat \ {0}
                /\ offered # {} => s \in OfferedSizes(offered, family)
<1>1. CASE offered = {}
  <2>1. LadderFor(offered, family) = SizeOrder
    BY <1>1 DEF LadderFor
  <2>2. \A s \in SizeOrder : EC2NormalizationFactor(s) \in Nat \ {0}
    BY DEF SizeOrder, SizeFactor, EC2NormalizationFactor
  <2>3. SizeOrder # {}
    BY DEF SizeOrder
  <2> QED BY <1>1, <2>1, <2>2, <2>3
<1>2. CASE offered # {}
  <2>1. LadderFor(offered, family) = OfferedSizes(offered, family)
    BY <1>2 DEF LadderFor
  <2>2. \A s \in OfferedSizes(offered, family) : EC2NormalizationFactor(s) > 0
    BY DEF OfferedSizes
  <2> QED BY <1>2, <2>1, <2>2, Factors DEF HasLadder
<1> QED BY <1>1, <1>2

(* What findBestFit answers carries the load.                              *)
LEMMA FitCarries ==
    ASSUME NEW u, IsRational(u), NEW load, IsRational(load), u[1] * load[2] = load[1] * u[2],
           NEW purchased \in Nat, NEW offered, NEW family, HasLadder(offered, family),
           NEW fit, fit = FindBestFit(u, purchased, LadderFor(offered, family)), fit # NoFit
    PROVE  /\ fit[2] \in Int /\ RLe(load, Int2Rat(EC2NormalizationFactor(fit[1]) * fit[2]))
           /\ fit[1] \in LadderFor(offered, family)
<1> DEFINE ladder == LadderFor(offered, family)
           fits  == {s \in ladder : FitsWhole(u, purchased, EC2NormalizationFactor(s))}
           least == EC2NormalizationFactor(Smallest(ladder))
<1>1. CASE fits # {}
  <2>1. PICK s : s = Largest(fits)
    OBVIOUS
  <2>2. s \in fits
    BY <1>1, <2>1, LargestIs
  <2>3. EC2NormalizationFactor(s) \in Nat \ {0} /\ s \in ladder
    BY <2>2, LadderIs
  <2>4. fit = <<s, CeilDiv(u, EC2NormalizationFactor(s))>>
    BY <1>1, <2>1 DEF FindBestFit
  <2>5. CeilDiv(u, EC2NormalizationFactor(s)) \in Int
        /\ RLe(load, Int2Rat(EC2NormalizationFactor(s) * CeilDiv(u, EC2NormalizationFactor(s))))
    BY <2>3, CeilCarries
  <2> QED BY <2>3, <2>4, <2>5
<1>2. CASE fits = {}
  <2>1. RLt(u, Int2Rat(least)) /\ fit = <<Smallest(ladder), 1>>
    BY <1>2 DEF FindBestFit
  <2>2. Smallest(ladder) \in ladder
    BY SmallestIs, LadderIs
  <2>3. PICK nf \in Nat : nf = least
    BY Factors
  <2>4. RLe(load, Int2Rat(nf))
    <3>1. PICK n \in Int, d \in Nat \ {0}, a \in Int, b \in Nat \ {0} : n = load[1] /\ d = load[2] /\ a = u[1] /\ b = u[2]
      BY DEF IsRational
    <3>2. a * 1 < nf * b /\ a * d = n * b
      BY <2>1, <2>3, <3>1 DEF RLt, Int2Rat
    <3>3. a * d <= (nf * b) * d
      BY <3>2
    <3>4. n * b <= (nf * d) * b
      BY <3>2, <3>3
    <3>5. n <= nf * d
      BY <3>4, CancelsLe
    <3> QED BY <3>1, <3>5 DEF RLe, Int2Rat
  <2>5. nf * 1 = nf
    OBVIOUS
  <2> QED BY <2>1, <2>2, <2>3, <2>4, <2>5
<1> QED BY <1>1, <1>2

-----------------------------------------------------------------------------
(* RI reshaping: what is held carries the load.                            *)

ReshapeSpec == ReshapeInit /\ [][ReshapeNext]_reshapeVars

HeldFields == {"type", "count", "factor", "class", "currency", "monthly", "term"}
IsHeld(ri) ==
    /\ ri.count \in Nat /\ ri.factor \in Nat /\ ri.term \in Int /\ IsRational(ri.monthly)
    /\ HeldFields \subseteq DOMAIN ri

(* A target that is advised carries the load and is smaller than the RI.   *)
TargetCarries(ri, type, count) ==
    /\ count \in Int
    /\ count > 0 =>
         /\ RLe(case.load, Int2Rat(EC2NormalizationFactor(type[2]) * count))
         /\ count * EC2NormalizationFactor(type[2]) < Purchased(ri)
         /\ case.offered # {} => type \in case.offered
AlternativeHolds(ri, a) ==
    /\ a.type[1] # ri.type[1]
    /\ (ri.term > 0 /\ a.term > 0) => a.term = ri.term
    /\ RLt(Zero, ri.monthly) =>
         RLe(RMul(Int2Rat(SourceFactor(ri)), ri.monthly), RMul(Int2Rat(a.factor), a.monthly))

ReshapeInv ==
    /\ case \in ReshapeCases /\ IsHeld(held)
    /\ rounds > 0 => RLe(case.load, Int2Rat(Purchased(held)))
    /\ advice # Nil =>
         /\ TargetCarries(held, advice.type, advice.count)
         /\ \A i \in DOMAIN advice.alternatives : AlternativeHolds(held, advice.alternatives[i])

LEMMA CaseFacts ==
    ASSUME case \in ReshapeCases
    PROVE  /\ IsHeld(case.ri) /\ IsRational(case.load) /\ case.load[1] >= 0
           /\ IsRational(case.threshold) /\ RLe(case.threshold, Int2Rat(100))
           /\ \A t \in case.offered : t = <<t[1], t[2]>>
           /\ \A o \in case.offerings : o.term \in Int /\ IsRational(o.monthly) /\ o.factor \in Int
BY ReshapeAssumption DEF ReshapeAssumption, IsHeld, HeldFields

LEMMA PurchasedIs == ASSUME NEW ri, IsHeld(ri) PROVE Purchased(ri) \in Nat /\ NormFactor(ri) \in Nat
<1>1. NormFactor(ri) \in Nat /\ ri.count \in Nat
  BY Factors DEF NormFactor, IsHeld
<1> QED BY <1>1 DEF Purchased

LEMMA AnalysisIs ==
    ASSUME ReshapeInv, NEW util, util \in (IF Purchased(held) = 0 THEN {Nil, Zero} ELSE {Nil, Utilization}),
           NEW analysed, analysed = AnalyzeRI(held, util, case.threshold, case.offered), analysed # Nil
    PROVE  \E used, type, count : analysed = Advice(held, used, type, count) /\ TargetCarries(held, type, count)
<1> DEFINE used == Used(held, util)
           family == held.type[1]
           fit == FindBestFit(used, Purchased(held), LadderFor(case.offered, family))
<1>1. IsHeld(held) /\ case \in ReshapeCases /\ Purchased(held) \in Nat
  BY PurchasedIs DEF ReshapeInv
<1>2. util # Nil /\ ~RLe(case.threshold, util)
  BY DEF AnalyzeRI
<1>3. CASE NormFactor(held) = 0 \/ RLe(used, Zero)
  <2>1. analysed = Advice(held, Zero, NoTarget, 0)
    BY <1>3 DEF AnalyzeRI
  <2> QED BY <2>1 DEF TargetCarries
<1>4. CASE ~(NormFactor(held) = 0 \/ RLe(used, Zero)) /\ ~HasLadder(case.offered, family)
  <2>1. analysed = Advice(held, used, NoTarget, 0)
    BY <1>4 DEF AnalyzeRI
  <2> QED BY <2>1 DEF TargetCarries
<1>5. CASE ~(NormFactor(held) = 0 \/ RLe(used, Zero)) /\ HasLadder(case.offered, family)
  <2>1. /\ fit # NoFit /\ ~(fit[2] * EC2NormalizationFactor(fit[1]) >= Purchased(held))
        /\ analysed = Advice(held, used, <<family, fit[1]>>, fit[2])
    BY <1>5 DEF AnalyzeRI
  <2>2. Purchased(held) # 0
    <3>1. ASSUME Purchased(held) = 0 PROVE FALSE
      <4>1. util = Zero
        BY <1>2, <3>1
      <4>2. used = RMul(Int2Rat(0), RQuo(Zero, Int2Rat(100)))
        BY <3>1, <4>1 DEF Used
      <4>3. RQuo(Zero, Int2Rat(100)) = <<0, 1>>
        BY DEF RQuo, Rat, Zero, Int2Rat
      <4>4. used = <<0, 1>>
        BY <4>2, <4>3 DEF RMul, Rat, Int2Rat
      <4> QED BY <1>5, <4>4 DEF RLe, Zero
    <3> QED BY <3>1
  <2>3. util = Share(case.load, Purchased(held))
    <3>1. util = RMin(Share(case.load, Purchased(held)), Int2Rat(100))
      BY <1>2, <2>2 DEF Utilization, Share
    <3>2. util # Int2Rat(100)
      BY <1>1, <1>2, CaseFacts
    <3> QED BY <3>1, <3>2, RMinIs
  <2>4. IsRational(used) /\ used[1] * case.load[2] = case.load[1] * used[2]
    BY <1>1, <2>2, <2>3, CaseFacts, UsedIs
  <2>5. /\ fit[2] \in Int /\ RLe(case.load, Int2Rat(EC2NormalizationFactor(fit[1]) * fit[2]))
        /\ fit[1] \in LadderFor(case.offered, family)
    <3>1. IsRational(case.load)
      BY <1>1, CaseFacts
    <3>2. HasLadder(case.offered, family)
      BY <1>5
    <3> HIDE DEF used, family
    <3> QED BY <1>1, <2>1, <2>4, <3>1, <3>2, FitCarries
  <2>6. fit[2] * EC2NormalizationFactor(fit[1]) < Purchased(held)
    <3>1. fit[2] * EC2NormalizationFactor(fit[1]) \in Int
      <4>1. \A x \in Int, y \in Int : x * y \in Int
        OBVIOUS
      <4>2. EC2NormalizationFactor(fit[1]) \in Int
        BY Factors
      <4> QED BY <2>5, <4>1, <4>2
    <3> QED BY <1>1, <2>1, <3>1
  <2>7. ASSUME case.offered # {} PROVE <<family, fit[1]>> \in case.offered
    <3>1. fit[1] \in OfferedSizes(case.offered, family)
      BY <1>5, <2>5, <2>7, LadderIs
    <3>2. PICK t \in case.offered : t[1] = family /\ t[2] = fit[1]
      BY <3>1 DEF OfferedSizes
    <3>3. t = <<t[1], t[2]>>
      BY <1>1, CaseFacts
    <3> QED BY <3>2, <3>3
  <2>8. TargetCarries(held, <<family, fit[1]>>, fit[2])
    BY <2>5, <2>6, <2>7 DEF TargetCarries
  <2> QED BY <2>1, <2>8
<1> QED BY <1>3, <1>4, <1>5

(* What is shown beside the target AWS would take.                         *)
LEMMA EligibleHolds ==
    ASSUME ReshapeInv, NEW analysed, analysed.source = held.type, NEW o \in case.offerings, Eligible(analysed, o, held)
    PROVE  AlternativeHolds(held, o)
<1>1. IsHeld(held) /\ case \in ReshapeCases
  BY DEF ReshapeInv
<1>2. o.type[1] # held.type[1]
  BY DEF Eligible, IsCrossFamily
<1>3. (held.term > 0 /\ o.term > 0) => o.term = held.term
  <2>1. held.term \in Int /\ o.term \in Int
    BY <1>1, CaseFacts DEF IsHeld
  <2> QED BY <2>1 DEF Eligible, TermMatchesIfKnown
<1>4. ASSUME RLt(Zero, held.monthly)
      PROVE  RLe(RMul(Int2Rat(SourceFactor(held)), held.monthly), RMul(Int2Rat(o.factor), o.monthly))
  <2>1. ~RLe(held.monthly, Zero)
    <3>1. held.monthly[1] \in Int /\ held.monthly[2] \in Int
      BY <1>1 DEF IsHeld, IsRational
    <3> QED BY <1>4, <3>1 DEF RLt, RLe, Zero
  <2> QED BY <2>1 DEF Eligible, PricingGatePasses, PassesDollarUnits
<1> QED BY <1>2, <1>3, <1>4 DEF AlternativeHolds

LEMMA AnalyzeKeeps == ASSUME ReshapeInv, Analyze PROVE ReshapeInv'
<1>1. PICK util \in (IF Purchased(held) = 0 THEN {Nil, Zero} ELSE {Nil, Utilization}), offerings \in {{}, case.offerings} :
        advice' \in AnalyzeWithRecs(held, util, case.threshold, case.offered, offerings)
  BY DEF Analyze
<1>2. case' = case /\ held' = held /\ rounds' = rounds
  BY DEF Analyze
<1>3. PICK analysed : analysed = AnalyzeRI(held, util, case.threshold, case.offered)
  OBVIOUS
<1>4. analysed # Nil /\ advice' \in FillAlternatives(analysed, held, offerings)
  BY <1>1, <1>3 DEF AnalyzeWithRecs
<1>5. PICK used, type, count : analysed = Advice(held, used, type, count) /\ TargetCarries(held, type, count)
  BY <1>3, <1>4, AnalysisIs
<1> DEFINE shown == {o \in offerings : Eligible(analysed, o, held)}
<1>6. PICK s \in Ranked(shown, held) : advice' = [analysed EXCEPT !.alternatives = s]
  BY <1>4 DEF FillAlternatives
<1>7. advice'.type = type /\ advice'.count = count /\ advice'.alternatives = s
  BY <1>5, <1>6 DEF Advice
<1>8. ASSUME NEW i \in DOMAIN s PROVE AlternativeHolds(held, s[i])
  <2>1. s[i] \in shown
    BY DEF Ranked
  <2>2. s[i] \in case.offerings /\ Eligible(analysed, s[i], held)
    BY <2>1
  <2>3. analysed.source = held.type
    BY <1>5 DEF Advice
  <2> QED BY <2>2, <2>3, EligibleHolds
<1>9. /\ TargetCarries(held, type, count) <=> TargetCarries(held, type, count)'
      /\ \A a : AlternativeHolds(held, a) <=> AlternativeHolds(held, a)'
  BY <1>2 DEF TargetCarries, AlternativeHolds
<1>10. (case \in ReshapeCases /\ IsHeld(held) /\ (rounds > 0 => RLe(case.load, Int2Rat(Purchased(held)))))'
  BY <1>2 DEF ReshapeInv
<1> QED BY <1>5, <1>7, <1>8, <1>9, <1>10 DEF ReshapeInv

LEMMA ExchangeKeeps == ASSUME ReshapeInv, Exchange PROVE ReshapeInv'
<1>1. /\ advice # Nil /\ advice.count > 0 /\ case' = case /\ advice' = Nil /\ rounds' = rounds + 1
      /\ held' = [held EXCEPT !.type = advice.type, !.count = advice.count, !.factor = 0, !.monthly = Zero]
  BY DEF Exchange
<1>2. IsHeld(held) /\ TargetCarries(held, advice.type, advice.count)
  BY <1>1 DEF ReshapeInv
<1>3. /\ held'.type = advice.type /\ held'.count = advice.count /\ held'.factor = 0 /\ held'.monthly = Zero
      /\ held'.term = held.term /\ DOMAIN held' = DOMAIN held
  BY <1>1, <1>2 DEF IsHeld, HeldFields
<1>4. IsHeld(held')
  BY <1>1, <1>2, <1>3 DEF IsHeld, TargetCarries, IsRational, Zero
<1>5. Purchased(held') = EC2NormalizationFactor(advice.type[2]) * advice.count
  BY <1>3 DEF Purchased, NormFactor
<1>6. RLe(case.load, Int2Rat(EC2NormalizationFactor(advice.type[2]) * advice.count))
  BY <1>1, <1>2 DEF TargetCarries
<1> QED BY <1>1, <1>4, <1>5, <1>6 DEF ReshapeInv

(* For every RI, load, threshold and catalog, and however often the RI is  *)
(* reshaped: what is held carries the load, a target is smaller than what  *)
(* it replaces and offered, and AWS would take every alternative (analyze- *)
(* RI, findBestFit, alternativeIsEligible).                                *)
THEOREM ReshapedCarriesTheLoad == ReshapeSpec => []ReshapeCarriesTheLoad
<1>1. ReshapeInit => ReshapeInv
  <2> SUFFICES ASSUME ReshapeInit PROVE ReshapeInv
    OBVIOUS
  <2>1. case \in ReshapeCases /\ held = case.ri /\ advice = Nil /\ rounds = 0
    BY DEF ReshapeInit
  <2> QED BY <2>1, CaseFacts DEF ReshapeInv
<1>2. ReshapeInv /\ [ReshapeNext]_reshapeVars => ReshapeInv'
  <2> SUFFICES ASSUME ReshapeInv, [ReshapeNext]_reshapeVars PROVE ReshapeInv'
    OBVIOUS
  <2>1. CASE UNCHANGED reshapeVars
    <3>1. case' = case /\ held' = held /\ advice' = advice /\ rounds' = rounds
      BY <2>1 DEF reshapeVars
    <3> QED BY <3>1 DEF ReshapeInv, TargetCarries, AlternativeHolds
  <2> QED BY <2>1, AnalyzeKeeps, ExchangeKeeps DEF ReshapeNext
<1>3. ReshapeInv => ReshapeCarriesTheLoad
  <2> SUFFICES ASSUME ReshapeInv PROVE ReshapeCarriesTheLoad
    OBVIOUS
  <2> QED BY DEF ReshapeInv, ReshapeCarriesTheLoad, TargetCarries, AlternativeHolds
<1> QED BY <1>1, <1>2, <1>3, PTL DEF ReshapeSpec

-----------------------------------------------------------------------------
(* The order of amounts.                                                   *)

LEMMA LowestIsRat == ASSUME NEW a, InLowestTerms(a) PROVE a \in Rats
<1>1. PICK n, d : n = a[1] /\ d = a[2]
  OBVIOUS
<1>2. n \in Int /\ d \in Nat \ {0} /\ a = Rat(n, d)
  BY <1>1 DEF InLowestTerms, IsRational
<1> QED BY <1>2, IsRats

LEMMA LtLe == ASSUME NEW a \in Rats, NEW b \in Rats, RLt(a, b) PROVE RLe(a, b) /\ a # b
<1>1. PICK n \in Int, d \in Nat \ {0}, m \in Int, e \in Nat \ {0} : a = Rat(n, d) /\ b = Rat(m, e)
  BY Fraction
<1>2. n * e < m * d /\ n * e \in Int /\ m * d \in Int
  BY <1>1, LeIs
<1>3. n * e <= m * d
  BY <1>2
<1>4. RLe(a, b)
  BY <1>1, <1>3, LeIs
<1> QED BY <1>4, Ordered

LEMMA LeTotal == ASSUME NEW a \in Rats, NEW b \in Rats PROVE RLe(a, b) \/ RLe(b, a)
BY LtLe, Ordered

LEMMA MulCommutes == ASSUME NEW a \in Rats, NEW b \in Rats PROVE RMul(a, b) = RMul(b, a)
BY RatsAre, AddCommutes

LEMMA MinMax ==
    ASSUME NEW a \in Rats, NEW b \in Rats
    PROVE  /\ RMin(a, b) \in {a, b} /\ RLe(RMin(a, b), a) /\ RLe(RMin(a, b), b)
           /\ RMax(a, b) \in {a, b} /\ RLe(a, RMax(a, b)) /\ RLe(b, RMax(a, b))
<1>1. RLe(a, b) \/ RLe(b, a)
  BY LeTotal
<1>2. RLe(a, a) /\ RLe(b, b) /\ (~RLe(a, b) => RLe(b, a))
  BY <1>1, Ordered
<1> QED BY <1>2 DEF RMin, RMax

LEMMA MulNotNegative ==
    ASSUME NEW a \in Rats, NEW b \in Rats, RLe(Zero, a), RLe(Zero, b) PROVE RLe(Zero, RMul(a, b))
<1>1. RLe(RMul(Zero, b), RMul(a, b))
  BY ZeroIs, MulMonotone
<1> QED BY <1>1, MulZero

LEMMA SubIsZero == ASSUME NEW a \in Rats, NEW b \in Rats PROVE RLe(Zero, RSub(a, b)) <=> RLe(b, a)
<1>1. RSub(a, b) \in Rats
  BY Closed
<1>2. RLe(RAdd(Zero, b), RAdd(RSub(a, b), b)) <=> RLe(Zero, RSub(a, b))
  BY <1>1, ZeroIs, AddMonotone
<1> QED BY <1>2, AddZero, SubAdds

LEMMA LeLt == ASSUME NEW a \in Rats, NEW b \in Rats, RLe(a, b), a # b PROVE RLt(a, b)
BY Ordered

LEMMA LtLeLt == ASSUME NEW a \in Rats, NEW b \in Rats, NEW c \in Rats, RLt(a, b), RLe(b, c) PROVE RLt(a, c)
<1>1. SUFFICES ASSUME RLe(c, a) PROVE FALSE
  BY Ordered
<1>2. RLe(b, a)
  BY <1>1, LeTransitive
<1> QED BY <1>2, Ordered

LEMMA LeLtLt == ASSUME NEW a \in Rats, NEW b \in Rats, NEW c \in Rats, RLe(a, b), RLt(b, c) PROVE RLt(a, c)
<1>1. SUFFICES ASSUME RLe(c, a) PROVE FALSE
  BY Ordered
<1>2. RLe(c, b)
  BY <1>1, LeTransitive
<1> QED BY <1>2, Ordered

LEMMA QuoNotNegative ==
    ASSUME NEW a \in Rats, NEW b \in Rats, RLe(Zero, a), RLt(Zero, b)
    PROVE  RQuo(a, b) \in Rats /\ RLe(Zero, RQuo(a, b))
<1>0. RQuo(a, b) \in Rats /\ RMul(RQuo(a, b), b) = a
  BY QuoMultiplies
<1>1. PICK q \in Rats : q = RQuo(a, b)
  BY <1>0
<1>2. SUFFICES ASSUME RLt(q, Zero) PROVE FALSE
  BY <1>1, ZeroIs, Ordered
<1>3. PICK n \in Int, d \in Nat \ {0}, m \in Int, e \in Nat \ {0} : q = Rat(n, d) /\ b = Rat(m, e)
  BY Fraction
<1>4. n * 1 < 0 * d /\ 0 * e < m * 1
  BY <1>2, <1>3, ZeroIs, LeIs
<1>5. a = Rat(n * m, d * e)
  BY <1>0, <1>1, <1>3, MulIs
<1>6. n * m < 0
  <2>1. n < 0 /\ m > 0
    BY <1>4
  <2>2. PICK k \in Nat \ {0} : n = -k
    <3>1. -n \in Nat \ {0} /\ n = -(-n)
      BY <2>1
    <3> QED BY <3>1
  <2>3. k * m > 0 /\ n * m = -(k * m)
    BY <2>1, <2>2
  <2> QED BY <2>3
<1>7. PICK x \in Int, y \in Nat \ {0} : x = n * m /\ y = d * e
  OBVIOUS
<1>8. 0 * y <= x * 1
  BY <1>5, <1>7, ZeroIs, LeIs
<1> QED BY <1>6, <1>7, <1>8

LEMMA FloorIs ==
    ASSUME NEW a \in Rats, NEW p \in Nat \ {0}, RLe(Zero, a) PROVE RFloor(a, p) \in Rats /\ RLe(Zero, RFloor(a, p))
<1>1. PICK n \in Int, d \in Nat \ {0} : n = a[1] /\ d = a[2] /\ a = Rat(n, d)
  BY RatsAre DEF IsRational
<1>2. 0 * d <= n * 1
  BY <1>1, ZeroIs, LeIs
<1>3. n \in Nat
  BY <1>2
<1>4. PICK x \in Nat : x = n * p
  BY <1>3
<1>5. PICK y \in Int : y = x \div d
  BY <1>4
<1>6. y \in Nat
  BY <1>4, <1>5
<1>7. RFloor(a, p) = Rat(y, p)
  BY <1>1, <1>4, <1>5 DEF RFloor
<1>8. RLe(Zero, Rat(y, p))
  BY <1>6, ZeroIs, LeIs
<1> QED BY <1>6, <1>7, <1>8, IsRats

LEMMA OneIs == One \in Rats /\ RLt(Zero, One)
<1>1. One = Rat(1, 1) /\ Rat(1, 1) \in Rats
  BY IntRat, IsRats DEF One
<1>2. RLt(Rat(0, 1), Rat(1, 1))
  BY LeIs
<1> QED BY <1>1, <1>2, ZeroIs

-----------------------------------------------------------------------------
(* The ramp: the steps of an allocation add up to it.                      *)

After(F, gap, ramp, i) ==
    IF i = 0 THEN Zero ELSE RAdd(F[i - 1], StepAmount(gap, ramp[i], i = Len(ramp), F[i - 1]))
Priors(F, gap, ramp) == F = [i \in 0..Len(ramp) |-> After(F, gap, ramp, i)]

LEMMA StepAmountsAre ==
    ASSUME NEW gap, NEW ramp
    PROVE  StepAmounts(gap, ramp)
             = [i \in DOMAIN ramp |-> StepAmount(gap, ramp[i], i = Len(ramp), (CHOOSE G : Priors(G, gap, ramp))[i - 1])]
BY Zenon DEF StepAmounts, Priors, After

LEMMA PriorsExist == ASSUME NEW gap, NEW ramp, Len(ramp) \in Nat PROVE \E F : Priors(F, gap, ramp)
<1> DEFINE n == Len(ramp)
           UpTo(F, k) == F = [i \in 0..n |-> F[i]] /\ \A i \in 0..n : i <= k => F[i] = After(F, gap, ramp, i)
           T == {k \in Nat : \E F : UpTo(F, k)}
<1>1. 0 \in T
  <2> DEFINE F == [i \in 0..n |-> Zero]
  <2>1. UpTo(F, 0)
    BY DEF After
  <2> QED BY <2>1
<1>2. ASSUME NEW k \in T PROVE k + 1 \in T
  <2>1. PICK F : UpTo(F, k)
    OBVIOUS
  <2> DEFINE H == [i \in 0..n |-> IF i = k + 1 THEN After(F, gap, ramp, i) ELSE F[i]]
  <2>2. ASSUME NEW i \in 0..n, i <= k + 1 PROVE H[i] = After(H, gap, ramp, i)
    <3>0. k \in Nat /\ i \in Nat
      OBVIOUS
    <3>1. H[i] = After(F, gap, ramp, i)
      <4>1. CASE i = k + 1
        BY <4>1
      <4>2. CASE i # k + 1
        <5>1. i <= k
          BY <2>2, <3>0, <4>2
        <5>2. F[i] = After(F, gap, ramp, i)
          BY <2>1, <5>1
        <5> QED BY <4>2, <5>2
      <4> QED BY <4>1, <4>2
    <3>2. i # 0 => H[i - 1] = F[i - 1]
      BY <2>2, <3>0
    <3>3. After(F, gap, ramp, i) = After(H, gap, ramp, i)
      <4> HIDE DEF H
      <4> QED BY <3>2 DEF After
    <3> QED BY <3>1, <3>3
  <2>3. H = [i \in 0..n |-> H[i]]
    OBVIOUS
  <2> HIDE DEF H
  <2>4. UpTo(H, k + 1) /\ k + 1 \in Nat
    BY <2>2, <2>3
  <2> HIDE DEF UpTo
  <2> QED BY <2>4
<1> HIDE DEF T
<1>3. T = Nat
  BY <1>1, <1>2, UpFromZero DEF T
<1>4. PICK F : UpTo(F, n)
  BY <1>3 DEF T
<1>5. F = [i \in 0..n |-> After(F, gap, ramp, i)]
  <2>1. \A i \in 0..n : F[i] = After(F, gap, ramp, i)
    BY <1>4
  <2>2. F = [i \in 0..n |-> F[i]]
    BY <1>4
  <2> QED BY <2>1, <2>2
<1> QED BY <1>5 DEF Priors

(* Never more than remains; all of it in the end.                          *)
LEMMA StepFits ==
    ASSUME NEW gap \in Rats, RLe(Zero, gap), NEW step, step.fraction \in Rats, RLe(Zero, step.fraction),
           NEW isLast \in BOOLEAN, NEW prior \in Rats, RLe(prior, gap)
    PROVE  LET a == StepAmount(gap, step, isLast, prior)
           IN  /\ a \in Rats /\ RLe(Zero, a) /\ RAdd(prior, a) \in Rats
               /\ RLe(RAdd(prior, a), gap)
               /\ isLast => RAdd(prior, a) = gap
<1>1. PICK r : r = RSub(gap, prior)
  OBVIOUS
<1>2. r \in Rats /\ RLe(Zero, r) /\ RMax(Zero, r) = r
  <2>1. r \in Rats
    BY <1>1, Closed
  <2>2. RLe(Zero, r)
    BY <1>1, SubIsZero
  <2> QED BY <2>1, <2>2 DEF RMax
<1>3. RAdd(r, prior) = gap /\ RAdd(prior, r) = gap
  BY <1>1, <1>2, SubAdds, AddCommutes, RatsAre
<1>4. PICK q : q = RMul(gap, step.fraction)
  OBVIOUS
<1>5. q \in Rats /\ RLe(Zero, q)
  BY <1>4, Closed, MulNotNegative
<1>6. PICK a : a = StepAmount(gap, step, isLast, prior)
  OBVIOUS
<1>7. a = IF isLast THEN r ELSE RMin(q, r)
  BY <1>1, <1>2, <1>4, <1>6 DEF StepAmount
<1>8. a \in {q, r} /\ RLe(a, r) /\ (isLast => a = r)
  BY <1>2, <1>5, <1>7, MinMax, Ordered
<1>9. a \in Rats /\ RLe(Zero, a)
  BY <1>2, <1>5, <1>8
<1>10. RLe(RAdd(prior, a), gap) /\ RAdd(prior, a) \in Rats
  <2>1. RLe(RAdd(a, prior), RAdd(r, prior))
    BY <1>2, <1>8, <1>9, AddMonotone
  <2>2. RAdd(a, prior) = RAdd(prior, a) /\ RAdd(prior, a) \in Rats
    BY <1>9, AddCommutes, RatsAre, Closed
  <2> QED BY <1>3, <2>1, <2>2
<1> QED BY <1>3, <1>6, <1>8, <1>9, <1>10

LEMMA StepsAddUp ==
    ASSUME NEW gap \in Rats, RLe(Zero, gap), NEW ramp, Len(ramp) \in Nat \ {0}, DOMAIN ramp = 1..Len(ramp),
           \A i \in DOMAIN ramp : ramp[i].fraction \in Rats /\ RLe(Zero, ramp[i].fraction)
    PROVE  /\ \A i \in DOMAIN ramp : StepAmounts(gap, ramp)[i] \in Rats /\ RLe(Zero, StepAmounts(gap, ramp)[i])
           /\ PartOf(StepAmounts(gap, ramp), DOMAIN ramp) = gap
<1> DEFINE n == Len(ramp)
<1>0. PICK F : F = CHOOSE G : Priors(G, gap, ramp)
  OBVIOUS
<1>1. StepAmounts(gap, ramp) = [i \in DOMAIN ramp |-> StepAmount(gap, ramp[i], i = n, F[i - 1])]
  BY <1>0, StepAmountsAre
<1>2. Priors(F, gap, ramp)
  BY <1>0, PriorsExist
<1>3. PICK s : s = StepAmounts(gap, ramp)
  OBVIOUS
<1>4. F[0] = Zero
  <2>1. 0 \in 0..n
    OBVIOUS
  <2>2. F[0] = After(F, gap, ramp, 0)
    BY <1>2, <2>1 DEF Priors
  <2> QED BY <2>2 DEF After
<1>5. \A i \in 1..n : s[i] = StepAmount(gap, ramp[i], i = n, F[i - 1])
  BY <1>1, <1>3
<1>6. \A i \in 1..n : F[i] = RAdd(F[i - 1], s[i])
  <2>1. ASSUME NEW i \in 1..n PROVE F[i] = RAdd(F[i - 1], s[i])
    <3>1. i \in 0..n /\ i # 0
      OBVIOUS
    <3>2. F[i] = After(F, gap, ramp, i)
      BY <1>2, <3>1 DEF Priors
    <3> QED BY <1>5, <3>1, <3>2 DEF After
  <2> QED BY <2>1
<1> DEFINE T == {k \in Nat : k <= n => F[k] \in Rats /\ RLe(F[k], gap)}
<1>7. ASSUME NEW k \in Nat, k + 1 \in 1..n, F[k] \in Rats, RLe(F[k], gap)
      PROVE  /\ s[k + 1] \in Rats /\ RLe(Zero, s[k + 1]) /\ F[k + 1] \in Rats /\ RLe(F[k + 1], gap)
             /\ k + 1 = n => F[n] = gap
  <2>1. PICK i \in 1..n : i = k + 1
    BY <1>7
  <2>2. i - 1 = k
    BY <2>1
  <2>3. PICK p : p = F[k]
    OBVIOUS
  <2>4. s[i] = StepAmount(gap, ramp[i], i = n, p) /\ F[i] = RAdd(p, s[i])
    BY <1>5, <1>6, <2>2, <2>3
  <2>5. (i = n) \in BOOLEAN
    OBVIOUS
  <2>6. PICK step : step = ramp[i]
    OBVIOUS
  <2>7. step.fraction \in Rats /\ RLe(Zero, step.fraction)
    BY <2>6
  <2>8. PICK last \in BOOLEAN : last = (i = n)
    BY <2>5
  <2>9. PICK a : a = StepAmount(gap, step, last, p)
    OBVIOUS
  <2>10. /\ a \in Rats /\ RLe(Zero, a) /\ RAdd(p, a) \in Rats
         /\ RLe(RAdd(p, a), gap) /\ (last => RAdd(p, a) = gap)
    BY <1>7, <2>3, <2>7, <2>9, StepFits
  <2>11. a = s[i] /\ F[i] = RAdd(p, a)
    BY <2>4, <2>6, <2>8, <2>9
  <2> QED BY <2>1, <2>8, <2>10, <2>11
<1>8. 0 \in T
  BY <1>4, ZeroIs
<1>9. ASSUME NEW k \in T PROVE k + 1 \in T
  <2>1. SUFFICES ASSUME k + 1 <= n PROVE F[k + 1] \in Rats /\ RLe(F[k + 1], gap)
    OBVIOUS
  <2>2. k \in Nat /\ k + 1 \in 1..n /\ F[k] \in Rats /\ RLe(F[k], gap)
    BY <2>1
  <2> QED BY <1>7, <2>2
<1> HIDE DEF T
<1>10. T = Nat
  BY <1>8, <1>9, UpFromZero DEF T
<1>11. \A k \in 0..n : F[k] \in Rats /\ RLe(F[k], gap)
  BY <1>10 DEF T
<1>12. \A i \in 1..n : s[i] \in Rats /\ RLe(Zero, s[i])
  <2>1. ASSUME NEW i \in 1..n PROVE s[i] \in Rats /\ RLe(Zero, s[i])
    <3>1. PICK k \in Nat : i = k + 1 /\ k \in 0..n
      <4>1. i - 1 \in Nat /\ i = (i - 1) + 1 /\ i - 1 \in 0..n
        OBVIOUS
      <4> QED BY <4>1
    <3> QED BY <1>7, <1>11, <3>1
  <2> QED BY <2>1
<1>13. F[n] = gap
  <2>1. PICK k \in Nat : n = k + 1 /\ k \in 0..n
    <3>1. n - 1 \in Nat /\ n = (n - 1) + 1 /\ n - 1 \in 0..n
      OBVIOUS
    <3> QED BY <3>1
  <2>2. F[k] \in Rats /\ RLe(F[k], gap) /\ k + 1 \in 1..n
    BY <1>11, <2>1
  <2> QED BY <1>7, <2>1, <2>2
<1>14. Amounts(s, 1..n)
  BY <1>12, FS_Interval DEF Amounts
<1> DEFINE U == {k \in Nat : k <= n => PartOf(s, 1..k) = F[k]}
<1>15. 0 \in U
  <2>1. 1..0 = {}
    OBVIOUS
  <2> QED BY <1>4, <1>14, <2>1, PartTakes
<1>16. ASSUME NEW k \in U PROVE k + 1 \in U
  <2>0. k \in Nat /\ k + 1 \in Nat
    OBVIOUS
  <2>1. SUFFICES ASSUME k + 1 <= n PROVE PartOf(s, 1..(k + 1)) = F[k + 1]
    BY <2>0
  <2>2. PICK A, i : A = 1..k /\ i = k + 1 /\ i \in Nat
    BY <2>0
  <2>3. A \in SUBSET (1..n) /\ i \in (1..n) \ A /\ 1..(k + 1) = A \cup {i} /\ i - 1 = k
    BY <2>1, <2>2
  <2>4. PartOf(s, A \cup {i}) = RAdd(s[i], PartOf(s, A))
    <3>1. PICK S : S = 1..n
      OBVIOUS
    <3>2. Amounts(s, S) /\ A \in SUBSET S /\ i \in S \ A
      BY <1>14, <2>3, <3>1
    <3> QED BY <3>2, PartGrows
  <2>5. PartOf(s, A) = F[k]
    BY <2>1, <2>2
  <2>6. F[i] = RAdd(F[k], s[i])
    BY <1>6, <2>3
  <2>7. RAdd(s[i], F[k]) = RAdd(F[k], s[i])
    <3>1. F[k] \in Rats /\ s[i] \in Rats
      <4>1. k \in 0..n
        BY <2>1
      <4> QED BY <1>11, <1>12, <2>3, <4>1
    <3> QED BY <3>1, AddCommutes, RatsAre
  <2> QED BY <2>2, <2>3, <2>4, <2>5, <2>6, <2>7
<1> HIDE DEF U
<1>17. U = Nat
  BY <1>15, <1>16, UpFromZero DEF U
<1>18. PartOf(s, 1..n) = gap
  BY <1>13, <1>17 DEF U
<1> QED BY <1>3, <1>12, <1>18

-----------------------------------------------------------------------------
(* No more purchases than the run allows: purchases of different layers    *)
(* are ordered.                                                            *)

OneEach(S) == \A x, y \in S : x.layer = y.layer => x = y

LEMMA LayerNamesAre ==
    /\ DOMAIN LayerNames = 1..5
    /\ \A i, j \in 1..5 : LayerNames[i] = LayerNames[j] => i = j
<1>1. DOMAIN LayerNames = 1..5
  BY DEF LayerNames
<1>2. LayerNames[1] = "azure-reservation" /\ LayerNames[2] = "azure-savings-plan" /\ LayerNames[3] = "compute-sp"
      /\ LayerNames[4] = "convertible-ri" /\ LayerNames[5] = "ec2-instance-sp"
  BY DEF LayerNames
<1>3. ASSUME NEW i \in 1..5, NEW j \in 1..5, LayerNames[i] = LayerNames[j] PROVE i = j
  <2>1. i \in {1, 2, 3, 4, 5} /\ j \in {1, 2, 3, 4, 5}
    OBVIOUS
  <2> QED BY <1>2, <1>3, <2>1
<1> QED BY <1>1, <1>3

LEMMA NamesOrdered ==
    ASSUME NEW k \in LayerType, NEW l \in LayerType
    PROVE  /\ k # l => NameBefore(k, l) \/ NameBefore(l, k)
           /\ \A m \in LayerType : NameBefore(k, l) /\ NameBefore(l, m) => NameBefore(k, m)
<1>1. PICK i \in 1..5, j \in 1..5 : k = LayerNames[i] /\ l = LayerNames[j]
  BY LayerNamesAre DEF LayerType
<1>2. k # l => NameBefore(k, l) \/ NameBefore(l, k)
  <2>1. k # l => i < j \/ j < i
    BY <1>1
  <2> QED BY <1>1, <2>1, LayerNamesAre DEF NameBefore
<1>3. ASSUME NEW m \in LayerType, NameBefore(k, l), NameBefore(l, m) PROVE NameBefore(k, m)
  <2>1. PICK a \in 1..5, b \in 1..5 : a < b /\ LayerNames[a] = k /\ LayerNames[b] = l
    BY <1>3, LayerNamesAre DEF NameBefore
  <2>2. PICK c \in 1..5, d \in 1..5 : c < d /\ LayerNames[c] = l /\ LayerNames[d] = m
    BY <1>3, LayerNamesAre DEF NameBefore
  <2>3. b = c
    BY <2>1, <2>2, LayerNamesAre
  <2>4. a < d
    BY <2>1, <2>2, <2>3
  <2> QED BY <2>1, <2>2, <2>4, LayerNamesAre DEF NameBefore
<1> QED BY <1>2, <1>3

Buyable(S) ==
    /\ IsFiniteSet(S) /\ OneEach(S)
    /\ \A a \in S : a.layer \in LayerType /\ a.gap \in Rats

LEMMA PurchasesOrdered ==
    ASSUME NEW S, Buyable(S), NEW a \in S, NEW b \in S
    PROVE  /\ a # b => PurchaseBefore(a, b) \/ PurchaseBefore(b, a)
           /\ \A c \in S : PurchaseBefore(a, b) /\ PurchaseBefore(b, c) => PurchaseBefore(a, c)
<1>1. \A x \in S : x.gap \in Rats /\ x.layer \in LayerType
  BY DEF Buyable
<1>2. ASSUME a # b PROVE PurchaseBefore(a, b) \/ PurchaseBefore(b, a)
  <2>1. CASE a.gap = b.gap
    <3>1. a.layer # b.layer
      BY <1>2 DEF Buyable, OneEach
    <3>2. NameBefore(a.layer, b.layer) \/ NameBefore(b.layer, a.layer)
      BY <1>1, <3>1, NamesOrdered
    <3> QED BY <2>1, <3>2 DEF PurchaseBefore
  <2>2. CASE a.gap # b.gap
    <3>1. RLt(a.gap, b.gap) \/ RLt(b.gap, a.gap)
      BY <1>1, <2>2, LeTotal, LeLt
    <3> QED BY <3>1 DEF PurchaseBefore
  <2> QED BY <2>1, <2>2
<1>3. ASSUME NEW c \in S, PurchaseBefore(a, b), PurchaseBefore(b, c) PROVE PurchaseBefore(a, c)
  <2>1. RLe(b.gap, a.gap) /\ RLe(c.gap, b.gap)
    BY <1>1, <1>3, LtLe, Ordered DEF PurchaseBefore
  <2>2. RLe(c.gap, a.gap)
    BY <1>1, <2>1, LeTransitive
  <2>3. CASE a.gap # c.gap
    <3>1. RLt(c.gap, a.gap)
      BY <1>1, <2>2, <2>3, LeLt
    <3> QED BY <3>1 DEF PurchaseBefore
  <2>4. CASE a.gap = c.gap
    <3>1. a.gap = b.gap /\ b.gap = c.gap
      BY <1>1, <2>1, <2>4, Ordered
    <3>2. ~RLt(b.gap, a.gap) /\ ~RLt(c.gap, b.gap)
      BY <1>1, <3>1, LtLe
    <3>3. NameBefore(a.layer, b.layer) /\ NameBefore(b.layer, c.layer)
      BY <1>3, <3>2 DEF PurchaseBefore
    <3>4. NameBefore(a.layer, c.layer)
      BY <1>1, <3>3, NamesOrdered
    <3> QED BY <2>4, <3>4 DEF PurchaseBefore
  <2> QED BY <2>3, <2>4
<1> QED BY <1>2, <1>3

LEMMA LastPurchase ==
    ASSUME NEW S, Buyable(S), S # {} PROVE \E m \in S : \A a \in S \ {m} : PurchaseBefore(a, m)
<1> DEFINE G == {A \in SUBSET S : A = {} \/ \E m \in A : \A a \in A \ {m} : PurchaseBefore(a, m)}
<1>1. {} \in G
  OBVIOUS
<1>2. ASSUME NEW A \in SUBSET S, NEW x \in S \ A, A \in G PROVE A \cup {x} \in G
  <2>1. CASE A = {}
    BY <2>1
  <2>2. CASE A # {}
    <3>1. PICK m \in A : \A a \in A \ {m} : PurchaseBefore(a, m)
      BY <1>2, <2>2
    <3>2. m \in S /\ x \in S /\ m # x
      OBVIOUS
    <3>3. CASE PurchaseBefore(x, m)
      <4>1. \A a \in (A \cup {x}) \ {m} : PurchaseBefore(a, m)
        BY <3>1, <3>3
      <4> QED BY <4>1
    <3>4. CASE PurchaseBefore(m, x)
      <4>1. \A a \in (A \cup {x}) \ {x} : PurchaseBefore(a, x)
        BY <3>1, <3>2, <3>4, PurchasesOrdered
      <4> QED BY <4>1
    <3> QED BY <3>2, <3>3, <3>4, PurchasesOrdered
  <2> QED BY <2>1, <2>2
<1>3. IsFiniteSet(S)
  BY DEF Buyable
<1>4. S \in G
  <2> HIDE DEF G
  <2> QED BY <1>1, <1>2, <1>3, FiniteInduct
<1> QED BY <1>4

(* truncateToMaxActions keeps at most that many.                           *)
LEMMA KeptAreFew ==
    ASSUME NEW S, Buyable(S), NEW n \in Nat
    PROVE  IsFiniteSet(KeptPurchases(S, n)) /\ Cardinality(KeptPurchases(S, n)) \in 0..n
<1>1. PICK K : K = KeptPurchases(S, n)
  OBVIOUS
<1>2. K \subseteq S /\ \A a \in K : Cardinality({b \in S : PurchaseBefore(b, a)}) < n
  BY <1>1 DEF KeptPurchases
<1>3. IsFiniteSet(K) /\ Cardinality(K) \in Nat
  BY <1>2, FS_Subset, FS_CardinalityType DEF Buyable
<1>4. ASSUME Cardinality(K) > n PROVE FALSE
  <2>1. K # {}
    BY <1>4, FS_EmptySet
  <2>2. Buyable(K)
    BY <1>2, <1>3 DEF Buyable, OneEach
  <2>3. PICK m \in K : \A a \in K \ {m} : PurchaseBefore(a, m)
    BY <2>1, <2>2, LastPurchase
  <2>4. PICK B : B = {b \in S : PurchaseBefore(b, m)}
    OBVIOUS
  <2>5. IsFiniteSet(B) /\ Cardinality(B) < n
    <3>1. IsFiniteSet(S) /\ B \subseteq S
      BY <2>4 DEF Buyable
    <3> QED BY <1>2, <2>4, <3>1, FS_Subset
  <2>6. K \ {m} \subseteq B
    BY <1>2, <2>3, <2>4
  <2>7. Cardinality(K \ {m}) <= Cardinality(B)
    BY <2>5, <2>6, FS_Subset
  <2>8. Cardinality(K \ {m}) = Cardinality(K) - 1
    BY <1>3, FS_RemoveElement
  <2> QED BY <1>3, <1>4, <2>5, <2>7, <2>8, FS_CardinalityType
<1> QED BY <1>1, <1>3, <1>4

-----------------------------------------------------------------------------
(* The gap is an exact amount.                                             *)

AwsLayers == {"ec2-instance-sp", "compute-sp", "convertible-ri"}

(* What a run passes to Allocate.                                          *)
IsInput(in) ==
    /\ in.layers = SupportedLayers
    /\ in.baseline.lowWater \in Rats /\ (in.baseline.stable # Nil => in.baseline.stable \in Rats)
    /\ in.config.targetCoveragePct \in Int /\ in.config.maxActionsPerRun \in Int
    /\ in.config.bufferFraction \in Rats
    /\ in.config.maxHourlyCommitPerRun # Nil => in.config.maxHourlyCommitPerRun \in Rats
    /\ \A l \in AwsLayers : in.states[l].existing \in Rats /\ in.states[l].expiring \in Rats
    /\ DOMAIN in.rates \subseteq RateLayers /\ \A l \in DOMAIN in.rates : in.rates[l] \in Rats
    /\ IsFiniteSet(in.inFlight) /\ \A t \in in.inFlight : t.amount \in Rats /\ t.rate \in Rats
IsAccepted(in) ==
    ValidInput(in) /\ ConsistentStates(in) /\ ValidRates(in.rates) /\ ValidInFlight(in)

LEMMA LayersAre ==
    /\ Types(SupportedLayers) = AwsLayers /\ AwsLayers \subseteq LayerType /\ IsFiniteSet(AwsLayers)
    /\ LayerForRole(SupportedLayers, "base") = "ec2-instance-sp"
    /\ LayerForRole(SupportedLayers, "flex") = "compute-sp"
    /\ LayerForRole(SupportedLayers, "buffer") = "convertible-ri"
    /\ WithRole(SupportedLayers, "buffer") = {3}
<1>1. /\ DOMAIN SupportedLayers = {1, 2, 3}
      /\ SupportedLayers[1] = [type |-> "ec2-instance-sp", roles |-> {"base"}]
      /\ SupportedLayers[2] = [type |-> "compute-sp", roles |-> {"flex"}]
      /\ SupportedLayers[3] = [type |-> "convertible-ri", roles |-> {"buffer"}]
  BY DEF SupportedLayers
<1>2. Types(SupportedLayers) = AwsLayers
  BY <1>1 DEF Types, AwsLayers
<1>3. AwsLayers \subseteq LayerType
  <2>1. LayerNames[5] = "ec2-instance-sp" /\ LayerNames[3] = "compute-sp" /\ LayerNames[4] = "convertible-ri"
    BY DEF LayerNames
  <2>2. {1, 2, 3, 4, 5} = DOMAIN LayerNames
    BY LayerNamesAre
  <2> QED BY <2>1, <2>2 DEF LayerType, AwsLayers
<1>4. IsFiniteSet(AwsLayers)
  <2>1. AwsLayers = (({} \cup {"ec2-instance-sp"}) \cup {"compute-sp"}) \cup {"convertible-ri"}
    BY DEF AwsLayers
  <2> QED BY <2>1, FS_EmptySet, FS_AddElement
<1>5. /\ WithRole(SupportedLayers, "base") = {1} /\ WithRole(SupportedLayers, "flex") = {2}
      /\ WithRole(SupportedLayers, "buffer") = {3}
  BY <1>1 DEF WithRole
<1>6. ASSUME NEW n \in Nat PROVE Min({n}) = n
  BY DEF Min
<1>7. Min({1}) = 1 /\ Min({2}) = 2 /\ Min({3}) = 3
  BY <1>6
<1>8. {1} # {} /\ {2} # {} /\ {3} # {}
  OBVIOUS
<1> QED BY <1>1, <1>2, <1>3, <1>4, <1>5, <1>7, <1>8 DEF LayerForRole

LEMMA RatesAre == ASSUME NEW r \in Rats, ValidRate(r) PROVE RLt(Zero, r) /\ RLe(Zero, r)
BY ZeroIs, LtLe DEF ValidRate

(* A sum over the members of a finite set.                                 *)
LEMMA SumIsPart == ASSUME NEW S, NEW f, f = [x \in S |-> f[x]] PROVE RSum(f) = PartOf(f, S)
BY DEF PartOf

LEMMA SumIsRat ==
    ASSUME NEW S, IsFiniteSet(S), NEW f, f = [x \in S |-> f[x]], \A x \in S : f[x] \in Rats PROVE RSum(f) \in Rats
<1>1. Amounts(f, S)
  BY DEF Amounts
<1>2. PartOf(f, S) \in Rats
  BY <1>1, PartTakes
<1> QED BY <1>2, SumIsPart

LEMMA InFlightIs ==
    ASSUME NEW in, IsInput(in), IsAccepted(in), NEW l \in AwsLayers PROVE InFlightOD(in, l) \in Rats
<1>1. PICK S : S = {t \in in.inFlight : t.layer = l}
  OBVIOUS
<1>2. IsFiniteSet(S)
  BY <1>1, FS_Subset DEF IsInput
<1> DEFINE f == [t \in S |-> TrancheOD(t)]
<1>3. ASSUME NEW t \in S PROVE TrancheOD(t) \in Rats
  <2>1. t.amount \in Rats /\ t.rate \in Rats /\ ValidRate(t.rate)
    BY <1>1 DEF IsInput, IsAccepted, ValidInFlight
  <2>2. RLt(Zero, t.rate)
    BY <2>1, RatesAre
  <2>3. PICK a, r : a = t.amount /\ r = t.rate
    OBVIOUS
  <2>4. RQuo(a, r) \in Rats
    BY <2>1, <2>2, <2>3, QuoMultiplies
  <2> QED BY <2>3, <2>4 DEF TrancheOD
<1>4. \A t \in S : f[t] \in Rats
  BY <1>3
<1>5. f = [t \in S |-> f[t]]
  OBVIOUS
<1>6. InFlightOD(in, l) = RSum(f)
  BY <1>1 DEF InFlightOD, SumOD
<1> HIDE DEF f
<1> QED BY <1>2, <1>4, <1>5, <1>6, SumIsRat

LEMMA ExistingIs ==
    ASSUME NEW in, IsInput(in)
    PROVE  /\ ExistingForBasis(in) = [l \in AwsLayers |-> ExistingForBasis(in)[l]]
           /\ \A l \in AwsLayers : ExistingForBasis(in)[l] \in Rats
<1>1. Types(in.layers) = AwsLayers
  BY LayersAre DEF IsInput
<1>2. CASE IsResidual(in.baseline)
  <2>1. ExistingForBasis(in) = [l \in AwsLayers |-> Zero]
    BY <1>1, <1>2 DEF ExistingForBasis
  <2> QED BY <2>1, ZeroIs
<1>3. CASE ~IsResidual(in.baseline)
  <2>1. ExistingForBasis(in) = [l \in AwsLayers |-> NetOf(in.states[l])]
    BY <1>1, <1>3 DEF ExistingForBasis, NetExisting
  <2>2. ASSUME NEW l \in AwsLayers PROVE NetOf(in.states[l]) \in Rats
    <3>1. PICK a, b : a = in.states[l].existing /\ b = in.states[l].expiring
      OBVIOUS
    <3>2. RSub(a, b) \in Rats
      BY <3>1, Closed DEF IsInput
    <3> QED BY <3>1, <3>2 DEF NetOf
  <2> QED BY <2>1, <2>2
<1> QED BY <1>2, <1>3

LEMMA GapIs == ASSUME NEW in, IsInput(in), IsAccepted(in) PROVE Gap(in) \in Rats
<1>1. Types(in.layers) = AwsLayers
  BY LayersAre DEF IsInput
<1>2. PICK e : e = RSum(ExistingForBasis(in))
  OBVIOUS
<1>3. e \in Rats
  <2>1. PICK f : f = ExistingForBasis(in)
    OBVIOUS
  <2>2. f = [l \in AwsLayers |-> f[l]] /\ \A l \in AwsLayers : f[l] \in Rats
    BY <2>1, ExistingIs
  <2> QED BY <1>2, <2>1, <2>2, LayersAre, SumIsRat
<1>4. PICK i : i = RSum([l \in Types(in.layers) |-> InFlightOD(in, l)])
  OBVIOUS
<1>5. i \in Rats
  <2> DEFINE f == [l \in AwsLayers |-> InFlightOD(in, l)]
  <2>1. \A l \in AwsLayers : f[l] \in Rats
    BY InFlightIs
  <2>2. f = [l \in AwsLayers |-> f[l]] /\ i = RSum(f)
    BY <1>1, <1>4
  <2> HIDE DEF f
  <2> QED BY <2>1, <2>2, LayersAre, SumIsRat
<1>6. PICK t : t = Target(in)
  OBVIOUS
<1>7. t \in Rats
  <2>1. PICK w, p : w = in.baseline.lowWater /\ p = Rat(in.config.targetCoveragePct, 100)
    OBVIOUS
  <2>2. w \in Rats /\ p \in Rats
    BY <2>1, IsRats DEF IsInput
  <2>3. RMul(w, p) \in Rats
    BY <2>2, Closed
  <2> QED BY <1>6, <2>1, <2>3 DEF Target
<1>8. PICK w : w = in.baseline.lowWater
  OBVIOUS
<1>9. w \in Rats
  BY <1>8 DEF IsInput
<1>10. PICK m : m = RMin(RSub(t, e), RSub(w, e))
  OBVIOUS
<1>11. m \in Rats
  <2>1. PICK x, y : x = RSub(t, e) /\ y = RSub(w, e)
    OBVIOUS
  <2>2. x \in Rats /\ y \in Rats
    BY <1>3, <1>7, <1>9, <2>1, Closed
  <2> QED BY <1>10, <2>1, <2>2, Closed
<1>12. RSub(m, i) \in Rats
  BY <1>5, <1>11, Closed
<1>13. Gap(in) = RSub(m, i)
  BY <1>2, <1>4, <1>6, <1>8, <1>10 DEF Gap
<1> QED BY <1>12, <1>13

-----------------------------------------------------------------------------
(* The shares of the layers add up to the gap.                             *)

LEMMA BaseGapIs ==
    ASSUME NEW in, IsInput(in), IsAccepted(in), NEW core \in Rats, RLe(Zero, core)
    PROVE  BaseGap(in, core) \in Rats /\ RLe(Zero, BaseGap(in, core)) /\ RLe(BaseGap(in, core), core)
<1>1. LayerForRole(in.layers, "base") = "ec2-instance-sp" /\ "ec2-instance-sp" \in AwsLayers
  BY LayersAre DEF IsInput, AwsLayers
<1>2. CASE LayerForRole(in.layers, "base") = Nil \/ in.baseline.stable = Nil
  <2>1. BaseGap(in, core) = Zero
    BY <1>2 DEF BaseGap
  <2> QED BY <2>1, ZeroIs, Ordered
<1>3. CASE ~(LayerForRole(in.layers, "base") = Nil \/ in.baseline.stable = Nil)
  <2>1. PICK x, y, s : /\ x = ExistingForBasis(in)["ec2-instance-sp"] /\ y = InFlightOD(in, "ec2-instance-sp")
                       /\ s = in.baseline.stable
    OBVIOUS
  <2>2. x \in Rats /\ y \in Rats /\ s \in Rats
    BY <1>1, <1>3, <2>1, ExistingIs, InFlightIs DEF IsInput
  <2>3. PICK r : r = RSub(s, RAdd(x, y))
    OBVIOUS
  <2>4. r \in Rats
    <3>1. RAdd(x, y) \in Rats
      BY <2>2, Closed
    <3> QED BY <2>2, <2>3, <3>1, Closed
  <2>5. PICK z : z = RMax(Zero, r)
    OBVIOUS
  <2>6. z \in Rats /\ RLe(Zero, z)
    BY <2>4, <2>5, ZeroIs, MinMax
  <2>7. BaseGap(in, core) = RMin(core, z)
    BY <1>1, <1>3, <2>1, <2>3, <2>5 DEF BaseGap
  <2>8. RMin(core, z) \in {core, z} /\ RLe(RMin(core, z), core)
    BY <2>6, MinMax
  <2> QED BY <2>6, <2>7, <2>8
<1> QED BY <1>2, <1>3

(* Amounts on layers, with their sum.                                      *)
Layered(S) ==
    /\ IsFiniteSet(S) /\ OneEach(S)
    /\ \A a \in S : a.layer \in AwsLayers /\ a.od \in Rats
Pairs(S) == {<<a.layer, a.od>> : a \in S}
SumOfPairs(P) == PartOf([p \in P |-> p[2]], P)

LEMMA OdSum ==
    ASSUME NEW S, Layered(S) PROVE RSum([a \in S |-> a.od]) = SumOfPairs(Pairs(S)) /\ IsFiniteSet(Pairs(S))
<1> DEFINE f == [a \in S |-> a.od]
           to == [a \in S |-> <<a.layer, a.od>>]
           P  == Pairs(S)
           g  == [p \in P |-> p[2]]
<1>1. Amounts(f, S)
  BY DEF Amounts, Layered
<1>2. \A x, y \in S : to[x] = to[y] => x = y
  BY DEF Layered, OneEach
<1>3. P = {to[a] : a \in S}
  BY DEF Pairs
<1>4. \A a \in S : g[to[a]] = f[a]
  BY <1>3
<1>5. f = [a \in S |-> f[a]]
  OBVIOUS
<1>6. IsFiniteSet(P)
  <2> HIDE DEF to, P
  <2> QED BY <1>1, <1>3, ImageFinite DEF Amounts
<1>7. PartOf(g, P) = PartOf(f, S)
  <2> HIDE DEF f, to, P, g
  <2> QED BY <1>1, <1>2, <1>3, <1>4, PartRenamed
<1>8. RSum(f) = PartOf(f, S)
  <2> HIDE DEF f
  <2> QED BY <1>5, SumIsPart
<1> QED BY <1>6, <1>7, <1>8 DEF SumOfPairs

(* What each layer gets: base and flex share the core, the buffer its own. *)
ShareOf(in, gap) ==
    LET buffer == BufferGap(in, gap)
        core   == RSub(gap, buffer)
        base   == BaseGap(in, core)
    IN  [l \in AwsLayers |->
            IF l = "ec2-instance-sp" THEN base ELSE IF l = "convertible-ri" THEN buffer ELSE RSub(core, base)]

LEMMA CoreIs ==
    ASSUME NEW in, IsInput(in), IsAccepted(in), NEW gap \in Rats, RLe(Zero, gap)
    PROVE  /\ BufferGap(in, gap) \in Rats /\ RLe(Zero, BufferGap(in, gap))
           /\ RSub(gap, BufferGap(in, gap)) \in Rats /\ RLe(Zero, RSub(gap, BufferGap(in, gap)))
           /\ RAdd(RSub(gap, BufferGap(in, gap)), BufferGap(in, gap)) = gap
<1>1. PICK f : f = in.config.bufferFraction
  OBVIOUS
<1>2. f \in Rats /\ RLe(Zero, f) /\ RLt(f, One)
  BY <1>1 DEF IsInput, IsAccepted, ValidInput, ValidConfig, ValidBaselineBounds
<1>3. PICK b : b = BufferGap(in, gap)
  OBVIOUS
<1>4. b = RMul(gap, f)
  BY <1>1, <1>3 DEF BufferGap
<1>5. b \in Rats /\ RLe(Zero, b)
  BY <1>2, <1>4, Closed, MulNotNegative
<1>6. RLe(b, gap)
  <2>1. RLe(f, One)
    BY <1>2, OneIs, LtLe
  <2>2. RLe(RMul(f, gap), RMul(One, gap))
    BY <1>2, <2>1, OneIs, MulMonotone
  <2>3. RMul(f, gap) = b
    BY <1>2, <1>4, MulCommutes
  <2>4. RMul(One, gap) = gap
    <3>1. PICK n \in Int, d \in Nat \ {0} : gap = Rat(n, d)
      BY Fraction
    <3>2. RMul(Rat(1, 1), Rat(n, d)) = Rat(1 * n, 1 * d)
      BY MulIs
    <3>3. One = Rat(1, 1)
      BY IntRat DEF One
    <3>4. 1 * n = n /\ 1 * d = d
      OBVIOUS
    <3> QED BY <3>1, <3>2, <3>3, <3>4
  <2> QED BY <2>2, <2>3, <2>4
<1>7. RSub(gap, b) \in Rats /\ RLe(Zero, RSub(gap, b)) /\ RAdd(RSub(gap, b), b) = gap
  BY <1>5, <1>6, Closed, SubIsZero, SubAdds
<1> QED BY <1>3, <1>5, <1>7

LEMMA ShareOfIs ==
    ASSUME NEW in, IsInput(in), IsAccepted(in), NEW gap \in Rats, RLe(Zero, gap)
    PROVE  /\ \A l \in AwsLayers : ShareOf(in, gap)[l] \in Rats /\ RLe(Zero, ShareOf(in, gap)[l])
           /\ PartOf(ShareOf(in, gap), AwsLayers) = gap
           /\ Shares(in, gap) = {[layer |-> l, od |-> ShareOf(in, gap)[l]] :
                                    l \in {k \in AwsLayers : RLt(Zero, ShareOf(in, gap)[k])}}
<1>1. PICK b, c, e : b = BufferGap(in, gap) /\ c = RSub(gap, b) /\ e = BaseGap(in, c)
  OBVIOUS
<1>2. b \in Rats /\ RLe(Zero, b) /\ c \in Rats /\ RLe(Zero, c) /\ RAdd(c, b) = gap
  BY <1>1, CoreIs
<1>3. e \in Rats /\ RLe(Zero, e) /\ RLe(e, c)
  BY <1>1, <1>2, BaseGapIs
<1>4. PICK r : r = RSub(c, e)
  OBVIOUS
<1>5. r \in Rats /\ RLe(Zero, r) /\ RAdd(r, e) = c
  BY <1>2, <1>3, <1>4, Closed, SubIsZero, SubAdds
<1>6. PICK f : f = ShareOf(in, gap)
  OBVIOUS
<1>7. f = [l \in AwsLayers |-> IF l = "ec2-instance-sp" THEN e ELSE IF l = "convertible-ri" THEN b ELSE r]
  BY <1>1, <1>4, <1>6 DEF ShareOf
<1>8. f["ec2-instance-sp"] = e /\ f["convertible-ri"] = b /\ f["compute-sp"] = r
  BY <1>7 DEF AwsLayers
<1>9. \A l \in AwsLayers : f[l] \in Rats /\ RLe(Zero, f[l])
  BY <1>2, <1>3, <1>5, <1>7
<1>10. PartOf(f, AwsLayers) = gap
  <2>1. Amounts(f, AwsLayers)
    BY <1>9, LayersAre DEF Amounts
  <2>2. PICK A, B : A = {} \cup {"convertible-ri"} /\ B = A \cup {"ec2-instance-sp"}
    OBVIOUS
  <2>3. PartOf(f, {}) = Zero
    BY <2>1, PartTakes
  <2>4. PartOf(f, A) = RAdd(b, Zero)
    <3>1. {} \in SUBSET AwsLayers /\ "convertible-ri" \in AwsLayers \ {}
      BY DEF AwsLayers
    <3>2. PartOf(f, {} \cup {"convertible-ri"}) = RAdd(f["convertible-ri"], PartOf(f, {}))
      BY <2>1, <3>1, PartGrows
    <3> QED BY <1>8, <2>2, <2>3, <3>2
  <2>5. PartOf(f, A) = b
    BY <1>2, <2>4, AddZero
  <2>6. PartOf(f, B) = RAdd(e, b)
    <3>1. A \in SUBSET AwsLayers /\ "ec2-instance-sp" \in AwsLayers \ A
      BY <2>2 DEF AwsLayers
    <3>2. PartOf(f, A \cup {"ec2-instance-sp"}) = RAdd(f["ec2-instance-sp"], PartOf(f, A))
      BY <2>1, <3>1, PartGrows
    <3> QED BY <1>8, <2>2, <2>5, <3>2
  <2>7. PartOf(f, AwsLayers) = RAdd(r, RAdd(e, b))
    <3>1. B \in SUBSET AwsLayers /\ "compute-sp" \in AwsLayers \ B /\ B \cup {"compute-sp"} = AwsLayers
      BY <2>2 DEF AwsLayers
    <3>2. PartOf(f, B \cup {"compute-sp"}) = RAdd(f["compute-sp"], PartOf(f, B))
      BY <2>1, <3>1, PartGrows
    <3> QED BY <1>8, <2>6, <3>1, <3>2
  <2>8. RAdd(RAdd(r, e), b) = RAdd(r, RAdd(e, b))
    BY <1>2, <1>3, <1>5, AddAssociates
  <2> QED BY <1>2, <1>5, <2>7, <2>8
<1>11. Shares(in, gap) = {[layer |-> l, od |-> f[l]] : l \in {k \in AwsLayers : RLt(Zero, f[k])}}
  <2>1. /\ Types(in.layers) = AwsLayers /\ LayerForRole(in.layers, "base") = "ec2-instance-sp"
        /\ LayerForRole(in.layers, "flex") = "compute-sp" /\ LayerForRole(in.layers, "buffer") = "convertible-ri"
    BY LayersAre DEF IsInput
  <2> DEFINE share(l) ==
         RAdd(IF l = "ec2-instance-sp" THEN e ELSE Zero,
              RAdd(IF l = "convertible-ri" THEN b ELSE Zero, IF l = "compute-sp" THEN r ELSE Zero))
  <2>2. Shares(in, gap) = {[layer |-> l, od |-> share(l)] : l \in {k \in AwsLayers : RLt(Zero, share(k))}}
    BY <1>1, <1>4, <2>1 DEF Shares
  <2>3. RAdd(Zero, Zero) = Zero
    BY ZeroIs, AddZero
  <2>4. RAdd(b, Zero) = b /\ RAdd(Zero, b) = b /\ RAdd(Zero, r) = r /\ RAdd(e, Zero) = e
    BY <1>2, <1>3, <1>5, AddZero
  <2>5. ASSUME NEW l \in AwsLayers PROVE share(l) = f[l]
    <3>1. CASE l = "ec2-instance-sp"
      <4>1. share(l) = RAdd(e, RAdd(Zero, Zero))
        BY <3>1
      <4> HIDE DEF share
      <4> QED BY <1>8, <2>3, <2>4, <3>1, <4>1
    <3>2. CASE l = "convertible-ri"
      <4>1. share(l) = RAdd(Zero, RAdd(b, Zero))
        BY <3>2
      <4> HIDE DEF share
      <4> QED BY <1>8, <2>3, <2>4, <3>2, <4>1
    <3>3. CASE l = "compute-sp"
      <4>1. share(l) = RAdd(Zero, RAdd(Zero, r))
        BY <3>3
      <4> HIDE DEF share
      <4> QED BY <1>8, <2>3, <2>4, <3>3, <4>1
    <3> QED BY <3>1, <3>2, <3>3 DEF AwsLayers
  <2> HIDE DEF share
  <2> QED BY <2>2, <2>5
<1> QED BY <1>6, <1>9, <1>10, <1>11

LEMMA SharesAre ==
    ASSUME NEW in, IsInput(in), IsAccepted(in), NEW gap \in Rats, RLe(Zero, gap), NEW S, S = Shares(in, gap)
    PROVE  /\ Layered(S) /\ \A s \in S : RLt(Zero, s.od) /\ s = [layer |-> s.layer, od |-> s.od]
           /\ SumOfPairs(Pairs(S)) = gap
<1>1. PICK f : f = ShareOf(in, gap)
  OBVIOUS
<1>2. \A l \in AwsLayers : f[l] \in Rats /\ RLe(Zero, f[l])
  BY <1>1, ShareOfIs
<1>3. PICK L : L = {k \in AwsLayers : RLt(Zero, f[k])}
  OBVIOUS
<1>4. S = {[layer |-> l, od |-> f[l]] : l \in L}
  BY <1>1, <1>3, ShareOfIs
<1>5. IsFiniteSet(L) /\ L \subseteq AwsLayers
  BY <1>3, LayersAre, FS_Subset
<1> DEFINE to == [l \in L |-> [layer |-> l, od |-> f[l]]]
           g  == [s \in S |-> s.od]
<1>6. S = {to[l] : l \in L}
  BY <1>4
<1>7. IsFiniteSet(S)
  <2> HIDE DEF to
  <2> QED BY <1>5, <1>6, ImageFinite
<1>8. Layered(S) /\ \A s \in S : RLt(Zero, s.od) /\ s = [layer |-> s.layer, od |-> s.od]
  BY <1>2, <1>3, <1>4, <1>7 DEF Layered, OneEach
<1>9. PartOf(g, S) = PartOf(f, L)
  <2>1. Amounts(f, L)
    BY <1>2, <1>5 DEF Amounts
  <2>2. \A x, y \in L : to[x] = to[y] => x = y
    OBVIOUS
  <2>3. \A l \in L : g[to[l]] = f[l]
    BY <1>6
  <2> HIDE DEF to, g
  <2> QED BY <1>6, <2>1, <2>2, <2>3, PartRenamed
<1>10. PartOf(f, L) = gap
  <2>1. Amounts(f, AwsLayers)
    BY <1>2, LayersAre DEF Amounts
  <2>2. \A l \in AwsLayers \ L : f[l] = Zero
    BY <1>2, <1>3, ZeroIs, LeLt
  <2>3. PartOf(f, AwsLayers) = gap
    BY <1>1, ShareOfIs
  <2> QED BY <1>5, <2>1, <2>2, <2>3, PartDropsZero
<1>11. RSum(g) = PartOf(g, S)
  <2>1. g = [s \in S |-> g[s]]
    OBVIOUS
  <2> HIDE DEF g
  <2> QED BY <2>1, SumIsPart
<1>12. RSum(g) = SumOfPairs(Pairs(S))
  BY <1>8, OdSum
<1> QED BY <1>8, <1>9, <1>10, <1>11, <1>12

-----------------------------------------------------------------------------
(* What is bought: shares at the layers' rates, within the cap.            *)

Priced(S) ==
    /\ Layered(S)
    /\ \A a \in S : /\ a.gap \in Rats /\ RLe(Zero, a.gap) /\ a.rate \in Rats /\ ValidRate(a.rate)
                    /\ a.layer \in RateLayers
                    /\ a = [layer |-> a.layer, od |-> a.od, gap |-> a.gap, rate |-> a.rate]

LEMMA PartPriced == ASSUME NEW S, Priced(S), NEW A \in SUBSET S PROVE Priced(A)
BY FS_Subset DEF Priced, Layered, OneEach

LEMMA ConvertedIs ==
    ASSUME NEW in, IsInput(in), IsAccepted(in), NEW S, Layered(S),
           \A s \in S : RLt(Zero, s.od) /\ s.layer \in DOMAIN in.rates
    PROVE  /\ Priced(Converted(in, S)) /\ Pairs(Converted(in, S)) = Pairs(S)
           /\ \A a \in Converted(in, S) : RLt(Zero, a.od)
<1> DEFINE to == [s \in S |-> [layer |-> s.layer, od |-> s.od, gap |-> RMul(s.od, in.rates[s.layer]),
                               rate |-> in.rates[s.layer]]]
<1>1. PICK C : C = Converted(in, S)
  OBVIOUS
<1>2. C = {to[s] : s \in S}
  BY <1>1 DEF Converted
<1>3. IsFiniteSet(C)
  <2> HIDE DEF to
  <2> QED BY <1>2, ImageFinite DEF Layered
<1>4. ASSUME NEW s \in S PROVE in.rates[s.layer] \in Rats /\ ValidRate(in.rates[s.layer]) /\ s.layer \in RateLayers
  BY DEF IsInput, IsAccepted, ValidRates
<1>5. ASSUME NEW s \in S PROVE RMul(s.od, in.rates[s.layer]) \in Rats /\ RLe(Zero, RMul(s.od, in.rates[s.layer]))
  <2>1. PICK o, r : o = s.od /\ r = in.rates[s.layer]
    OBVIOUS
  <2>2. o \in Rats /\ r \in Rats /\ RLe(Zero, r) /\ RLt(Zero, o)
    BY <1>4, <2>1, RatesAre DEF Layered
  <2>3. RLe(Zero, o)
    BY <2>2, ZeroIs, LtLe
  <2>4. RMul(o, r) \in Rats /\ RLe(Zero, RMul(o, r))
    BY <2>2, <2>3, Closed, MulNotNegative
  <2> QED BY <2>1, <2>4
<1>6. \A a \in C : \E s \in S : a = [layer |-> s.layer, od |-> s.od, gap |-> RMul(s.od, in.rates[s.layer]),
                               rate |-> in.rates[s.layer]]
  BY <1>2
<1>7. OneEach(C)
  BY <1>6 DEF Layered, OneEach
<1>8. \A a \in C : a.layer \in AwsLayers /\ a.od \in Rats /\ RLt(Zero, a.od)
  BY <1>6 DEF Layered
<1>9. ASSUME NEW a \in C
      PROVE  /\ a.gap \in Rats /\ RLe(Zero, a.gap) /\ a.rate \in Rats /\ ValidRate(a.rate)
             /\ a.layer \in RateLayers
             /\ a = [layer |-> a.layer, od |-> a.od, gap |-> a.gap, rate |-> a.rate]
  BY <1>4, <1>5, <1>6
<1>10. Pairs(C) = Pairs(S)
  <2>1. ASSUME NEW s \in S PROVE \E a \in C : a.layer = s.layer /\ a.od = s.od
    <3>1. to[s] \in C /\ to[s].layer = s.layer /\ to[s].od = s.od
      BY <1>2
    <3> QED BY <3>1
  <2>2. \A a \in C : \E s \in S : a.layer = s.layer /\ a.od = s.od
    BY <1>6
  <2> QED BY <2>1, <2>2 DEF Pairs
<1> QED BY <1>1, <1>3, <1>7, <1>8, <1>9, <1>10 DEF Priced, Layered

LEMMA TotalIs ==
    ASSUME NEW S, Priced(S)
    PROVE  /\ TotalGap(S) \in Rats /\ Amounts([a \in S |-> a.gap], S) /\ TotalGap(S) = PartOf([a \in S |-> a.gap], S)
           /\ S = {} => TotalGap(S) = Zero
           /\ \A A \in SUBSET S : RLe(TotalGap(A), TotalGap(S))
<1> DEFINE f == [a \in S |-> a.gap]
<1>1. Amounts(f, S)
  BY DEF Amounts, Priced, Layered
<1>2. TotalGap(S) = PartOf(f, S)
  <2>1. f = [a \in S |-> f[a]] /\ TotalGap(S) = RSum(f)
    BY DEF TotalGap
  <2> HIDE DEF f
  <2> QED BY <2>1, SumIsPart
<1>3. PartOf(f, S) \in Rats /\ (S = {} => PartOf(f, S) = Zero)
  <2> HIDE DEF f
  <2> QED BY <1>1, PartTakes
<1>4. ASSUME NEW A \in SUBSET S PROVE RLe(TotalGap(A), TotalGap(S))
  <2>1. TotalGap(A) = PartOf(f, A)
    <3>1. [a \in A |-> a.gap] = [a \in A |-> f[a]]
      OBVIOUS
    <3> QED BY <3>1 DEF TotalGap, PartOf
  <2>2. \A a \in S : RLe(Zero, f[a])
    BY DEF Priced
  <2> HIDE DEF f
  <2> QED BY <1>1, <1>2, <2>1, <2>2, PartLess
<1> QED BY <1>1, <1>2, <1>3, <1>4

LEMMA EntryScales ==
    ASSUME NEW a, NEW k, a = [layer |-> a.layer, od |-> a.od, gap |-> a.gap, rate |-> a.rate]
    PROVE  [a EXCEPT !.gap = RMul(@, k), !.od = RMul(@, k)]
             = [layer |-> a.layer, od |-> RMul(a.od, k), gap |-> RMul(a.gap, k), rate |-> a.rate]
<1>1. PICK l, o, g, r : l = a.layer /\ o = a.od /\ g = a.gap /\ r = a.rate
  OBVIOUS
<1>2. a = [layer |-> l, od |-> o, gap |-> g, rate |-> r]
  BY <1>1
<1>3. PICK x, y : x = RMul(o, k) /\ y = RMul(g, k)
  OBVIOUS
<1>4. [a EXCEPT !.gap = RMul(a.gap, k), !.od = RMul(a.od, k)] = [a EXCEPT !.gap = y, !.od = x]
  BY <1>1, <1>3
<1>5. [a EXCEPT !.gap = y, !.od = x] = [layer |-> l, od |-> x, gap |-> y, rate |-> r]
  <2>1. PICK b : b = [a EXCEPT !.gap = y]
    OBVIOUS
  <2>2. b = [layer |-> l, od |-> o, gap |-> y, rate |-> r]
    BY <1>2, <2>1
  <2>3. [b EXCEPT !.od = x] = [layer |-> l, od |-> x, gap |-> y, rate |-> r]
    BY <2>2
  <2>4. [a EXCEPT !.gap = y, !.od = x] = [b EXCEPT !.od = x]
    BY <2>1
  <2> QED BY <2>3, <2>4
<1> QED BY <1>1, <1>3, <1>4, <1>5

LEMMA CappedIs ==
    ASSUME NEW in, IsInput(in), IsAccepted(in), NEW C, Priced(C)
    PROVE  /\ Priced(Capped(in, C))
           /\ in.config.maxHourlyCommitPerRun = Nil => Capped(in, C) = C
           /\ in.config.maxHourlyCommitPerRun # Nil =>
                RLe(TotalGap(Capped(in, C)), in.config.maxHourlyCommitPerRun)
<1>1. PICK cap, total : cap = in.config.maxHourlyCommitPerRun /\ total = TotalGap(C)
  OBVIOUS
<1>2. total \in Rats
  BY <1>1, TotalIs
<1>3. CASE cap = Nil
  BY <1>1, <1>3 DEF Capped
<1>4. CASE cap # Nil /\ (C = {} \/ RLe(total, cap))
  <2>1. Capped(in, C) = C
    BY <1>1, <1>4 DEF Capped
  <2>2. cap \in Rats /\ RLt(Zero, cap)
    BY <1>1, <1>4 DEF IsInput, IsAccepted, ValidInput, ValidConfig, ValidRunLimits
  <2>3. RLe(total, cap)
    <3>1. CASE C = {}
      <4>1. total = Zero
        BY <1>1, <3>1, TotalIs
      <4> QED BY <2>2, <4>1, ZeroIs, LtLe
    <3> QED BY <1>4, <3>1
  <2> QED BY <1>1, <1>4, <2>1, <2>3
<1>5. CASE cap # Nil /\ ~(C = {} \/ RLe(total, cap))
  <2>1. cap \in Rats /\ RLt(Zero, cap)
    BY <1>1, <1>5 DEF IsInput, IsAccepted, ValidInput, ValidConfig, ValidRunLimits
  <2>2. RLt(cap, total) /\ RLe(Zero, cap)
    BY <1>2, <1>5, <2>1, Ordered, LtLe, ZeroIs
  <2>3. RLt(Zero, total)
    BY <1>2, <2>1, <2>2, ZeroIs, LeLtLt
  <2>4. PICK scale : scale = RQuo(cap, total)
    OBVIOUS
  <2>5. scale \in Rats /\ RLe(Zero, scale) /\ RMul(scale, total) = cap
    BY <1>2, <2>1, <2>2, <2>3, <2>4, QuoNotNegative, QuoMultiplies
  <2> DEFINE to == [a \in C |-> [layer |-> a.layer, od |-> RMul(a.od, scale), gap |-> RMul(a.gap, scale), rate |-> a.rate]]
  <2>6. PICK K : K = Capped(in, C)
    OBVIOUS
  <2>7. K = {[a EXCEPT !.gap = RMul(@, scale), !.od = RMul(@, scale)] : a \in C}
    BY <1>1, <1>5, <2>4, <2>6 DEF Capped
  <2>8. ASSUME NEW a \in C PROVE [a EXCEPT !.gap = RMul(@, scale), !.od = RMul(@, scale)] = to[a]
    <3>1. a = [layer |-> a.layer, od |-> a.od, gap |-> a.gap, rate |-> a.rate]
      BY DEF Priced
    <3>2. [a EXCEPT !.gap = RMul(@, scale), !.od = RMul(@, scale)]
            = [layer |-> a.layer, od |-> RMul(a.od, scale), gap |-> RMul(a.gap, scale), rate |-> a.rate]
      BY <3>1, EntryScales
    <3> QED BY <3>2
  <2>9. K = {to[a] : a \in C}
    <3> HIDE DEF to
    <3> QED BY <2>7, <2>8
  <2>10. \A k \in K : \E a \in C :
           k = [layer |-> a.layer, od |-> RMul(a.od, scale), gap |-> RMul(a.gap, scale), rate |-> a.rate]
    BY <2>9
  <2>11. ASSUME NEW a \in C
         PROVE  RMul(a.od, scale) \in Rats /\ RMul(a.gap, scale) \in Rats /\ RLe(Zero, RMul(a.gap, scale))
    <3>1. PICK o, g : o = a.od /\ g = a.gap
      OBVIOUS
    <3>2. o \in Rats /\ g \in Rats /\ RLe(Zero, g)
      BY <3>1 DEF Priced, Layered
    <3>3. RMul(o, scale) \in Rats /\ RMul(g, scale) \in Rats /\ RLe(Zero, RMul(g, scale))
      BY <2>5, <3>2, Closed, MulNotNegative
    <3> QED BY <3>1, <3>3
  <2>12. IsFiniteSet(K)
    <3> HIDE DEF to
    <3> QED BY <2>9, ImageFinite DEF Priced, Layered
  <2>13. OneEach(K)
    BY <2>10 DEF Priced, Layered, OneEach
  <2>14. \A k \in K : k.layer \in AwsLayers /\ k.od \in Rats
    BY <2>10, <2>11 DEF Priced, Layered
  <2>15. ASSUME NEW k \in K
         PROVE  /\ k.gap \in Rats /\ RLe(Zero, k.gap) /\ k.rate \in Rats /\ ValidRate(k.rate)
                /\ k.layer \in RateLayers
                /\ k = [layer |-> k.layer, od |-> k.od, gap |-> k.gap, rate |-> k.rate]
    BY <2>10, <2>11 DEF Priced
  <2>16. Priced(K)
    BY <2>12, <2>13, <2>14, <2>15 DEF Priced, Layered
  <2>17. TotalGap(K) = cap
    <3> DEFINE f == [a \in C |-> a.gap]
               h == [a \in C |-> RMul(a.gap, scale)]
               g == [k \in K |-> k.gap]
    <3>1. Amounts(f, C) /\ total = PartOf(f, C)
      BY <1>1, TotalIs
    <3>2. \A a \in C : h[a] = RMul(f[a], scale)
      OBVIOUS
    <3>3. PartOf(h, C) = RMul(total, scale)
      <4> HIDE DEF f, h
      <4> QED BY <2>5, <3>1, <3>2, PartScales
    <3>4. Amounts(h, C)
      BY <2>11 DEF Amounts, Priced, Layered
    <3>5. \A a \in C : g[to[a]] = h[a]
      BY <2>9
    <3>6. \A a, e \in C : to[a] = to[e] => a = e
      BY DEF Priced, Layered, OneEach
    <3>7. PartOf(g, K) = PartOf(h, C)
      <4> HIDE DEF g, h, to
      <4> QED BY <2>9, <3>4, <3>5, <3>6, PartRenamed
    <3>8. TotalGap(K) = PartOf(g, K)
      BY <2>16, TotalIs
    <3>9. RMul(total, scale) = cap
      BY <1>2, <2>5, MulCommutes
    <3> HIDE DEF g, h, to
    <3> QED BY <3>3, <3>7, <3>8, <3>9
  <2> QED BY <1>1, <2>1, <2>6, <2>16, <2>17, <1>5, Ordered
<1> QED BY <1>3, <1>4, <1>5

-----------------------------------------------------------------------------
(* buildResult.                                                            *)

LEMMA ReshapesAre ==
    ASSUME NEW in, IsInput(in), IsAccepted(in)
    PROVE  /\ IsFiniteSet(Reshapes(in)) /\ Cardinality(Reshapes(in)) \in 0..1
           /\ in.config.maxActionsPerRun \in Nat \ {0} /\ PurchaseCap(in) \in Nat
           /\ \/ PurchaseCap(in) + Cardinality(Reshapes(in)) <= in.config.maxActionsPerRun
              \/ PurchaseCap(in) = 0 /\ Cardinality(Reshapes(in)) <= in.config.maxActionsPerRun
<1>1. PICK l : l = in.layers[3].type
  OBVIOUS
<1>2. Reshapes(in) \subseteq {l}
  <2>1. WithRole(in.layers, "buffer") = {3}
    BY LayersAre DEF IsInput
  <2> QED BY <1>1, <2>1 DEF Reshapes, BufferLayers
<1>3. IsFiniteSet({l}) /\ Cardinality({l}) = 1
  BY FS_Singleton
<1>4. IsFiniteSet(Reshapes(in)) /\ Cardinality(Reshapes(in)) <= 1
  BY <1>2, <1>3, FS_Subset
<1>5. Cardinality(Reshapes(in)) \in Nat
  BY <1>4, FS_CardinalityType
<1>6. in.config.maxActionsPerRun \in Nat \ {0}
  <2>1. in.config.maxActionsPerRun \in Int /\ in.config.maxActionsPerRun > 0
    BY DEF IsInput, IsAccepted, ValidInput, ValidConfig, ValidRunLimits
  <2> QED BY <2>1
<1>7. PICK n, c : n = in.config.maxActionsPerRun /\ c = Cardinality(Reshapes(in))
  OBVIOUS
<1>8. PurchaseCap(in) = IF c >= n THEN 0 ELSE n - c
  BY <1>7 DEF PurchaseCap
<1>9. n \in Nat \ {0} /\ c \in Nat /\ c <= 1
  BY <1>4, <1>5, <1>6, <1>7
<1>10. PurchaseCap(in) \in Nat /\ (PurchaseCap(in) + c <= n \/ (PurchaseCap(in) = 0 /\ c <= n))
  BY <1>8, <1>9
<1> QED BY <1>4, <1>5, <1>6, <1>7, <1>9, <1>10

(* The stages a share passes through.                                      *)
Pending(in, gap) == ReshapedShares(in, Shares(in, gap))
NoRate(in, gap) == RatelessShares(in, Shares(in, gap) \ Pending(in, gap))
Sized(in, gap) == Converted(in, Shares(in, gap) \ (Pending(in, gap) \cup NoRate(in, gap)))
Large(in, gap) == Capped(in, Sized(in, gap)) \ SubMinimum(Capped(in, Sized(in, gap)))
Taken(in, gap) == KeptPurchases(Large(in, gap), PurchaseCap(in))

LEMMA BuiltFrom ==
    ASSUME NEW in, NEW gap
    PROVE  /\ Built(in, gap).ok = TRUE /\ Built(in, gap).gap = gap
           /\ Built(in, gap).purchases = Taken(in, gap)
           /\ Built(in, gap).reshapes = KeptReshapes(in)
           /\ Built(in, gap).holds = MaintenanceHolds(in)
                \cup Holds(Pending(in, gap), "reshape pending") \cup Holds(NoRate(in, gap), "no rate")
                \cup Holds(SubMinimum(Capped(in, Sized(in, gap))), "below minimum")
                \cup Holds(Large(in, gap) \ Taken(in, gap), "max actions")
                \cup {[layer |-> l, why |-> "max actions", od |-> Zero] : l \in Reshapes(in) \ KeptReshapes(in)}
BY DEF Built, Pending, NoRate, Sized, Large, Taken

LEMMA StagesAre ==
    ASSUME NEW in, IsInput(in), IsAccepted(in), NEW gap \in Rats, RLe(Zero, gap)
    PROVE  /\ Pending(in, gap) \subseteq Shares(in, gap)
           /\ NoRate(in, gap) \subseteq Shares(in, gap) \ Pending(in, gap)
           /\ Priced(Sized(in, gap)) /\ \A a \in Sized(in, gap) : RLt(Zero, a.od)
           /\ Pairs(Sized(in, gap)) = Pairs(Shares(in, gap) \ (Pending(in, gap) \cup NoRate(in, gap)))
           /\ Priced(Large(in, gap)) /\ \A a \in Large(in, gap) : RLt(Zero, a.gap)
           /\ Taken(in, gap) \subseteq Large(in, gap)
<1>1. PICK S, P, N : S = Shares(in, gap) /\ P = Pending(in, gap) /\ N = NoRate(in, gap)
  OBVIOUS
<1>2. P \subseteq S /\ N \subseteq S \ P
  BY <1>1 DEF Pending, NoRate, ReshapedShares, RatelessShares
<1>3. Layered(S) /\ \A s \in S : RLt(Zero, s.od)
  BY <1>1, SharesAre
<1>4. PICK R : R = S \ (P \cup N)
  OBVIOUS
<1>5. Layered(R) /\ \A s \in R : RLt(Zero, s.od)
  BY <1>3, <1>4, FS_Subset DEF Layered, OneEach
<1>6. \A s \in R : s.layer \in DOMAIN in.rates
  BY <1>1, <1>4 DEF NoRate, RatelessShares
<1>7. PICK C : C = Sized(in, gap)
  OBVIOUS
<1>8. C = Converted(in, R)
  BY <1>1, <1>4, <1>7 DEF Sized
<1>9. Priced(C) /\ Pairs(C) = Pairs(R) /\ \A a \in C : RLt(Zero, a.od)
  BY <1>5, <1>6, <1>8, ConvertedIs
<1>10. PICK K : K = Capped(in, C)
  OBVIOUS
<1>11. Priced(K)
  BY <1>9, <1>10, CappedIs
<1>12. PICK L : L = Large(in, gap)
  OBVIOUS
<1>13. L = K \ SubMinimum(K)
  BY <1>7, <1>10, <1>12 DEF Large
<1>14. Priced(L)
  <2>1. L \in SUBSET K
    BY <1>13
  <2> QED BY <1>11, <2>1, PartPriced
<1>15. ASSUME NEW a \in L PROVE RLt(Zero, a.gap)
  <2>1. ~RLt(a.gap, MinGap)
    BY <1>13 DEF SubMinimum
  <2>2. a.gap \in Rats /\ MinGap \in Rats /\ RLt(Zero, MinGap)
    BY <1>14, OneIs DEF Priced, MinGap
  <2>3. PICK g : g = a.gap
    OBVIOUS
  <2>4. RLe(MinGap, g)
    BY <2>1, <2>2, <2>3, Ordered
  <2>5. RLt(Zero, g)
    BY <2>2, <2>3, <2>4, ZeroIs, LtLeLt
  <2> QED BY <2>3, <2>5
<1>16. Taken(in, gap) \subseteq L
  BY <1>12 DEF Taken, KeptPurchases
<1> QED BY <1>1, <1>2, <1>4, <1>7, <1>9, <1>12, <1>14, <1>15, <1>16

LEMMA LayeredBuyable == ASSUME NEW S, Priced(S) PROVE Buyable(S)
BY LayersAre DEF Priced, Layered, Buyable

(* What is bought is within the limits of the run.                         *)
LEMMA BuiltIsLimited ==
    ASSUME NEW in, IsInput(in), IsAccepted(in), NEW gap \in Rats, RLe(Zero, gap), NEW B, B = Built(in, gap)
    PROVE  /\ Priced(B.purchases) /\ \A a \in B.purchases : RLt(Zero, a.gap)
           /\ in.config.maxHourlyCommitPerRun # Nil => RLe(TotalGap(B.purchases), in.config.maxHourlyCommitPerRun)
           /\ Cardinality(B.purchases) + Cardinality(B.reshapes) <= in.config.maxActionsPerRun
<1>1. PICK T, L, K : T = Taken(in, gap) /\ L = Large(in, gap) /\ K = Capped(in, Sized(in, gap))
  OBVIOUS
<1>2. B.purchases = T /\ B.reshapes = KeptReshapes(in)
  BY <1>1, BuiltFrom
<1>3. Priced(L) /\ T \in SUBSET L /\ \A a \in L : RLt(Zero, a.gap)
  BY <1>1, StagesAre
<1>4. Priced(T) /\ \A a \in T : RLt(Zero, a.gap)
  BY <1>3, PartPriced
<1>5. ASSUME in.config.maxHourlyCommitPerRun # Nil PROVE RLe(TotalGap(T), in.config.maxHourlyCommitPerRun)
  <2>1. PICK C : C = Sized(in, gap)
    OBVIOUS
  <2>2. Priced(C)
    BY <2>1, StagesAre
  <2>3. Priced(K) /\ RLe(TotalGap(K), in.config.maxHourlyCommitPerRun)
    BY <1>1, <1>5, <2>1, <2>2, CappedIs
  <2>4. T \in SUBSET K
    BY <1>1, <1>3 DEF Large
  <2>5. RLe(TotalGap(T), TotalGap(K))
    BY <2>3, <2>4, TotalIs
  <2>6. TotalGap(T) \in Rats /\ TotalGap(K) \in Rats /\ in.config.maxHourlyCommitPerRun \in Rats
    BY <1>4, <1>5, <2>3, TotalIs DEF IsInput
  <2> QED BY <2>3, <2>5, <2>6, LeTransitive
<1>6. Cardinality(T) + Cardinality(KeptReshapes(in)) <= in.config.maxActionsPerRun
  <2>1. PICK n, c, p : n = in.config.maxActionsPerRun /\ c = Cardinality(Reshapes(in)) /\ p = PurchaseCap(in)
    OBVIOUS
  <2>2. n \in Nat \ {0} /\ c \in 0..1 /\ p \in Nat /\ (p + c <= n \/ (p = 0 /\ c <= n)) /\ IsFiniteSet(Reshapes(in))
    BY <2>1, ReshapesAre
  <2>3. KeptReshapes(in) \subseteq Reshapes(in)
    BY DEF KeptReshapes
  <2>4. Cardinality(KeptReshapes(in)) <= c /\ Cardinality(KeptReshapes(in)) \in Nat
    BY <2>1, <2>2, <2>3, FS_Subset, FS_CardinalityType
  <2>5. Cardinality(T) \in 0..p
    <3>1. Buyable(L) /\ T = KeptPurchases(L, p)
      BY <1>1, <1>3, <2>1, LayeredBuyable DEF Taken
    <3> QED BY <2>2, <3>1, KeptAreFew
  <2>6. PICK x, y : x = Cardinality(T) /\ y = Cardinality(KeptReshapes(in))
    OBVIOUS
  <2>7. x + y <= n
    BY <2>2, <2>4, <2>5, <2>6
  <2> QED BY <2>1, <2>6, <2>7
<1> QED BY <1>2, <1>4, <1>5, <1>6

-----------------------------------------------------------------------------
(* Every dollar of the gap is bought or held with a reason.                *)

LEMMA PairsUnion ==
    ASSUME NEW A, NEW B, NEW S, Layered(A), Layered(B), Pairs(A) \cap Pairs(B) = {}, S = Pairs(A) \cup Pairs(B)
    PROVE  RAdd(RSum([a \in A |-> a.od]), RSum([b \in B |-> b.od])) = SumOfPairs(S)
<1> DEFINE f == [p \in S |-> p[2]]
<1>1. PICK P, Q : P = Pairs(A) /\ Q = Pairs(B)
  OBVIOUS
<1>2. IsFiniteSet(P) /\ IsFiniteSet(Q) /\ RSum([a \in A |-> a.od]) = SumOfPairs(P)
      /\ RSum([b \in B |-> b.od]) = SumOfPairs(Q)
  BY <1>1, OdSum
<1>3. IsFiniteSet(S) /\ S = P \cup Q
  BY <1>1, <1>2, FS_Union
<1>4. \A p \in S : f[p] \in Rats
  BY DEF Pairs, Layered
<1>5. Amounts(f, S)
  BY <1>3, <1>4 DEF Amounts
<1>6. PartOf(f, P \cup Q) = RAdd(PartOf(f, P), PartOf(f, Q))
  <2> HIDE DEF f
  <2>1. P \in SUBSET S /\ Q \in SUBSET S /\ P \cap Q = {}
    BY <1>1, <1>3
  <2> QED BY <1>5, <2>1, PartUnion
<1>7. SumOfPairs(P) = PartOf(f, P) /\ SumOfPairs(Q) = PartOf(f, Q) /\ SumOfPairs(S) = PartOf(f, S)
  <2>1. \A p \in P : [q \in P |-> q[2]][p] = f[p]
    BY <1>3
  <2>2. \A p \in Q : [q \in Q |-> q[2]][p] = f[p]
    BY <1>3
  <2>3. PartOf([q \in P |-> q[2]], P) = PartOf(f, P)
    <3> PICK g : g = [q \in P |-> q[2]]
      OBVIOUS
    <3>1. \A p \in P : g[p] = f[p]
      BY <2>1
    <3> HIDE DEF f
    <3> QED BY <3>1, PartSame
  <2>4. PartOf([q \in Q |-> q[2]], Q) = PartOf(f, Q)
    <3> PICK g : g = [q \in Q |-> q[2]]
      OBVIOUS
    <3>1. \A p \in Q : g[p] = f[p]
      BY <2>2
    <3> HIDE DEF f
    <3> QED BY <3>1, PartSame
  <2> QED BY <2>3, <2>4 DEF SumOfPairs
<1> HIDE DEF f
<1> QED BY <1>2, <1>3, <1>6, <1>7

LEMMA HoldsAre ==
    ASSUME NEW X, Layered(X), NEW rule
    PROVE  Layered(Holds(X, rule)) /\ Pairs(Holds(X, rule)) = Pairs(X) /\ \A h \in Holds(X, rule) : h.why = rule
<1> DEFINE to == [a \in X |-> [layer |-> a.layer, why |-> rule, od |-> a.od]]
<1>1. PICK H : H = Holds(X, rule)
  OBVIOUS
<1>2. H = {to[a] : a \in X}
  BY <1>1 DEF Holds
<1>3. IsFiniteSet(H)
  <2> HIDE DEF to
  <2> QED BY <1>2, ImageFinite DEF Layered
<1>4. \A h \in H : \E a \in X : h = [layer |-> a.layer, why |-> rule, od |-> a.od]
  BY <1>2
<1>5. Layered(H) /\ \A h \in H : h.why = rule
  BY <1>3, <1>4 DEF Layered, OneEach
<1>6. ASSUME NEW a \in X PROVE \E h \in H : h.layer = a.layer /\ h.od = a.od
  <2>1. to[a] \in H /\ to[a].layer = a.layer /\ to[a].od = a.od
    BY <1>2
  <2> QED BY <2>1
<1>7. Pairs(H) = Pairs(X)
  <2>1. \A h \in H : \E a \in X : h.layer = a.layer /\ h.od = a.od
    BY <1>4
  <2> QED BY <1>6, <2>1 DEF Pairs
<1> QED BY <1>1, <1>5, <1>7

(* Amounts of different layers together.                                   *)
Apart(A, B) == \A a \in A, b \in B : a.layer # b.layer
LEMMA LayeredUnion ==
    ASSUME NEW A, NEW B, Layered(A), Layered(B), Apart(A, B)
    PROVE  Layered(A \cup B) /\ Pairs(A \cup B) = Pairs(A) \cup Pairs(B) /\ Pairs(A) \cap Pairs(B) = {}
<1>1. IsFiniteSet(A \cup B)
  BY FS_Union DEF Layered
<1>2. Layered(A \cup B)
  BY <1>1 DEF Layered, OneEach, Apart
<1>3. Pairs(A \cup B) = Pairs(A) \cup Pairs(B) /\ Pairs(A) \cap Pairs(B) = {}
  BY DEF Pairs, Apart
<1> QED BY <1>2, <1>3

LEMMA LayeredPart == ASSUME NEW S, Layered(S), NEW A \in SUBSET S PROVE Layered(A)
BY FS_Subset DEF Layered, OneEach

LEMMA PairsApart ==
    ASSUME NEW A, NEW B, NEW C, NEW D, Pairs(A) = Pairs(C), Pairs(B) = Pairs(D), Apart(C, D) PROVE Apart(A, B)
<1>1. ASSUME NEW a \in A, NEW b \in B, a.layer = b.layer PROVE FALSE
  <2>1. <<a.layer, a.od>> \in Pairs(C) /\ <<b.layer, b.od>> \in Pairs(D)
    BY DEF Pairs
  <2>2. PICK c \in C : <<a.layer, a.od>> = <<c.layer, c.od>>
    BY <2>1 DEF Pairs
  <2>3. PICK d \in D : <<b.layer, b.od>> = <<d.layer, d.od>>
    BY <2>1 DEF Pairs
  <2> QED BY <1>1, <2>2, <2>3 DEF Apart
<1> QED BY <1>1 DEF Apart

LEMMA MaintenanceIsZero == ASSUME NEW in PROVE \A h \in MaintenanceHolds(in) : h.od = Zero
<1>1. PICK K : K = {k \in BufferLayers(in) : in.states[k].utilization = Nil}
  OBVIOUS
<1>2. MaintenanceHolds(in) = {[layer |-> l, why |-> "utilization unknown", od |-> Zero] : l \in K}
  BY <1>1 DEF MaintenanceHolds
<1>3. PICK z : z = Zero
  OBVIOUS
<1>4. ASSUME NEW h \in MaintenanceHolds(in) PROVE h.od = z
  <2>1. PICK l \in K : h = [layer |-> l, why |-> "utilization unknown", od |-> Zero]
    BY <1>2
  <2>2. h = [layer |-> l, why |-> "utilization unknown", od |-> z]
    BY <1>3, <2>1
  <2> QED BY <2>2
<1> QED BY <1>3, <1>4

LEMMA HeldIs ==
    ASSUME NEW in, NEW g, NEW rule
    PROVE  /\ Held(in, g, rule).purchases = {} /\ Held(in, g, rule).reshapes = Reshapes(in)
           /\ \A h \in Held(in, g, rule).holds : h.od = Zero
<1>1. PICK M : M = MaintenanceHolds(in)
  OBVIOUS
<1>2. Held(in, g, rule).holds = {[layer |-> LayerForRole(in.layers, "flex"), why |-> rule, od |-> Zero]} \cup M
  BY <1>1 DEF Held
<1>3. \A h \in Held(in, g, rule).holds : h.od = Zero
  BY <1>1, <1>2, MaintenanceIsZero
<1> QED BY <1>3 DEF Held

LEMMA BuiltIsWhole ==
    ASSUME NEW in, IsInput(in), IsAccepted(in), NEW gap \in Rats, RLe(Zero, gap), NEW B, B = Built(in, gap),
           in.config.maxHourlyCommitPerRun = Nil, NEW Q, Q = {h \in B.holds : h.od # Zero}
    PROVE  RAdd(RSum([a \in B.purchases |-> a.od]), RSum([h \in Q |-> h.od])) = gap
<1>1. PICK S, P, N, C : S = Shares(in, gap) /\ P = Pending(in, gap) /\ N = NoRate(in, gap) /\ C = Sized(in, gap)
  OBVIOUS
<1>2. PICK U, L, T, D, R : U = SubMinimum(C) /\ L = C \ U /\ T = Taken(in, gap) /\ D = L \ T /\ R = S \ (P \cup N)
  OBVIOUS
<1>3. Priced(C)
  BY <1>1, StagesAre
<1>4. Capped(in, C) = C
  BY <1>3, CappedIs
<1>5. L = Large(in, gap)
  BY <1>1, <1>2, <1>4 DEF Large
<1>6. P \subseteq S /\ N \subseteq S \ P /\ Pairs(C) = Pairs(R) /\ T \subseteq L /\ \A a \in C : RLt(Zero, a.od)
  BY <1>1, <1>2, <1>5, StagesAre
<1>7. Layered(S) /\ SumOfPairs(Pairs(S)) = gap /\ \A a \in S : RLt(Zero, a.od)
  BY <1>1, SharesAre
<1>8. U \subseteq C
  BY <1>2 DEF SubMinimum
<1>9. Layered(C)
  BY <1>3 DEF Priced
<1>10. Layered(P) /\ Layered(N) /\ Layered(R) /\ Layered(U) /\ Layered(L) /\ Layered(T) /\ Layered(D)
  BY <1>2, <1>6, <1>7, <1>8, <1>9, LayeredPart
<1> DEFINE HP == Holds(P, "reshape pending")
           HN == Holds(N, "no rate")
           HU == Holds(U, "below minimum")
           HD == Holds(D, "max actions")
           Z  == {[layer |-> l, why |-> "max actions", od |-> Zero] : l \in Reshapes(in) \ KeptReshapes(in)}
<1>11. B.purchases = T /\ B.holds = MaintenanceHolds(in) \cup HP \cup HN \cup HU \cup HD \cup Z
  BY <1>1, <1>2, <1>4, <1>5, BuiltFrom
<1>12. /\ Layered(HP) /\ Pairs(HP) = Pairs(P) /\ Layered(HN) /\ Pairs(HN) = Pairs(N)
       /\ Layered(HU) /\ Pairs(HU) = Pairs(U) /\ Layered(HD) /\ Pairs(HD) = Pairs(D)
  BY <1>10, HoldsAre
<1>13. ASSUME NEW X, \A a \in X : RLt(Zero, a.od) /\ a.od \in Rats, NEW rule, NEW h \in Holds(X, rule) PROVE h.od # Zero
  <2>1. PICK a \in X : h = [layer |-> a.layer, why |-> rule, od |-> a.od]
    BY DEF Holds
  <2>2. PICK o : o = a.od
    OBVIOUS
  <2>3. o # Zero
    BY <1>13, <2>2, ZeroIs, LtLe
  <2> QED BY <2>1, <2>2, <2>3
<1>14. Q = HP \cup HN \cup HU \cup HD
  <2>1. \A h \in MaintenanceHolds(in) \cup Z : h.od = Zero
    <3>1. \A h \in Z : h.od = Zero
      <4>1. ASSUME NEW h \in Z PROVE h.od = Zero
        <5>1. PICK l \in Reshapes(in) \ KeptReshapes(in) : h = [layer |-> l, why |-> "max actions", od |-> Zero]
          OBVIOUS
        <5>2. PICK z : z = Zero
          OBVIOUS
        <5>3. h = [layer |-> l, why |-> "max actions", od |-> z]
          BY <5>1, <5>2
        <5>4. h.od = z
          BY <5>3
        <5> QED BY <5>2, <5>4
      <4> QED BY <4>1
    <3> QED BY <3>1, MaintenanceIsZero
  <2>2. \A h \in HP : h.od # Zero
    BY <1>6, <1>7, <1>13 DEF Layered
  <2>3. \A h \in HN : h.od # Zero
    BY <1>6, <1>7, <1>13 DEF Layered
  <2>4. \A h \in HU : h.od # Zero
    BY <1>6, <1>8, <1>9, <1>13 DEF Layered
  <2>5. \A h \in HD : h.od # Zero
    BY <1>2, <1>6, <1>9, <1>13 DEF Layered
  <2> HIDE DEF HP, HN, HU, HD, Z
  <2> QED BY <1>11, <2>1, <2>2, <2>3, <2>4, <2>5
<1>15. Apart(P, N) /\ Apart(P, R) /\ Apart(N, R)
  BY <1>2, <1>6, <1>7 DEF Apart, Layered, OneEach
<1>16. Apart(U, D) /\ Apart(T, U) /\ Apart(T, D)
  BY <1>2, <1>6, <1>8, <1>9 DEF Apart, Layered, OneEach
<1>17. Apart(P, C) /\ Apart(N, C)
  BY <1>6, <1>15, PairsApart
<1>18. Apart(P, U) /\ Apart(P, D) /\ Apart(P, T) /\ Apart(N, U) /\ Apart(N, D) /\ Apart(N, T)
  BY <1>2, <1>6, <1>8, <1>17 DEF Apart
<1>19. /\ Apart(HP, HN) /\ Apart(HP, HU) /\ Apart(HP, HD) /\ Apart(HN, HU) /\ Apart(HN, HD) /\ Apart(HU, HD)
       /\ Apart(T, HP) /\ Apart(T, HN) /\ Apart(T, HU) /\ Apart(T, HD)
  <2>1. Apart(T, P) /\ Apart(T, N)
    BY <1>18 DEF Apart
  <2> HIDE DEF HP, HN, HU, HD
  <2> QED BY <1>12, <1>15, <1>16, <1>18, <2>1, PairsApart
<1>20. PICK H1, H2 : H1 = HP \cup HN /\ H2 = H1 \cup HU
  OBVIOUS
<1>21. Q = H2 \cup HD
  <2> HIDE DEF HP, HN, HU, HD
  <2> QED BY <1>14, <1>20
<1>22. Layered(H1) /\ Pairs(H1) = Pairs(P) \cup Pairs(N)
  <2> HIDE DEF HP, HN, HU, HD
  <2> QED BY <1>12, <1>19, <1>20, LayeredUnion
<1>23. Layered(H2) /\ Pairs(H2) = Pairs(P) \cup Pairs(N) \cup Pairs(U)
  <2> HIDE DEF HP, HN, HU, HD
  <2>1. Apart(H1, HU)
    BY <1>19, <1>20 DEF Apart
  <2>2. Layered(H1 \cup HU) /\ Pairs(H1 \cup HU) = Pairs(H1) \cup Pairs(HU)
    <3>1. Layered(H1) /\ Layered(HU)
      BY <1>12, <1>22
    <3> QED BY <2>1, <3>1, LayeredUnion
  <2> QED BY <1>12, <1>20, <1>22, <2>2
<1>24. Layered(Q) /\ Pairs(Q) = Pairs(P) \cup Pairs(N) \cup Pairs(U) \cup Pairs(D)
  <2> HIDE DEF HP, HN, HU, HD
  <2>1. Apart(H2, HD)
    BY <1>19, <1>20 DEF Apart
  <2>2. Layered(H2 \cup HD) /\ Pairs(H2 \cup HD) = Pairs(H2) \cup Pairs(HD)
    <3>1. Layered(H2) /\ Layered(HD)
      BY <1>12, <1>23
    <3> QED BY <2>1, <3>1, LayeredUnion
  <2> QED BY <1>12, <1>21, <1>23, <2>2
<1>25. Apart(T, Q)
  <2> HIDE DEF HP, HN, HU, HD
  <2> QED BY <1>19, <1>20, <1>21 DEF Apart
<1>26. Pairs(T) \cap Pairs(Q) = {}
  BY <1>10, <1>24, <1>25, LayeredUnion
<1>27. Pairs(S) = Pairs(T) \cup Pairs(Q)
  <2>1. Pairs(S) = Pairs(P) \cup Pairs(N) \cup Pairs(R)
    BY <1>2, <1>6 DEF Pairs
  <2>2. Pairs(C) = Pairs(U) \cup Pairs(D) \cup Pairs(T)
    BY <1>2, <1>6, <1>8 DEF Pairs
  <2> QED BY <1>6, <1>24, <2>1, <2>2
<1>28. RAdd(RSum([a \in T |-> a.od]), RSum([h \in Q |-> h.od])) = SumOfPairs(Pairs(S))
  <2>1. PICK W : W = Pairs(S)
    OBVIOUS
  <2> HIDE DEF HP, HN, HU, HD
  <2>2. Layered(T) /\ Layered(Q) /\ Pairs(T) \cap Pairs(Q) = {} /\ W = Pairs(T) \cup Pairs(Q)
    BY <1>10, <1>24, <1>26, <1>27, <2>1
  <2>3. RAdd(RSum([a \in T |-> a.od]), RSum([h \in Q |-> h.od])) = SumOfPairs(W)
    BY <2>2, PairsUnion
  <2> QED BY <2>1, <2>3
<1> QED BY <1>7, <1>11, <1>28

(* The plan of a run that was accepted.                                    *)
LEMMA AllocateIs ==
    ASSUME NEW in, IsInput(in), NEW p, p = Allocate(in)
    PROVE  \/ p.purchases = {} /\ p.reshapes = {} /\ p.holds = {}
           \/ /\ IsAccepted(in) /\ p.purchases = {} /\ p.reshapes = Reshapes(in) /\ \A h \in p.holds : h.od = Zero
           \/ /\ IsAccepted(in) /\ Gap(in) \in Rats /\ RLe(Zero, Gap(in)) /\ p = Built(in, Gap(in)) /\ p.gap = Gap(in)
<1>1. CASE ~IsAccepted(in) \/ ~Money(in.baseline.lowWater)
  <2>1. Failed.purchases = {} /\ Failed.reshapes = {} /\ Failed.holds = {}
    BY DEF Failed
  <2>2. CASE ~IsAccepted(in)
    <3>1. p = Failed
      BY <2>2 DEF Allocate, IsAccepted
    <3> QED BY <2>1, <3>1
  <2>3. CASE IsAccepted(in)
    <3>1. p = IF in.baseline.lowWater = Nil THEN Held(in, Zero, "baseline unavailable") ELSE Failed
      BY <1>1, <2>3 DEF Allocate, IsAccepted
    <3> QED BY <2>1, <2>3, <3>1, HeldIs
  <2> QED BY <2>2, <2>3
<1>2. CASE IsAccepted(in) /\ Money(in.baseline.lowWater)
  <2>1. Gap(in) \in Rats
    BY <1>2, GapIs
  <2>2. \A g, rule : /\ Held(in, g, rule).purchases = {} /\ Held(in, g, rule).reshapes = Reshapes(in)
                     /\ \A h \in Held(in, g, rule).holds : h.od = Zero
    BY HeldIs
  <2>3. Failed.purchases = {} /\ Failed.reshapes = {} /\ Failed.holds = {}
    BY DEF Failed
  <2>4. CASE RLe(Gap(in), MinGap) \/ in.baseline.lowWater = Nil \/ ResidualPartialTarget(in) \/ SplitError(in, Gap(in))
    <3>1. p \in {Failed, Held(in, Zero, "baseline unavailable"), Held(in, Gap(in), "target met"),
                 Held(in, Gap(in), "residual partial target")}
      BY <1>2, <2>4 DEF Allocate, IsAccepted
    <3> QED BY <1>2, <2>2, <2>3, <3>1
  <2>5. CASE ~(RLe(Gap(in), MinGap) \/ in.baseline.lowWater = Nil \/ ResidualPartialTarget(in) \/ SplitError(in, Gap(in)))
    <3>1. p = Built(in, Gap(in))
      BY <1>2, <2>5 DEF Allocate, IsAccepted
    <3>2. RLe(Zero, Gap(in))
      <4>1. PICK g : g = Gap(in)
        OBVIOUS
      <4>2. RLt(MinGap, g) /\ MinGap \in Rats /\ RLt(Zero, MinGap) /\ g \in Rats
        BY <2>1, <2>5, <4>1, OneIs, Ordered DEF MinGap
      <4>3. RLt(Zero, g)
        BY <4>2, ZeroIs, LtLe, LtLeLt
      <4> QED BY <4>1, <4>2, <4>3, ZeroIs, LtLe
    <3>3. p.gap = Gap(in)
      <4>1. PICK g : g = Gap(in)
        OBVIOUS
      <4>2. p = Built(in, g)
        BY <3>1, <4>1
      <4>3. Built(in, g).gap = g
        BY Zenon DEF Built
      <4> QED BY <4>1, <4>2, <4>3
    <3> QED BY <1>2, <2>1, <3>1, <3>2, <3>3
  <2> QED BY <2>4, <2>5
<1> QED BY <1>1, <1>2

-----------------------------------------------------------------------------
(* The percentile of a series is one of its values.                        *)
LEMMA LeastIs ==
    ASSUME NEW S, IsFiniteSet(S), S \subseteq Rats, S # {}
    PROVE  \E v \in S : \A w \in S : RLe(v, w)
<1> DEFINE G == {A \in SUBSET S : A # {} => \E v \in A : \A w \in A : RLe(v, w)}
<1>1. {} \in G
  OBVIOUS
<1>2. ASSUME NEW A \in SUBSET S, NEW x \in S \ A, A \in G PROVE A \cup {x} \in G
  <2>1. CASE A = {}
    <3>1. RLe(x, x)
      BY Ordered
    <3> QED BY <2>1, <3>1
  <2>2. CASE A # {}
    <3>1. PICK v \in A : \A w \in A : RLe(v, w)
      BY <1>2, <2>2
    <3>2. CASE RLe(v, x)
      <4>1. \A w \in A \cup {x} : RLe(v, w)
        BY <3>1, <3>2
      <4> QED BY <4>1, <3>1
    <3>3. CASE ~RLe(v, x)
      <4>1. v \in Rats /\ x \in Rats /\ RLe(x, v) /\ RLe(x, x)
        <5>1. v \in Rats /\ x \in Rats
          OBVIOUS
        <5> QED BY <3>3, <5>1, LeTotal, Ordered
      <4>2. ASSUME NEW w \in A PROVE RLe(x, w)
        <5>1. w \in Rats /\ RLe(v, w)
          BY <3>1
        <5> QED BY <4>1, <5>1, LeTransitive
      <4>3. \A w \in A \cup {x} : RLe(x, w)
        BY <4>1, <4>2
      <4> QED BY <4>3
    <3> QED BY <3>2, <3>3
  <2> QED BY <2>1, <2>2
<1>3. S \in G
  <2> HIDE DEF G
  <2> QED BY <1>1, <1>2, FiniteInduct
<1> QED BY <1>3

LEMMA GreatestIs ==
    ASSUME NEW S, IsFiniteSet(S), S \subseteq Rats, S # {}
    PROVE  \E v \in S : \A w \in S : RLe(w, v)
<1> DEFINE G == {A \in SUBSET S : A # {} => \E v \in A : \A w \in A : RLe(w, v)}
<1>1. {} \in G
  OBVIOUS
<1>2. ASSUME NEW A \in SUBSET S, NEW x \in S \ A, A \in G PROVE A \cup {x} \in G
  <2>1. CASE A = {}
    <3>1. RLe(x, x)
      BY Ordered
    <3> QED BY <2>1, <3>1
  <2>2. CASE A # {}
    <3>1. PICK v \in A : \A w \in A : RLe(w, v)
      BY <1>2, <2>2
    <3>2. CASE RLe(x, v)
      <4>1. \A w \in A \cup {x} : RLe(w, v)
        BY <3>1, <3>2
      <4> QED BY <4>1, <3>1
    <3>3. CASE ~RLe(x, v)
      <4>1. v \in Rats /\ x \in Rats /\ RLe(v, x) /\ RLe(x, x)
        <5>1. v \in Rats /\ x \in Rats
          OBVIOUS
        <5> QED BY <3>3, <5>1, LeTotal, Ordered
      <4>2. ASSUME NEW w \in A PROVE RLe(w, x)
        <5>1. w \in Rats /\ RLe(w, v)
          BY <3>1
        <5> QED BY <4>1, <5>1, LeTransitive
      <4>3. \A w \in A \cup {x} : RLe(w, x)
        BY <4>1, <4>2
      <4> QED BY <4>3
    <3> QED BY <3>2, <3>3
  <2> QED BY <2>1, <2>2
<1>3. S \in G
  <2> HIDE DEF G
  <2> QED BY <1>1, <1>2, FiniteInduct
<1> QED BY <1>3

LEMMA LenIs == ASSUME NEW n \in Nat, NEW f, f = [i \in 1..n |-> f[i]] PROVE Len(f) = n /\ DOMAIN f = 1..n
<1> DEFINE S == {f[i] : i \in 1..n}
<1>1. f \in [1..n -> S]
  OBVIOUS
<1>2. f \in Seq(S)
  BY <1>1, SMT
<1>3. DOMAIN f = 1..n
  OBVIOUS
<1>4. DOMAIN f = 1..Len(f) /\ Len(f) \in Nat
  BY <1>2, LenProperties
<1> QED BY <1>3, <1>4

LEMMA PercentileIs ==
    ASSUME NEW n \in Nat \ {0}, NEW f, f = [i \in 1..n |-> f[i]], \A i \in 1..n : f[i] \in Rats, NEW p \in Int
    PROVE  NearestRankPercentile(f, p) \in Rats
<1>1. PICK R : R = Range(f)
  OBVIOUS
<1>2. R = {f[i] : i \in 1..n} /\ IsFiniteSet(1..n) /\ Cardinality(1..n) = n
  <2>1. R = {f[i] : i \in 1..n}
    BY <1>1 DEF Range
  <2> QED BY <2>1, FS_Interval
<1>3. IsFiniteSet(R) /\ R \subseteq Rats /\ R # {}
  <2>1. IsFiniteSet(R)
    BY <1>2, ImageFinite
  <2>2. f[1] \in R
    BY <1>2
  <2> QED BY <1>2, <2>1, <2>2
<1>4. PICK m \in R : \A w \in R : RLe(w, m)
  BY <1>3, GreatestIs
<1>5. Len(f) = n /\ DOMAIN f = 1..n
  BY LenIs
<1>6. PICK k : k = Rank(n, p)
  OBVIOUS
<1>7. k \in 1..n
  <2>1. (p * n + 99) \div 100 \in Int
    OBVIOUS
  <2> QED BY <1>6, <2>1 DEF Rank
<1>8. Reaches(f, m, k)
  <2>1. {i \in DOMAIN f : RLe(f[i], m)} = 1..n
    BY <1>2, <1>4, <1>5
  <2>2. PICK D : D = {i \in DOMAIN f : RLe(f[i], m)}
    OBVIOUS
  <2>3. Cardinality(D) >= k
    <3>1. Cardinality(D) = n
      BY <1>2, <2>1, <2>2
    <3> QED BY <1>7, <3>1
  <2>4. Reaches(f, m, k) = (Cardinality(D) >= k)
    BY <2>2, Zenon DEF Reaches
  <2> QED BY <2>3, <2>4
<1>9. PICK H : H = {v \in R : Reaches(f, v, k)}
  OBVIOUS
<1>10. IsFiniteSet(H) /\ H \subseteq Rats /\ H # {}
  <2>1. m \in H
    BY <1>8, <1>9
  <2> QED BY <1>3, <1>9, <2>1, FS_Subset
<1>11. \E v \in H : \A w \in H : RLe(v, w)
  BY <1>10, LeastIs
<1>12. NearestRankPercentile(f, p) = CHOOSE v \in H : \A w \in H : RLe(v, w)
  BY <1>1, <1>5, <1>6, <1>9 DEF NearestRankPercentile
<1>13. (CHOOSE v \in H : \A w \in H : RLe(v, w)) \in H
  BY <1>11
<1> QED BY <1>10, <1>12, <1>13

-----------------------------------------------------------------------------
(* The accounts: what is stored between runs.                              *)
AccountOK ==
    /\ setting \in Settings /\ ris = setting.ris /\ day \in 0..MaxDay /\ runs \in Nat
    /\ IsFiniteSet(tranches)
    /\ \A t \in tranches :
         /\ t.layer \in RateLayers /\ t.run \in 0..(runs - 1)
         /\ t.amount \in Rats /\ RLe(Zero, t.amount) /\ t.rate \in Rats /\ ValidRate(t.rate)
    /\ IsFiniteSet(sps)
    /\ \A c \in sps : c.plan \in RateLayers /\ c.hourly \in Rats /\ RLe(Zero, c.hourly) /\ c.rate \in Rats /\ RLt(Zero, c.rate)

LEMMA RIHourlyCostIs == ASSUME NEW c, IsConvertibleRI(c) PROVE RIHourlyCost(c) \in Rats /\ RLe(Zero, RIHourlyCost(c))
<1>1. /\ c.recurring \in Rats /\ RLe(Zero, c.recurring) /\ c.fixed \in Rats /\ RLe(Zero, c.fixed)
      /\ c.hours \in Int /\ c.count \in Nat
  BY LowestIsRat DEF IsConvertibleRI, IsAmount
<1>2. PICK u : u = IF c.hours > 0 THEN RQuo(c.fixed, Int2Rat(c.hours)) ELSE Zero
  OBVIOUS
<1>3. u \in Rats /\ RLe(Zero, u)
  <2>1. CASE c.hours > 0
    <3>1. PICK h : h = Int2Rat(c.hours)
      OBVIOUS
    <3>2. h \in Rats /\ h = Rat(c.hours, 1)
      BY <1>1, <3>1, IntRat
    <3>3. RLt(Zero, h)
      <4>1. Zero = Rat(0, 1)
        BY ZeroIs
      <4>2. PICK n \in Int : n = c.hours
        BY <1>1
      <4>3. /\ 0 \in Int
            /\ 1 \in Nat \ {0}
        OBVIOUS
      <4>4. RLt(Rat(0, 1), Rat(n, 1)) <=> 0 * 1 < n * 1
        BY <4>3, LeIs
      <4>5. RLt(Rat(0, 1), Rat(n, 1))
        BY <2>1, <4>2, <4>4
      <4> QED BY <3>2, <4>1, <4>2, <4>5
    <3> QED BY <1>1, <1>2, <2>1, <3>1, <3>2, <3>3, QuoNotNegative
  <2>2. CASE ~(c.hours > 0)
    <3>1. RLe(Zero, Zero)
      BY ZeroIs, Ordered
    <3> QED BY <1>2, <2>2, <3>1, ZeroIs
  <2> QED BY <2>1, <2>2
<1>4. PICK a, n : a = RAdd(c.recurring, u) /\ n = Int2Rat(c.count)
  OBVIOUS
<1>5. a \in Rats /\ RLe(Zero, a)
  <2>1. a \in Rats
    BY <1>1, <1>3, <1>4, Closed
  <2>2. RLe(u, a)
    BY <1>1, <1>3, <1>4, AddRaises
  <2> QED BY <1>3, <2>1, <2>2, ZeroIs, LeTransitive
<1>6. n \in Rats /\ RLe(Zero, n)
  <2>1. n \in Rats /\ n = Rat(c.count, 1)
    BY <1>1, <1>4, IntRat
  <2>2. RLe(Rat(0, 1), Rat(c.count, 1)) <=> 0 * 1 <= c.count * 1
    BY <1>1, LeIs
  <2> QED BY <1>1, <2>1, <2>2, ZeroIs
<1>7. RMul(a, n) \in Rats /\ RLe(Zero, RMul(a, n))
  BY <1>5, <1>6, Closed, MulNotNegative
<1>8. RIHourlyCost(c) = RMul(a, n)
  BY <1>2, <1>4 DEF RIHourlyCost
<1> QED BY <1>7, <1>8

LEMMA QuoPositive ==
    ASSUME NEW a \in Rats, NEW b \in Rats, RLt(Zero, a), RLt(Zero, b)
    PROVE  RQuo(a, b) \in Rats /\ RLt(Zero, RQuo(a, b))
<1>1. RLe(Zero, a) /\ Zero # a
  BY ZeroIs, LtLe
<1>2. RQuo(a, b) \in Rats /\ RLe(Zero, RQuo(a, b)) /\ RMul(RQuo(a, b), b) = a
  BY <1>1, QuoNotNegative, QuoMultiplies
<1>3. PICK q \in Rats : q = RQuo(a, b)
  BY <1>2
<1>4. q # Zero
  BY <1>1, <1>2, <1>3, MulZero
<1>5. RLt(Zero, q)
  BY <1>2, <1>3, <1>4, ZeroIs, Ordered
<1> QED BY <1>3, <1>5

(* The true rate of a commitment is above zero, like the quoted one.       *)
LEMMA TrueRateIs ==
    ASSUME AccountOK, NEW l, NEW r \in Rats, RLt(Zero, r)
    PROVE  TrueRate(l, r) \in Rats /\ RLt(Zero, TrueRate(l, r))
<1>1. PICK b : b = setting.blend
  OBVIOUS
<1>2. b \in Rats /\ RLt(Zero, b)
  BY <1>1, LadderAssumption, LowestIsRat DEF AccountOK
<1>3. RQuo(r, b) \in Rats /\ RLt(Zero, RQuo(r, b))
  BY <1>2, QuoPositive
<1> QED BY <1>1, <1>3 DEF TrueRate

LEMMA HeldCommitments ==
    ASSUME AccountOK
    PROVE  /\ IsFiniteSet(ris) /\ IsFiniteSet(ris \cup sps)
           /\ \A c \in ris : c.plan = "convertible-ri" /\ RIHourlyCost(c) \in Rats
           /\ \A c \in ris \cup sps :
                c.plan \in AwsLayers /\ Cost(c) \in Rats /\ c.rate \in Rats /\ RLt(Zero, c.rate)
              /\ OD(c) \in Rats /\ RLe(Zero, OD(c))
<1>1. IsFiniteSet(ris) /\ \A c \in ris : IsConvertibleRI(c)
  BY LadderAssumption DEF AccountOK
<1>2. IsFiniteSet(ris \cup sps)
  BY <1>1, FS_Union DEF AccountOK
<1>3. \A c \in ris : c.plan = "convertible-ri" /\ c.rate \in Rats /\ RLt(Zero, c.rate)
  BY <1>1, LowestIsRat DEF IsConvertibleRI
<1>4. ASSUME NEW c \in ris \cup sps
      PROVE  c.plan \in AwsLayers /\ Cost(c) \in Rats /\ c.rate \in Rats /\ RLt(Zero, c.rate)
              /\ OD(c) \in Rats /\ RLe(Zero, OD(c))
  <2>1. Cost(c) \in Rats /\ RLe(Zero, Cost(c)) /\ c.rate \in Rats /\ RLt(Zero, c.rate) /\ c.plan \in AwsLayers
    <3>1. CASE c \in ris
      BY <1>1, <1>3, <3>1, RIHourlyCostIs DEF Cost, AwsLayers
    <3>2. CASE c \in sps
      BY <3>2 DEF Cost, AwsLayers, AccountOK, RateLayers
    <3> QED BY <3>1, <3>2
  <2>2. PICK a, r : a = Cost(c) /\ r = TrueRate(c.plan, c.rate)
    OBVIOUS
  <2>3. r \in Rats /\ RLt(Zero, r)
    BY <2>1, <2>2, TrueRateIs
  <2>4. RQuo(a, r) \in Rats /\ RLe(Zero, RQuo(a, r))
    BY <2>1, <2>2, <2>3, QuoNotNegative
  <2> QED BY <2>1, <2>2, <2>4 DEF OD
<1>5. \A c \in ris : RIHourlyCost(c) \in Rats
  BY <1>1, RIHourlyCostIs
<1> QED BY <1>1, <1>2, <1>3, <1>4, <1>5

LEMMA SumOver ==
    ASSUME NEW S, IsFiniteSet(S), NEW A \in SUBSET S, NEW f, f = [x \in A |-> f[x]], \A x \in A : f[x] \in Rats
    PROVE  RSum(f) \in Rats
BY FS_Subset, SumIsRat

LEMMA CoveredIs == ASSUME AccountOK, NEW d PROVE CoveredOn(d) \in Rats
<1>1. PICK A : A = Active(ris \cup sps, d)
  OBVIOUS
<1>2. A \in SUBSET (ris \cup sps)
  BY <1>1 DEF Active
<1>3. PICK f : f = [c \in A |-> OD(c)]
  OBVIOUS
<1>4. \A c \in A : f[c] \in Rats
  BY <1>2, <1>3, HeldCommitments
<1>5. f = [c \in A |-> f[c]]
  BY <1>3
<1>6. IsFiniteSet(ris \cup sps)
  BY HeldCommitments
<1>7. RSum(f) \in Rats
  BY <1>2, <1>4, <1>5, <1>6, SumOver
<1> QED BY <1>1, <1>3, <1>7 DEF CoveredOn

(* What GetLayerStates and the observed rates report.                      *)
LEMMA ListedIs ==
    ASSUME AccountOK, NEW A \in SUBSET ris PROVE SumRIHourlyCost(A) \in Rats
<1>1. PICK f : f = [ri \in A |-> RIHourlyCost(ri)]
  OBVIOUS
<1>2. f = [x \in A |-> f[x]] /\ \A x \in A : f[x] \in Rats
  BY <1>1, HeldCommitments
<1>3. IsFiniteSet(ris)
  BY HeldCommitments
<1>4. RSum(f) \in Rats
  BY <1>2, <1>3, SumOver
<1> QED BY <1>1, <1>4 DEF SumRIHourlyCost

LEMMA PlansAre ==
    ASSUME AccountOK, NEW A \in SUBSET sps, NEW l PROVE SumSPHourlyCost(A, l) \in Rats
<1>1. PICK B, f : B = {s \in A : s.plan = l} /\ f = [sp \in B |-> sp.hourly]
  OBVIOUS
<1>2. B \in SUBSET sps /\ f = [x \in B |-> f[x]] /\ \A x \in B : f[x] \in Rats
  BY <1>1 DEF AccountOK
<1>3. IsFiniteSet(sps)
  BY DEF AccountOK
<1>4. RSum(f) \in Rats
  BY <1>2, <1>3, SumOver
<1> QED BY <1>1, <1>4 DEF SumSPHourlyCost

LEMMA ReportedIs ==
    ASSUME AccountOK, NEW l \in AwsLayers,
           NEW st, st = GetLayerStates(Active(ris, day), Active(sps, day), utils, Region, day)[l]
    PROVE  st.existing \in Rats /\ st.expiring \in Rats
<1>1. Active(ris, day) \in SUBSET ris /\ Active(sps, day) \in SUBSET sps
  BY DEF Active
<1>2. st = IF l = "convertible-ri" THEN RILayerState(Active(ris, day), utils, day)
           ELSE SPLayerState({sp \in Active(sps, day) : CountsAsExistingSP(sp, Region)}, l, day)
  BY LayersAre DEF GetLayerStates
<1>3. CASE l = "convertible-ri"
  <2>1. PICK A : A = Active(ris, day)
    OBVIOUS
  <2>2. PICK E : E = {ri \in A : Expires(ri, day)}
    OBVIOUS
  <2>3. SumRIHourlyCost(A) \in Rats /\ SumRIHourlyCost(E) \in Rats
    <3>1. A \in SUBSET ris /\ E \in SUBSET ris
      BY <1>1, <2>1, <2>2
    <3> QED BY <3>1, ListedIs
  <2>4. st.existing = SumRIHourlyCost(A) /\ st.expiring = SumRIHourlyCost(E)
    BY <1>2, <1>3, <2>1, <2>2 DEF RILayerState, SumExpiringRIHourlyCost
  <2> QED BY <2>3, <2>4
<1>4. CASE l # "convertible-ri"
  <2>1. PICK A : A = {sp \in Active(sps, day) : CountsAsExistingSP(sp, Region)}
    OBVIOUS
  <2>2. PICK E : E = {sp \in A : Expires(sp, day)}
    OBVIOUS
  <2>3. SumSPHourlyCost(A, l) \in Rats /\ SumSPHourlyCost(E, l) \in Rats
    <3>1. A \in SUBSET sps /\ E \in SUBSET sps
      BY <1>1, <2>1, <2>2
    <3> QED BY <3>1, PlansAre
  <2>4. st.existing = SumSPHourlyCost(A, l) /\ st.expiring = SumSPHourlyCost(E, l)
    BY <1>2, <1>4, <2>1, <2>2 DEF SPLayerState, SumExpiringSPHourlyCost
  <2> QED BY <2>3, <2>4
<1> QED BY <1>3, <1>4

LEMMA NativeIs ==
    ASSUME AccountOK, NEW l
    PROVE  Native(l) \in Rats
<1>1. PICK A, f : A = {x \in Active(ris \cup sps, day) : x.plan = l} /\ f = [c \in A |-> Cost(c)]
  OBVIOUS
<1>2. A \in SUBSET (ris \cup sps)
  BY <1>1 DEF Active
<1>3. f = [x \in A |-> f[x]] /\ \A x \in A : f[x] \in Rats
  BY <1>1, <1>2, HeldCommitments
<1>4. IsFiniteSet(ris \cup sps)
  BY HeldCommitments
<1>5. RSum(f) \in Rats
  BY <1>2, <1>3, <1>4, SumOver
<1> QED BY <1>1, <1>5 DEF Native

LEMMA ObservedIs ==
    ASSUME AccountOK, NEW l
    PROVE  Observed(l) # Nil => Observed(l) \in Rats /\ RLt(Zero, Observed(l))
<1>1. PICK A, f : A = {x \in Active(ris \cup sps, day) : x.plan = l} /\ f = [c \in A |-> OD(c)]
  OBVIOUS
<1>2. A \in SUBSET (ris \cup sps) /\ IsFiniteSet(A)
  <2>1. A \in SUBSET (ris \cup sps)
    BY <1>1 DEF Active
  <2> QED BY <2>1, HeldCommitments, FS_Subset
<1>3. f = [x \in A |-> f[x]] /\ \A x \in A : f[x] \in Rats /\ RLe(Zero, f[x])
  BY <1>1, <1>2, HeldCommitments
<1>4. PICK o, n : o = RSum(f) /\ n = Native(l)
  OBVIOUS
<1>5. o = PartOf(f, A)
  BY <1>3, <1>4, SumIsPart
<1>6. Amounts(f, A)
  BY <1>2, <1>3 DEF Amounts
<1>7. o \in Rats /\ RLe(Zero, o)
  <2>1. RLe(Zero, PartOf(f, A))
    BY <1>3, <1>6, PartNotNegative
  <2>2. PartOf(f, A) \in Rats
    BY <1>6, PartTakes
  <2> QED BY <1>5, <2>1, <2>2
<1>8. Observed(l) = ObservedRate(n, o)
  BY <1>1, <1>4 DEF Observed
<1>9. n \in Rats
  BY <1>4, NativeIs
<1>10. CASE o = Zero \/ ~ValidRate(RQuo(n, o))
  BY <1>8, <1>10 DEF ObservedRate
<1>11. CASE o # Zero /\ ValidRate(RQuo(n, o))
  <2>1. RLt(Zero, o)
    BY <1>7, <1>11, ZeroIs, LeLt
  <2>2. RQuo(n, o) \in Rats
    BY <1>7, <1>9, <2>1, QuoMultiplies
  <2>3. Observed(l) = RQuo(n, o)
    BY <1>8, <1>11 DEF ObservedRate
  <2> QED BY <1>11, <2>2, <2>3 DEF ValidRate
<1> QED BY <1>10, <1>11

LEMMA StatesAre ==
    ASSUME AccountOK, NEW l \in AwsLayers PROVE States[l].existing \in Rats /\ States[l].expiring \in Rats
<1>1. PICK n : n = GetLayerStates(Active(ris, day), Active(sps, day), utils, Region, day)
  OBVIOUS
<1>2. DOMAIN n = AwsLayers
  BY <1>1, LayersAre DEF GetLayerStates
<1>3. States[l] = ToOD(l, n[l])
  BY <1>1, <1>2 DEF States
<1>4. PICK st : st = n[l]
  OBVIOUS
<1>5. st.existing \in Rats /\ st.expiring \in Rats
  BY <1>1, <1>4, ReportedIs
<1>6. PICK r : r = Observed(l)
  OBVIOUS
<1>7. CASE r = Nil
  BY <1>3, <1>4, <1>5, <1>6, <1>7 DEF ToOD
<1>8. CASE r # Nil
  <2>1. r \in Rats /\ RLt(Zero, r)
    BY <1>6, <1>8, ObservedIs
  <2>2. PICK e, x : e = RQuo(st.existing, r) /\ x = RQuo(st.expiring, r)
    OBVIOUS
  <2>3. e \in Rats /\ x \in Rats
    <3>1. PICK a, b : a = st.existing /\ b = st.expiring
      OBVIOUS
    <3> QED BY <1>5, <2>1, <2>2, <3>1, QuoMultiplies
  <2>4. States[l] = [st EXCEPT !.existing = RQuo(st.existing, r), !.expiring = RQuo(st.expiring, r)]
    BY <1>3, <1>4, <1>6, <1>8 DEF ToOD
  <2>5. "existing" \in DOMAIN st /\ "expiring" \in DOMAIN st
    <3>1. \A c, u, t : /\ "existing" \in DOMAIN RILayerState(c, u, t) /\ "expiring" \in DOMAIN RILayerState(c, u, t)
      BY DEF RILayerState
    <3>2. \A c, p, t : /\ "existing" \in DOMAIN SPLayerState(c, p, t) /\ "expiring" \in DOMAIN SPLayerState(c, p, t)
      BY DEF SPLayerState
    <3>3. st = IF l = "convertible-ri" THEN RILayerState(Active(ris, day), utils, day)
               ELSE SPLayerState({sp \in Active(sps, day) : CountsAsExistingSP(sp, Region)}, l, day)
      BY <1>1, <1>4, LayersAre DEF GetLayerStates
    <3> QED BY <3>1, <3>2, <3>3
  <2>6. PICK s1 : s1 = [st EXCEPT !.existing = e]
    OBVIOUS
  <2>7. States[l] = [s1 EXCEPT !.expiring = x]
    BY <2>2, <2>4, <2>6
  <2>8. s1.existing = e /\ "expiring" \in DOMAIN s1 /\ "existing" \in DOMAIN s1
    BY <2>5, <2>6
  <2>9. States[l].existing = e /\ States[l].expiring = x
    BY <2>7, <2>8
  <2> QED BY <2>3, <2>9
<1> QED BY <1>7, <1>8

LEMMA SettingIs ==
    ASSUME AccountOK
    PROVE  /\ IsConfig(config) /\ (stable # Nil => stable \in Rats) /\ day \in 0..MaxDay
           /\ \A d \in (-config.lookbackDays)..MaxDay : demand[d] \in Rats
<1>1. setting \in Settings
  BY DEF AccountOK
<1>2. \A d \in (-config.lookbackDays)..MaxDay : InLowestTerms(demand[d])
  BY <1>1, LadderAssumption DEF config, demand, IsAmount
<1>3. IsConfig(config) /\ (stable # Nil => InLowestTerms(stable))
  BY <1>1, LadderAssumption DEF config, stable
<1> QED BY <1>2, <1>3, LowestIsRat DEF AccountOK

LEMMA SeriesIs ==
    ASSUME AccountOK, NEW first \in Nat \ {0}, NEW last \in Int, last <= config.lookbackDays,
           NEW points, points = Series(first, last), Len(points) >= 1, NEW p \in Int
    PROVE  NearestRankPercentile(Usd(points), p) \in Rats
<1>1. config.lookbackDays \in Int
  BY SettingIs DEF IsConfig
<1>2. PICK n : n = last - first + 1
  OBVIOUS
<1>3. n \in Int /\ points = [i \in 1..n |-> points[i]]
  BY <1>1, <1>2 DEF Series
<1>4. n \in Nat \ {0}
  <2>1. CASE n <= 0
    <3>1. 1..n = 1..0
      BY <1>3, <2>1
    <3>2. points = [i \in 1..0 |-> points[i]]
      BY <1>3, <3>1
    <3>3. Len(points) = 0
      BY <3>2, LenIs
    <3> QED BY <3>3
  <2> QED BY <1>3, <2>1
<1>5. ASSUME NEW i \in 1..n PROVE points[i].usd \in Rats
  <2>1. PICK d : d = day - config.lookbackDays + (first + i - 2)
    OBVIOUS
  <2>2. d \in (-config.lookbackDays)..MaxDay
    <3>1. day \in Nat /\ day <= MaxDay /\ MaxDay \in Nat
      BY LadderAssumption DEF AccountOK
    <3>2. first + i - 2 \in Nat /\ first + i - 2 < config.lookbackDays
      BY <1>1, <1>2, <1>4
    <3> QED BY <1>1, <2>1, <3>1, <3>2
  <2>3. points[i].usd = IF source = "total" THEN demand[d] ELSE Uncovered(d)
    BY <1>2, <2>1 DEF Series
  <2>4. demand[d] \in Rats
    BY <2>2, SettingIs
  <2>5. PICK a, c, s : a = demand[d] /\ c = CoveredOn(d) /\ s = RSub(a, c)
    OBVIOUS
  <2>6. s \in Rats
    BY <2>4, <2>5, CoveredIs, Closed
  <2>7. RMax(Zero, s) \in Rats
    BY <2>6, ZeroIs, Closed
  <2> QED BY <2>3, <2>4, <2>5, <2>7 DEF Uncovered
<1>6. PICK f : f = Usd(points)
  OBVIOUS
<1>7. DOMAIN points = 1..n
  BY <1>3
<1>8. f = [i \in 1..n |-> f[i]] /\ \A i \in 1..n : f[i] \in Rats
  BY <1>5, <1>6, <1>7 DEF Usd
<1> QED BY <1>4, <1>6, <1>8, PercentileIs

LEMMA ReturnedIs ==
    ASSUME AccountOK, NEW points \in SeriesReturned, NEW quoted, Usable(points, quoted)
    PROVE  NearestRankPercentile(Usd(points), config.baselinePercentile) \in Rats
<1>1. /\ config.lookbackDays \in Int /\ config.baselinePercentile \in Int
  BY SettingIs DEF IsConfig
<1>2. Len(points) >= MinBaselineSeriesDays /\ config.lookbackDays > 0
  BY DEF Usable, UsableSeries, ValidBaselineArgs
<1>3. PICK first \in {1, 2}, last \in {config.lookbackDays, config.lookbackDays - 1} : points = Series(first, last)
  BY DEF SeriesReturned
<1>4. first \in Nat \ {0} /\ last \in Int /\ last <= config.lookbackDays
  BY <1>1
<1>5. Len(points) >= 1
  <2>1. PICK n \in Int : points = [i \in 1..n |-> points[i]]
    <3>1. last - first + 1 \in Int
      BY <1>4
    <3> QED BY <1>3, <3>1 DEF Series
  <2>2. Len(points) \in Nat
    <3>1. CASE n \in Nat
      BY <2>1, <3>1, LenIs
    <3>2. CASE n \notin Nat
      <4>1. 1..n = 1..0
        BY <3>2
      <4>2. points = [i \in 1..0 |-> points[i]]
        BY <2>1, <4>1
      <4>3. Len(points) = 0
        BY <4>2, LenIs
      <4> QED BY <4>3
    <3> QED BY <3>1, <3>2
  <2> QED BY <1>2, <2>2, LadderAssumption
<1>6. PICK p : p = config.baselinePercentile
  OBVIOUS
<1>7. NearestRankPercentile(Usd(points), p) \in Rats
  BY <1>1, <1>3, <1>4, <1>5, <1>6, SeriesIs
<1> QED BY <1>6, <1>7

LEMMA BaselineIs ==
    ASSUME AccountOK, NEW points \in SeriesReturned, NEW quoted, Usable(points, quoted), NEW b, b = Baseline(points)
    PROVE  b.lowWater \in Rats /\ (b.stable # Nil => b.stable \in Rats)
<1>1. PICK w : w = NearestRankPercentile(Usd(points), config.baselinePercentile)
  OBVIOUS
<1>2. w \in Rats
  BY <1>1, ReturnedIs
<1>3. PICK u : u = [lowWater |-> w, stable |-> Nil, basis |-> ""]
  OBVIOUS
<1>4. GetUsageBaseline(points, config.baselinePercentile) = u
  BY <1>1, <1>3 DEF GetUsageBaseline
<1>5. CASE source = "aws"
  <2>1. b = u
    BY <1>4, <1>5 DEF Baseline
  <2>2. u.lowWater = w /\ u.stable = Nil
    BY <1>3
  <2> QED BY <1>2, <2>1, <2>2
<1>6. CASE source # "aws"
  <2>1. PICK s, k : s = stable /\ k = source
    OBVIOUS
  <2>2. b = [u EXCEPT !.stable = s, !.basis = k]
    BY <1>4, <1>6, <2>1 DEF Baseline
  <2>3. PICK v : v = [u EXCEPT !.stable = s]
    OBVIOUS
  <2>4. v.lowWater = w /\ v.stable = s /\ DOMAIN v = {"lowWater", "stable", "basis"}
    BY <1>3, <2>3
  <2>5. b = [v EXCEPT !.basis = k]
    BY <2>2, <2>3
  <2>6. b.lowWater = w /\ b.stable = s
    BY <2>4, <2>5
  <2> QED BY <1>2, <2>1, <2>6, SettingIs
<1> QED BY <1>5, <1>6

LEMMA InFlightAre ==
    ASSUME AccountOK
    PROVE  IsFiniteSet(InFlight) /\ \A t \in InFlight : t.amount \in Rats /\ t.rate \in Rats
<1> DEFINE toT == [t \in tranches |-> [layer |-> t.layer, amount |-> t.amount, rate |-> t.rate, id |-> t.id]]
           toC == [c \in Unreflected |-> [layer |-> c.plan, amount |-> Cost(c), rate |-> c.rate, id |-> c.id]]
<1>1. PICK S, U : S = {toT[t] : t \in tranches} /\ U = {toC[c] : c \in Unreflected}
  OBVIOUS
<1>2. Scheduled = S
  BY <1>1 DEF Scheduled
<1>3. InFlight = S \cup (IF source # "residual" THEN {} ELSE U)
  BY <1>1, <1>2 DEF InFlight
<1>4. Unreflected \in SUBSET (ris \cup sps)
  BY DEF Unreflected, Active
<1>5. IsFiniteSet(S) /\ IsFiniteSet(U)
  <2>1. IsFiniteSet(Unreflected)
    BY <1>4, HeldCommitments, FS_Subset
  <2>2. IsFiniteSet(tranches)
    BY DEF AccountOK
  <2> HIDE DEF toT, toC
  <2> QED BY <1>1, <2>1, <2>2, ImageFinite
<1>6. \A t \in S : t.amount \in Rats /\ t.rate \in Rats
  BY <1>1 DEF AccountOK
<1>7. \A t \in U : t.amount \in Rats /\ t.rate \in Rats
  <2>1. \A c \in Unreflected : Cost(c) \in Rats /\ c.rate \in Rats
    BY <1>4, HeldCommitments
  <2> QED BY <1>1, <2>1
<1> HIDE DEF toT, toC
<1>8. IsFiniteSet(InFlight)
  BY <1>3, <1>5, FS_Union
<1>9. \A t \in InFlight : t.amount \in Rats /\ t.rate \in Rats
  BY <1>3, <1>6, <1>7
<1> QED BY <1>8, <1>9

LEMMA RatesQuoted ==
    ASSUME NEW quoted \in Quotes, NEW r, r = FetchLayerRates(quoted)
    PROVE  DOMAIN r \subseteq RateLayers /\ \A l \in DOMAIN r : r[l] \in Rats
<1>1. DOMAIN r = {k \in RateLayers : quoted[k] # Nil}
  BY DEF FetchLayerRates
<1>2. ASSUME NEW l \in DOMAIN r PROVE r[l] \in Rats
  <2>1. r[l] = quoted[l] /\ l \in RateLayers /\ quoted[l] # Nil
    BY <1>1 DEF FetchLayerRates
  <2>2. InLowestTerms(quoted[l])
    BY <2>1, LadderAssumption
  <2> QED BY <2>1, <2>2, LowestIsRat
<1> QED BY <1>1, <1>2

LEMMA InputIs ==
    ASSUME AccountOK, NEW points \in SeriesReturned, NEW quoted \in Quotes, Usable(points, quoted),
           NEW in, in = Input(points, quoted)
    PROVE  IsInput(in) /\ in.config = config
<1>1. in.config = config /\ in.layers = SupportedLayers /\ in.states = States
      /\ in.rates = FetchLayerRates(quoted) /\ in.inFlight = InFlight /\ in.baseline = Baseline(points)
  BY DEF Input
<1>2. /\ config.targetCoveragePct \in Int /\ config.maxActionsPerRun \in Int
      /\ config.bufferFraction \in Rats
      /\ config.maxHourlyCommitPerRun # Nil => config.maxHourlyCommitPerRun \in Rats
  BY SettingIs, LowestIsRat DEF IsConfig
<1>3. PICK b : b = Baseline(points)
  OBVIOUS
<1>4. b.lowWater \in Rats /\ (b.stable # Nil => b.stable \in Rats)
  BY <1>3, BaselineIs
<1>5. PICK r : r = FetchLayerRates(quoted)
  OBVIOUS
<1>6. DOMAIN r \subseteq RateLayers /\ \A l \in DOMAIN r : r[l] \in Rats
  BY <1>5, RatesQuoted
<1>7. \A l \in AwsLayers : in.states[l].existing \in Rats /\ in.states[l].expiring \in Rats
  BY <1>1, StatesAre
<1>8. IsFiniteSet(in.inFlight) /\ \A t \in in.inFlight : t.amount \in Rats /\ t.rate \in Rats
  BY <1>1, InFlightAre
<1>9. in.baseline = b /\ in.rates = r
  BY <1>1, <1>3, <1>5
<1> QED BY <1>1, <1>2, <1>4, <1>6, <1>7, <1>8, <1>9 DEF IsInput

-----------------------------------------------------------------------------
(* What a run plans.                                                       *)
LimitedBy(p, c) ==
    /\ Priced(p.purchases) /\ \A a \in p.purchases : RLt(Zero, a.gap)
    /\ p.purchases # {} => ValidConfig(c)
    /\ (p.purchases # {} /\ c.maxHourlyCommitPerRun # Nil) =>
         RLe(TotalGap(p.purchases), c.maxHourlyCommitPerRun)
    /\ (p.purchases # {} \/ p.reshapes # {}) =>
         Cardinality(p.purchases) + Cardinality(p.reshapes) <= c.maxActionsPerRun
AccountedBy(p, c) ==
    LET quoted == {h \in p.holds : h.od # Zero}
        total  == RAdd(RSum([a \in p.purchases |-> a.od]), RSum([h \in quoted |-> h.od]))
    IN  (p.purchases \cup quoted # {} /\ c.maxHourlyCommitPerRun = Nil) => total = p.gap

LEMMA NothingPriced == Priced({})
BY FS_EmptySet DEF Priced, Layered, OneEach

LEMMA EmptyPlan ==
    ASSUME NEW p, p.purchases = {}, p.reshapes = {}, \A h \in p.holds : h.od = Zero, NEW c
    PROVE  LimitedBy(p, c) /\ AccountedBy(p, c)
<1>1. PICK Q : Q = {h \in p.holds : h.od # Zero}
  OBVIOUS
<1>2. Q = {} /\ p.purchases \cup Q = {}
  BY <1>1
<1>3. AccountedBy(p, c)
  BY <1>1, <1>2 DEF AccountedBy
<1>4. LimitedBy(p, c)
  BY NothingPriced DEF LimitedBy
<1> QED BY <1>3, <1>4

LEMMA AllocateIsLimited ==
    ASSUME NEW in, IsInput(in), NEW p, p = Allocate(in)
    PROVE  LimitedBy(p, in.config) /\ AccountedBy(p, in.config)
<1>1. CASE p.purchases = {} /\ p.reshapes = {} /\ p.holds = {}
  BY <1>1, EmptyPlan
<1>2. CASE IsAccepted(in) /\ p.purchases = {} /\ p.reshapes = Reshapes(in) /\ \A h \in p.holds : h.od = Zero
  <2>1. PICK R : R = Reshapes(in)
    OBVIOUS
  <2>2. Cardinality(R) \in 0..1 /\ in.config.maxActionsPerRun \in Nat \ {0}
    BY <1>2, <2>1, ReshapesAre
  <2>3. Cardinality({}) = 0
    BY FS_EmptySet
  <2>4. Cardinality(p.purchases) + Cardinality(p.reshapes) <= in.config.maxActionsPerRun
    <3>1. Cardinality(p.purchases) = 0 /\ Cardinality(p.reshapes) = Cardinality(R)
      BY <1>2, <2>1, <2>3
    <3> QED BY <2>2, <3>1
  <2>5. LimitedBy(p, in.config)
    BY <1>2, <2>4, NothingPriced DEF LimitedBy
  <2>6. {h \in p.holds : h.od # Zero} = {}
    BY <1>2
  <2>7. AccountedBy(p, in.config)
    <3>1. PICK Q : Q = {h \in p.holds : h.od # Zero}
      OBVIOUS
    <3>2. p.purchases \cup Q = {}
      BY <1>2, <2>6, <3>1
    <3> QED BY <3>1, <3>2 DEF AccountedBy
  <2> QED BY <2>5, <2>7
<1>3. CASE /\ IsAccepted(in) /\ Gap(in) \in Rats /\ RLe(Zero, Gap(in))
           /\ p = Built(in, Gap(in)) /\ p.gap = Gap(in)
  <2>1. PICK g : g = Gap(in)
    OBVIOUS
  <2>2. g \in Rats /\ RLe(Zero, g) /\ p = Built(in, g) /\ p.gap = g /\ IsAccepted(in)
    BY <1>3, <2>1
  <2>3. /\ Priced(p.purchases) /\ \A a \in p.purchases : RLt(Zero, a.gap)
        /\ in.config.maxHourlyCommitPerRun # Nil => RLe(TotalGap(p.purchases), in.config.maxHourlyCommitPerRun)
        /\ Cardinality(p.purchases) + Cardinality(p.reshapes) <= in.config.maxActionsPerRun
    BY <2>2, BuiltIsLimited
  <2>4. ValidConfig(in.config)
    BY <2>2 DEF IsAccepted, ValidInput
  <2>5. LimitedBy(p, in.config)
    BY <2>3, <2>4 DEF LimitedBy
  <2>6. PICK Q : Q = {h \in p.holds : h.od # Zero}
    OBVIOUS
  <2>7. ASSUME in.config.maxHourlyCommitPerRun = Nil
        PROVE  RAdd(RSum([a \in p.purchases |-> a.od]), RSum([h \in Q |-> h.od])) = p.gap
    BY <2>2, <2>6, <2>7, BuiltIsWhole
  <2>8. AccountedBy(p, in.config)
    BY <2>6, <2>7 DEF AccountedBy
  <2> QED BY <2>5, <2>8
<1> QED BY <1>1, <1>2, <1>3, AllocateIs

-----------------------------------------------------------------------------
(* The tranches of one allocation.                                         *)
LEMMA RampIs ==
    ASSUME NEW c, IsConfig(c), ValidConfig(c), NEW r, r = c.ramp
    PROVE  /\ Len(r) \in Nat \ {0} /\ DOMAIN r = 1..Len(r)
           /\ \A i \in DOMAIN r : r[i].fraction \in Rats /\ RLe(Zero, r[i].fraction)
<1>1. r \in Seq(Range(r)) /\ \A i \in DOMAIN r : InLowestTerms(r[i].fraction)
  BY DEF IsConfig
<1>2. Len(r) \in Nat /\ DOMAIN r = 1..Len(r)
  BY <1>1, LenProperties
<1>3. r # <<>> /\ \A i \in DOMAIN r : RLt(Zero, r[i].fraction)
  BY DEF ValidConfig, ValidRamp
<1>4. Len(r) # 0
  BY <1>1, <1>3, EmptySeq
<1>5. ASSUME NEW i \in DOMAIN r PROVE r[i].fraction \in Rats /\ RLe(Zero, r[i].fraction)
  <2>1. PICK f : f = r[i].fraction
    OBVIOUS
  <2>2. f \in Rats /\ RLt(Zero, f)
    BY <1>1, <1>3, <2>1, LowestIsRat
  <2> QED BY <2>1, <2>2, ZeroIs, LtLe
<1> QED BY <1>2, <1>4, <1>5

(* The steps of a that buy something.                                      *)
Rungs(in, a) == {i \in DOMAIN in.config.ramp : StepAmounts(a.gap, in.config.ramp)[i] # Zero}
LEMMA TranchesOf ==
    ASSUME NEW in, IsConfig(in.config), ValidConfig(in.config), NEW a, a.gap \in Rats, RLt(Zero, a.gap),
           NEW id, NEW run, NEW now, NEW T, T = {BuildTranche(in, a, i, id[i], run, now) : i \in Rungs(in, a)},
           NEW h, h = [t \in T |-> t.amount]
    PROVE  /\ IsFiniteSet(T) /\ RSum(h) = a.gap
           /\ \A i \in Rungs(in, a) :
                StepAmounts(a.gap, in.config.ramp)[i] \in Rats /\ RLe(Zero, StepAmounts(a.gap, in.config.ramp)[i])
<1>1. PICK r, f, g : r = in.config.ramp /\ g = a.gap /\ f = StepAmounts(g, r)
  OBVIOUS
<1>2. /\ Len(r) \in Nat \ {0} /\ DOMAIN r = 1..Len(r)
      /\ \A i \in DOMAIN r : r[i].fraction \in Rats /\ RLe(Zero, r[i].fraction)
  BY <1>1, RampIs
<1>3. g \in Rats /\ RLe(Zero, g)
  BY <1>1, ZeroIs, LtLe
<1>4. /\ \A i \in DOMAIN r : f[i] \in Rats /\ RLe(Zero, f[i])
      /\ PartOf(f, DOMAIN r) = g
  BY <1>1, <1>2, <1>3, StepsAddUp
<1>5. PICK D, R : D = DOMAIN r /\ R = Rungs(in, a)
  OBVIOUS
<1>6. R = {i \in D : f[i] # Zero} /\ IsFiniteSet(D)
  <2>1. R = {i \in D : f[i] # Zero}
    BY <1>1, <1>5 DEF Rungs
  <2>2. PICK n \in Nat : n = Len(r)
    BY <1>2
  <2>3. D = 1..n
    BY <1>2, <1>5, <2>2
  <2> QED BY <2>1, <2>3, FS_Interval
<1>7. Amounts(f, D) /\ Amounts(f, R)
  BY <1>4, <1>5, <1>6, FS_Subset DEF Amounts
<1>8. PartOf(f, R) = g
  <2>1. PartOf(f, D) = PartOf(f, R)
    BY <1>6, <1>7, PartDropsZero
  <2> QED BY <1>4, <1>5, <2>1
<1> DEFINE to == [i \in R |-> BuildTranche(in, a, i, id[i], run, now)]
<1>9. T = {to[i] : i \in R}
  BY <1>5
<1>10. \A i \in R : to[i].amount = f[i] /\ to[i].step = i
  BY <1>1, <1>5 DEF BuildTranche
<1>12. \A i \in R : h[to[i]] = f[i]
  BY <1>9, <1>10
<1>13. \A i, j \in R : to[i] = to[j] => i = j
  BY <1>10
<1> HIDE DEF to
<1>14. IsFiniteSet(T)
  <2>1. IsFiniteSet(R)
    BY <1>7 DEF Amounts
  <2> QED BY <1>9, <2>1, ImageFinite
<1>15. PartOf(h, T) = PartOf(f, R)
  <2>1. PICK k, J : k = h /\ J = T
    OBVIOUS
  <2>2. (\A i \in R : k[to[i]] = f[i]) /\ J = {to[i] : i \in R}
    BY <1>9, <1>12, <2>1
  <2>3. PartOf(k, J) = PartOf(f, R)
    BY <1>7, <1>13, <2>2, PartRenamed
  <2> QED BY <2>1, <2>3
<1>16. RSum(h) = PartOf(h, T)
  BY SumIsPart
<1> QED BY <1>1, <1>4, <1>5, <1>6, <1>8, <1>14, <1>15, <1>16

(* The tranches of all allocations, under the identifiers a run gives.     *)
NewIDs(in, P, run) == [s \in Steps(in, P) |-> <<run, s[1].layer, s[2]>>]
NewTranches(in, P, newID, run, now) ==
    IF ValidTrancheInput(in, P) /\ ValidIDs(newID) THEN BuildTranches(in, P, newID, run, now) ELSE {}

LEMMA IDsAreValid ==
    ASSUME NEW in, IsConfig(in.config), NEW P, Priced(P), P # {} => ValidConfig(in.config), NEW run \in Nat,
           NEW newID, newID = NewIDs(in, P, run)
    PROVE  ValidIDs(newID)
<1>1. PICK S : S = Steps(in, P)
  OBVIOUS
<1>2. newID = [s \in S |-> <<run, s[1].layer, s[2]>>]
  BY <1>1 DEF NewIDs
<1>3. S \subseteq P \X DOMAIN in.config.ramp
  BY <1>1 DEF Steps
<1>4. ASSUME NEW s \in S
      PROVE  s[1] \in P /\ s[2] \in Nat /\ s[1].layer \in LayerType /\ s = <<s[1], s[2]>>
  <2>1. s[1] \in P /\ s[2] \in DOMAIN in.config.ramp /\ s = <<s[1], s[2]>>
    BY <1>3
  <2>2. PICK r : r = in.config.ramp
    OBVIOUS
  <2>3. Len(r) \in Nat \ {0} /\ DOMAIN r = 1..Len(r)
    BY <2>1, <2>2, RampIs
  <2>4. s[2] \in Nat
    BY <2>1, <2>2, <2>3
  <2>5. s[1].layer \in LayerType
    BY <2>1, LayersAre DEF Priced, Layered
  <2> QED BY <2>1, <2>4, <2>5
<1>5. Nil \notin Range(newID)
  <2>1. ASSUME NEW s \in S PROVE newID[s] # Nil
    <3>1. newID[s] \in Nat \X LayerType \X Nat
      BY <1>2, <1>4
    <3> QED BY <3>1, LadderAssumption
  <2> QED BY <1>2, <2>1 DEF Range
<1>6. IsInjective(newID)
  <2>1. ASSUME NEW s \in S, NEW t \in S, newID[s] = newID[t] PROVE s = t
    <3>1. <<run, s[1].layer, s[2]>> = <<run, t[1].layer, t[2]>>
      BY <1>2, <2>1
    <3>2. s[1].layer = t[1].layer /\ s[2] = t[2]
      BY <3>1
    <3>3. s[1] = t[1]
      BY <1>4, <3>2 DEF Priced, Layered, OneEach
    <3> QED BY <1>4, <3>2, <3>3
  <2> QED BY <1>2, <2>1 DEF IsInjective
<1> QED BY <1>5, <1>6 DEF ValidIDs

AmountOn(N, l) == RSum([t \in {x \in N : x.layer = l} |-> t.amount])
LEMMA TranchesAre ==
    ASSUME NEW in, IsConfig(in.config), NEW P, Priced(P), \A a \in P : RLt(Zero, a.gap),
           P # {} => ValidConfig(in.config),
           NEW run \in Nat, NEW now, NEW newID, newID = NewIDs(in, P, run),
           NEW N, N = NewTranches(in, P, newID, run, now)
    PROVE  /\ IsFiniteSet(N)
           /\ \A t \in N : /\ t.layer \in RateLayers /\ t.run = run
                           /\ t.amount \in Rats /\ RLe(Zero, t.amount) /\ t.rate \in Rats /\ ValidRate(t.rate)
           /\ \A l : AmountOn(N, l) = TotalGap({a \in P : a.layer = l})
<1> DEFINE Of(a) == {BuildTranche(in, a, i, newID[<<a, i>>], run, now) : i \in Rungs(in, a)}
<1>1. N = {BuildTranche(in, s[1], s[2], newID[s], run, now) : s \in Steps(in, P)}
  <2>1. P # {} => ValidTrancheInput(in, P)
    BY DEF ValidTrancheInput, Priced
  <2>2. P = {} => Steps(in, P) = {}
    BY DEF Steps
  <2>3. ValidIDs(newID)
    BY IDsAreValid
  <2>4. DOMAIN newID = Steps(in, P)
    BY DEF NewIDs
  <2>5. BuildTranches(in, P, newID, run, now) = {BuildTranche(in, s[1], s[2], newID[s], run, now) : s \in Steps(in, P)}
    BY <2>4 DEF BuildTranches
  <2>6. CASE P # {}
    BY <2>1, <2>3, <2>5, <2>6 DEF NewTranches
  <2>7. CASE P = {}
    <3>1. BuildTranches(in, P, newID, run, now) = {}
      BY <2>2, <2>5, <2>7
    <3>2. {BuildTranche(in, s[1], s[2], newID[s], run, now) : s \in Steps(in, P)} = {}
      BY <2>2, <2>7
    <3> QED BY <3>1, <3>2 DEF NewTranches
  <2> QED BY <2>6, <2>7
<1>2. Steps(in, P) = {s \in P \X DOMAIN in.config.ramp : s[2] \in Rungs(in, s[1])}
  BY DEF Steps, Rungs
<1>3. N = UNION {Of(a) : a \in P}
  <2>1. ASSUME NEW t \in N PROVE \E a \in P : t \in Of(a)
    <3>1. PICK s \in Steps(in, P) : t = BuildTranche(in, s[1], s[2], newID[s], run, now)
      BY <1>1
    <3>2. s[1] \in P /\ s[2] \in Rungs(in, s[1]) /\ s = <<s[1], s[2]>>
      BY <1>2
    <3> QED BY <3>1, <3>2
  <2>2. ASSUME NEW a \in P, NEW t \in Of(a) PROVE t \in N
    <3>1. PICK i \in Rungs(in, a) : t = BuildTranche(in, a, i, newID[<<a, i>>], run, now)
      OBVIOUS
    <3>2. <<a, i>> \in Steps(in, P)
      BY <1>2 DEF Rungs
    <3>3. PICK s \in Steps(in, P) : s = <<a, i>>
      BY <3>2
    <3>4. s[1] = a /\ s[2] = i
      BY <3>3
    <3>5. t = BuildTranche(in, s[1], s[2], newID[s], run, now)
      BY <3>1, <3>3, <3>4
    <3> QED BY <1>1, <3>5
  <2> QED BY <2>1, <2>2
<1>4. ASSUME NEW a \in P
      PROVE  /\ IsFiniteSet(Of(a)) /\ RSum([t \in Of(a) |-> t.amount]) = a.gap
             /\ \A t \in Of(a) : /\ t.layer = a.layer /\ t.run = run /\ t.rate = a.rate
                                 /\ t.amount \in Rats /\ RLe(Zero, t.amount)
  <2>1. PICK id : id = [i \in Rungs(in, a) |-> newID[<<a, i>>]]
    OBVIOUS
  <2>2. PICK T : T = Of(a)
    OBVIOUS
  <2>3. T = {BuildTranche(in, a, i, id[i], run, now) : i \in Rungs(in, a)}
    BY <2>1, <2>2
  <2>4. ValidConfig(in.config) /\ a.gap \in Rats /\ RLt(Zero, a.gap)
    BY DEF Priced
  <2>5. /\ IsFiniteSet(T) /\ RSum([t \in T |-> t.amount]) = a.gap
        /\ \A i \in Rungs(in, a) :
              StepAmounts(a.gap, in.config.ramp)[i] \in Rats /\ RLe(Zero, StepAmounts(a.gap, in.config.ramp)[i])
    <3>1. PICK f : f = id
      OBVIOUS
    <3>2. T = {BuildTranche(in, a, i, f[i], run, now) : i \in Rungs(in, a)}
      BY <2>3, <3>1
    <3>3. IsFiniteSet(T) /\ RSum([t \in T |-> t.amount]) = a.gap
      <4>1. PICK h : h = [t \in T |-> t.amount]
        OBVIOUS
      <4>2. IsFiniteSet(T)
        BY <2>4, <3>2, <4>1, TranchesOf
      <4>3. RSum(h) = a.gap
        BY <2>4, <3>2, <4>1, TranchesOf
      <4> QED BY <4>1, <4>2, <4>3
    <3>4. \A i \in Rungs(in, a) :
              StepAmounts(a.gap, in.config.ramp)[i] \in Rats /\ RLe(Zero, StepAmounts(a.gap, in.config.ramp)[i])
      <4>1. PICK h : h = [t \in T |-> t.amount]
        OBVIOUS
      <4> QED BY <2>4, <3>2, <4>1, TranchesOf, Zenon
    <3> QED BY <3>3, <3>4
  <2>6. \A i \in Rungs(in, a) : \A d :
          LET t == BuildTranche(in, a, i, d, run, now)
          IN  t.layer = a.layer /\ t.run = run /\ t.rate = a.rate /\ t.amount = StepAmounts(a.gap, in.config.ramp)[i]
    BY DEF BuildTranche
  <2>7. \A t \in T : /\ t.layer = a.layer /\ t.run = run /\ t.rate = a.rate
                     /\ t.amount \in Rats /\ RLe(Zero, t.amount)
    BY <2>3, <2>5, <2>6
  <2> QED BY <2>2, <2>5, <2>7
<1> HIDE DEF Of
<1>5. IsFiniteSet(N)
  <2> DEFINE G == {A \in SUBSET P : IsFiniteSet(UNION {Of(a) : a \in A})}
  <2>1. {} \in G
    <3>1. UNION {Of(a) : a \in {}} = {}
      OBVIOUS
    <3> QED BY <3>1, FS_EmptySet
  <2>2. ASSUME NEW A \in SUBSET P, NEW x \in P \ A, A \in G PROVE A \cup {x} \in G
    <3>1. UNION {Of(a) : a \in A \cup {x}} = (UNION {Of(a) : a \in A}) \cup Of(x)
      OBVIOUS
    <3>2. PICK U, V : U = UNION {Of(a) : a \in A} /\ V = Of(x)
      OBVIOUS
    <3>3. IsFiniteSet(U) /\ IsFiniteSet(V)
      BY <1>4, <2>2, <3>2
    <3>4. IsFiniteSet(U \cup V)
      BY <3>3, FS_Union
    <3> QED BY <3>1, <3>2, <3>4
  <2>3. IsFiniteSet(P)
    BY DEF Priced, Layered
  <2>4. P \in G
    <3> HIDE DEF G
    <3> QED BY <2>1, <2>2, <2>3, FiniteInduct
  <2> QED BY <1>3, <2>4
<1>6. \A t \in N : /\ t.layer \in RateLayers /\ t.run = run
                  /\ t.amount \in Rats /\ RLe(Zero, t.amount) /\ t.rate \in Rats /\ ValidRate(t.rate)
  <2>1. ASSUME NEW a \in P PROVE a.layer \in RateLayers /\ a.rate \in Rats /\ ValidRate(a.rate)
    BY DEF Priced
  <2> QED BY <1>3, <1>4, <2>1
<1>7. ASSUME NEW l
      PROVE  RSum([t \in {x \in N : x.layer = l} |-> t.amount]) = TotalGap({a \in P : a.layer = l})
  <2>1. PICK M, A : M = {x \in N : x.layer = l} /\ A = {a \in P : a.layer = l}
    OBVIOUS
  <2>2. CASE A = {}
    <3>1. M = {}
      <4>1. ASSUME NEW x \in M PROVE FALSE
        <5>1. PICK a \in P : x \in Of(a)
          BY <1>3, <2>1
        <5>2. a \in A
          BY <1>4, <2>1, <5>1
        <5> QED BY <2>2, <5>2
      <4> QED BY <4>1
    <3>2. RSum([t \in {} |-> t.amount]) = Zero
      <4>1. PICK f : f = [t \in {} |-> t.amount]
        OBVIOUS
      <4>2. Amounts(f, {})
        BY FS_EmptySet DEF Amounts
      <4>3. RSum(f) = PartOf(f, {})
        BY <4>1, SumIsPart
      <4> QED BY <4>1, <4>2, <4>3, PartTakes
    <3>3. TotalGap({}) = Zero
      BY NothingPriced, TotalIs
    <3>4. [t \in M |-> t.amount] = [t \in {} |-> t.amount]
      BY <3>1
    <3> QED BY <2>1, <2>2, <3>2, <3>3, <3>4
  <2>3. CASE A # {}
    <3>1. PICK a \in P : a.layer = l /\ A = {a}
      BY <2>1, <2>3 DEF Priced, Layered, OneEach
    <3>2. M = Of(a)
      <4>1. \A b \in P : b.layer = l => b = a
        BY <3>1 DEF Priced, Layered, OneEach
      <4>2. ASSUME NEW x \in M PROVE x \in Of(a)
        <5>1. PICK b \in P : x \in Of(b)
          BY <1>3, <2>1
        <5>2. b.layer = l
          BY <1>4, <2>1, <5>1
        <5> QED BY <4>1, <5>1, <5>2
      <4>3. ASSUME NEW x \in Of(a) PROVE x \in M
        <5>1. x \in N /\ x.layer = l
          BY <1>3, <1>4, <3>1
        <5> QED BY <2>1, <5>1
      <4> QED BY <4>2, <4>3
    <3>3. RSum([t \in M |-> t.amount]) = a.gap
      BY <1>4, <3>2
    <3>4. TotalGap(A) = a.gap
      <4>1. PICK f : f = [b \in A |-> b.gap]
        OBVIOUS
      <4>2. Priced(A)
        BY <2>1, PartPriced
      <4>3. Amounts(f, A) /\ TotalGap(A) = PartOf(f, A)
        BY <4>1, <4>2, TotalIs
      <4>4. a \in A /\ A \ {a} = {} /\ f[a] = a.gap
        BY <3>1, <4>1
      <4>5. PartOf(f, A) = RAdd(f[a], PartOf(f, A \ {a}))
        BY <4>3, <4>4, PartTakes
      <4>6. PartOf(f, {}) = Zero
        BY <4>3, PartTakes
      <4>7. PartOf(f, A) = RAdd(a.gap, Zero)
        BY <4>4, <4>5, <4>6
      <4>8. a.gap \in Rats
        BY DEF Priced
      <4> QED BY <4>3, <4>7, <4>8, AddZero
    <3> QED BY <2>1, <3>3, <3>4
  <2> QED BY <2>2, <2>3
<1>8. \A l : AmountOn(N, l) = TotalGap({a \in P : a.layer = l})
  BY <1>7 DEF AmountOn
<1> QED BY <1>5, <1>6, <1>8

-----------------------------------------------------------------------------
(* The inductive invariant.                                                *)
PlanOK == LimitedBy(plan, config) /\ AccountedBy(plan, config)
LadderInv == AccountOK /\ PlanOK /\ TranchesAddUp

LEMMA NoPlanIs ==
    /\ NoPlan.purchases = {} /\ NoPlan.reshapes = {} /\ \A h \in NoPlan.holds : h.od = Zero
    /\ Failed.purchases = {} /\ Failed.reshapes = {} /\ \A h \in Failed.holds : h.od = Zero
<1>1. PICK z : z = Zero
  OBVIOUS
<1>2. Failed = [ok |-> FALSE, gap |-> z, purchases |-> {}, reshapes |-> {}, holds |-> {}]
  BY <1>1 DEF Failed
<1>3. PICK f : f = Failed
  OBVIOUS
<1>4. f.purchases = {} /\ f.reshapes = {} /\ f.holds = {} /\ DOMAIN f = {"ok", "gap", "purchases", "reshapes", "holds"}
  BY <1>2, <1>3
<1>5. PICK n : n = [f EXCEPT !.ok = TRUE]
  OBVIOUS
<1>6. n.purchases = {} /\ n.reshapes = {} /\ n.holds = {}
  BY <1>4, <1>5
<1>7. NoPlan = n
  BY <1>3, <1>5 DEF NoPlan
<1> QED BY <1>3, <1>4, <1>6, <1>7

LEMMA NoPlanOK == ASSUME NEW c PROVE LimitedBy(NoPlan, c) /\ AccountedBy(NoPlan, c) /\ LimitedBy(Failed, c) /\ AccountedBy(Failed, c)
<1>1. PICK p, q : p = NoPlan /\ q = Failed
  OBVIOUS
<1>2. LimitedBy(p, c) /\ AccountedBy(p, c)
  BY <1>1, NoPlanIs, EmptyPlan
<1>3. LimitedBy(q, c) /\ AccountedBy(q, c)
  BY <1>1, NoPlanIs, EmptyPlan
<1> QED BY <1>1, <1>2, <1>3

LEMMA LadderStarts == Init => LadderInv
<1> SUFFICES ASSUME Init PROVE LadderInv
  OBVIOUS
<1>1. AccountOK
  BY LadderAssumption, FS_EmptySet DEF Init, AccountOK
<1>2. PlanOK
  BY NoPlanOK DEF Init, PlanOK
<1>3. TranchesAddUp
  BY DEF Init, TranchesAddUp
<1> QED BY <1>1, <1>2, <1>3 DEF LadderInv

(* A step after which no plan is in hand.                                  *)
LEMMA NoPlanStep ==
    ASSUME LadderInv, AccountOK', plan' = NoPlan PROVE LadderInv'
<1>1. TranchesAddUp'
  BY DEF TranchesAddUp
<1>2. PlanOK'
  BY NoPlanOK DEF PlanOK
<1> QED BY <1>1, <1>2 DEF LadderInv

LEMMA TickKeeps == ASSUME LadderInv, Tick, UNCHANGED setting PROVE LadderInv'
<1>1. AccountOK'
  BY LadderAssumption DEF LadderInv, AccountOK, Tick
<1> QED BY <1>1, NoPlanStep DEF Tick

LEMMA ReshapeKeeps ==
    ASSUME LadderInv, NEW c, NEW n, NEW failed, ReshapeBuffer(c, n, failed), UNCHANGED setting PROVE LadderInv'
<1>1. AccountOK'
  BY DEF LadderInv, AccountOK, ReshapeBuffer
<1> QED BY <1>1, NoPlanStep DEF ReshapeBuffer

LEMMA FireKeeps == ASSUME LadderInv, NEW l, Fire(l), UNCHANGED setting PROVE LadderInv'
<1> DEFINE due == {x \in Due(l) : MayPurchase(l, x.amount)}
           to == [t \in due |-> Bought(t)]
<1>1. PICK B : B = {to[t] : t \in due}
  OBVIOUS
<1>2. due \in SUBSET tranches /\ tranches' \in SUBSET tranches
  BY DEF Fire, Due
<1>3. IsFiniteSet(due) /\ IsFiniteSet(tranches')
  BY <1>2, FS_Subset DEF LadderInv, AccountOK
<1>4. IsFiniteSet(B)
  <2> HIDE DEF due, to
  <2> QED BY <1>1, <1>3, ImageFinite
<1>5. ASSUME NEW c \in B
      PROVE c.plan \in RateLayers /\ c.hourly \in Rats /\ RLe(Zero, c.hourly) /\ c.rate \in Rats /\ RLt(Zero, c.rate)
  <2>1. PICK t \in due : c = Bought(t)
    BY <1>1
  <2>2. t.layer \in RateLayers /\ t.amount \in Rats /\ RLe(Zero, t.amount) /\ t.rate \in Rats /\ ValidRate(t.rate)
    BY <1>2 DEF LadderInv, AccountOK
  <2>3. c.plan = t.layer /\ c.hourly = Normalize(t.amount) /\ c.rate = t.rate
    BY <2>1 DEF Bought
  <2>4. PICK a, h : a = t.amount /\ h = RFloor(a, SPPrecision)
    OBVIOUS
  <2>5. h \in Rats /\ RLe(Zero, h)
    BY <2>2, <2>4, FloorIs, LadderAssumption
  <2>6. c.hourly = h
    BY <2>3, <2>4 DEF Normalize
  <2> QED BY <2>2, <2>3, <2>5, <2>6 DEF ValidRate
<1>6. sps' \in {sps, sps \cup B}
  BY <1>1 DEF Fire
<1>7. IsFiniteSet(sps')
  BY <1>4, <1>6, FS_Union DEF LadderInv, AccountOK
<1>8. \A c \in sps' : c.plan \in RateLayers /\ c.hourly \in Rats /\ RLe(Zero, c.hourly) /\ c.rate \in Rats /\ RLt(Zero, c.rate)
  BY <1>5, <1>6 DEF LadderInv, AccountOK
<1> HIDE DEF due, to
<1>9. AccountOK'
  BY <1>2, <1>3, <1>7, <1>8 DEF LadderInv, AccountOK, Fire
<1> QED BY <1>9, NoPlanStep DEF Fire

LEMMA RunKeeps ==
    ASSUME LadderInv, NEW points \in SeriesReturned, NEW quoted \in Quotes, NEW in, in = Input(points, quoted),
           Run(in, Usable(points, quoted)), UNCHANGED setting
    PROVE  LadderInv'
<1>1. PICK p : p = IF Usable(points, quoted) THEN Allocate(in) ELSE Failed
  OBVIOUS
<1>2. plan' = p /\ runs' = runs + 1 /\ day' = day /\ ris' = ris /\ sps' = sps /\ setting' = setting
  BY <1>1 DEF Run
<1>3. config' = config /\ in.config = config /\ IsConfig(config)
  BY <1>2, SettingIs DEF LadderInv, config, Input
<1>4. LimitedBy(p, config) /\ AccountedBy(p, config)
  <2>1. CASE Usable(points, quoted)
    <3>1. IsInput(in) /\ in.config = config /\ p = Allocate(in)
      BY <1>1, <2>1, InputIs DEF LadderInv
    <3>2. LimitedBy(p, in.config) /\ AccountedBy(p, in.config)
      BY <3>1, AllocateIsLimited
    <3> QED BY <3>1, <3>2
  <2>2. CASE ~Usable(points, quoted)
    BY <1>1, <2>2, NoPlanOK
  <2> QED BY <2>1, <2>2
<1>5. PICK P, ids, N : /\ P = p.purchases /\ ids = NewIDs(in, P, runs)
                       /\ N = NewTranches(in, P, ids, runs, day)
  OBVIOUS
<1>6. tranches' = tranches \cup N
  BY <1>2, <1>5 DEF Run, NewIDs, NewTranches
<1>7. runs \in Nat /\ \A t \in tranches : t.run \in 0..(runs - 1)
  BY DEF LadderInv, AccountOK
<1>8. Priced(P) /\ (\A a \in P : RLt(Zero, a.gap)) /\ (P # {} => ValidConfig(in.config))
  BY <1>3, <1>4, <1>5 DEF LimitedBy
<1>9. /\ IsFiniteSet(N)
      /\ \A t \in N : /\ t.layer \in RateLayers /\ t.run = runs
                      /\ t.amount \in Rats /\ RLe(Zero, t.amount) /\ t.rate \in Rats /\ ValidRate(t.rate)
      /\ \A l : AmountOn(N, l) = TotalGap({a \in P : a.layer = l})
  <2>1. PICK c : c = in.config
    OBVIOUS
  <2>2. IsConfig(in.config) /\ (P # {} => ValidConfig(in.config)) /\ runs \in Nat
    BY <1>3, <1>7, <1>8
  <2>3. IsFiniteSet(N)
    BY <1>5, <1>8, <2>2, TranchesAre
  <2>4. \A t \in N : /\ t.layer \in RateLayers /\ t.run = runs
                      /\ t.amount \in Rats /\ RLe(Zero, t.amount) /\ t.rate \in Rats /\ ValidRate(t.rate)
    BY <1>5, <1>8, <2>2, TranchesAre
  <2>5. \A l : AmountOn(N, l) = TotalGap({a \in P : a.layer = l})
    BY <1>5, <1>8, <2>2, TranchesAre
  <2> QED BY <2>3, <2>4, <2>5
<1>10. AccountOK'
  <2>1. IsFiniteSet(tranches')
    BY <1>6, <1>9, FS_Union DEF LadderInv, AccountOK
  <2>2. ASSUME NEW t \in tranches'
        PROVE  /\ t.layer \in RateLayers /\ t.run \in 0..(runs' - 1)
               /\ t.amount \in Rats /\ RLe(Zero, t.amount) /\ t.rate \in Rats /\ ValidRate(t.rate)
    <3>1. CASE t \in tranches
      BY <1>2, <1>7, <3>1 DEF LadderInv, AccountOK
    <3>2. CASE t \in N
      BY <1>2, <1>7, <1>9, <3>2
    <3> QED BY <1>6, <3>1, <3>2
  <2> QED BY <1>2, <2>1, <2>2 DEF LadderInv, AccountOK
<1>11. PlanOK'
  BY <1>2, <1>3, <1>4 DEF PlanOK
<1>12. TranchesAddUp'
  <2>1. ASSUME NEW l \in LayerType
        PROVE  {x \in tranches' : x.run = runs' - 1 /\ x.layer = l} = {x \in N : x.layer = l}
    <3>1. \A t \in tranches : t.run # runs' - 1
      BY <1>2, <1>7
    <3>2. runs' - 1 = runs
      BY <1>2, <1>7
    <3> QED BY <1>6, <1>9, <3>1, <3>2
  <2>2. ASSUME NEW l \in LayerType
        PROVE  RSum([t \in {x \in tranches' : x.run = runs' - 1 /\ x.layer = l} |-> t.amount])
                 = TotalGap({a \in plan'.purchases : a.layer = l})
    BY <1>2, <1>5, <1>9, <2>1 DEF AmountOn
  <2> QED BY <2>2 DEF TranchesAddUp
<1> QED BY <1>10, <1>11, <1>12 DEF LadderInv

LEMMA LadderKeeps == LadderInv /\ [Next]_vars => LadderInv'
<1> SUFFICES ASSUME LadderInv, [Next]_vars PROVE LadderInv'
  OBVIOUS
<1>1. CASE Next
  <2>1. UNCHANGED setting
    BY <1>1 DEF Next
  <2>2. CASE \E points \in SeriesReturned, quoted \in Quotes :
               \E in \in {Input(points, quoted)} : Run(in, Usable(points, quoted))
    <3>1. PICK points \in SeriesReturned, quoted \in Quotes : Run(Input(points, quoted), Usable(points, quoted))
      BY <2>2
    <3>2. PICK in : in = Input(points, quoted)
      OBVIOUS
    <3>3. Run(in, Usable(points, quoted))
      BY <3>1, <3>2
    <3> QED BY <2>1, <3>2, <3>3, RunKeeps
  <2>3. CASE \E l \in LayerType : Fire(l)
    BY <2>1, <2>3, FireKeeps
  <2>4. CASE \E c \in ReshapeConfigs, n \in 0..1, failed \in FailedExchanges :
               ReshapeBuffer(c, n, failed)
    BY <2>1, <2>4, ReshapeKeeps
  <2>5. CASE Tick
    BY <2>1, <2>5, TickKeeps
  <2> QED BY <1>1, <2>2, <2>3, <2>4, <2>5 DEF Next, Step
<1>2. CASE UNCHANGED vars
  <2>1. AccountOK'
    BY <1>2 DEF LadderInv, AccountOK, vars
  <2>2. PlanOK'
    BY <1>2 DEF LadderInv, PlanOK, vars, config
  <2>3. TranchesAddUp'
    BY <1>2 DEF LadderInv, TranchesAddUp, vars
  <2> QED BY <2>1, <2>2, <2>3 DEF LadderInv
<1> QED BY <1>1, <1>2

LEMMA LadderHolds == Spec => []LadderInv
<1>1. Init => LadderInv
  BY LadderStarts
<1>2. LadderInv /\ [Next]_vars => LadderInv'
  BY LadderKeeps
<1> QED BY <1>1, <1>2, PTL DEF Spec

(* MaxHourlyCommitPerRun and MaxActionsPerRun bound every run.             *)
THEOREM RunsAreLimited == Spec => []WithinRunLimits
<1>1. LadderInv => WithinRunLimits
  BY DEF LadderInv, PlanOK, LimitedBy, WithinRunLimits
<1> QED BY <1>1, LadderHolds, PTL

(* Where no cap cuts the run, what Allocate buys and what it holds with an *)
(* amount add up to the gap.                                               *)
THEOREM NoDollarIsDropped == Spec => []GapIsAccounted
<1>1. LadderInv => GapIsAccounted
  BY DEF LadderInv, PlanOK, AccountedBy, GapIsAccounted
<1> QED BY <1>1, LadderHolds, PTL

(* The tranches BuildTranches left for a layer in the last run add up to   *)
(* what that run allocated to it.                                          *)
THEOREM TranchesBuyThePlan == Spec => []TranchesAddUp
<1>1. LadderInv => TranchesAddUp
  BY DEF LadderInv
<1> QED BY <1>1, LadderHolds, PTL

-----------------------------------------------------------------------------
(* Sums of counts, as RSum is of amounts.                                  *)
Count(f) == FoldFunction(LAMBDA n, sum : n + sum, 0, f)
Counts(F, f, S) == F = [s \in SUBSET S |-> IF s = {} THEN 0 ELSE f[PickOf(s)] + F[s \ {PickOf(s)}]]

LEMMA CountIs == ASSUME NEW f PROVE Count(f) = (CHOOSE F : Counts(F, f, DOMAIN f))[DOMAIN f]
BY DEF Count, FoldFunction, FoldFunctionOnSet, MapThenFoldSet, Counts, PickOf

LEMMA CountsExist == ASSUME NEW S, IsFiniteSet(S), NEW f PROVE \E F : Counts(F, f, S)
<1> DEFINE Adds(F, s) == F[s] = IF s = {} THEN 0 ELSE f[PickOf(s)] + F[s \ {PickOf(s)}]
           UpTo(F, n) == F = [s \in SUBSET S |-> F[s]] /\ \A s \in SUBSET S : Cardinality(s) <= n => Adds(F, s)
           T == {n \in Nat : \E F : UpTo(F, n)}
<1>1. \A s \in SUBSET S : IsFiniteSet(s) /\ Cardinality(s) \in Nat
  BY FS_Subset, FS_CardinalityType
<1>2. 0 \in T
  <2> DEFINE F == [s \in SUBSET S |-> 0]
  <2>1. ASSUME NEW s \in SUBSET S, Cardinality(s) <= 0 PROVE Adds(F, s)
    <3>1. s = {}
      BY <1>1, <2>1, FS_EmptySet
    <3> QED BY <3>1
  <2>2. UpTo(F, 0)
    BY <2>1
  <2> QED BY <2>2
<1>3. ASSUME NEW n \in T PROVE n + 1 \in T
  <2>1. PICK F : UpTo(F, n)
    OBVIOUS
  <2> DEFINE H == [s \in SUBSET S |-> IF Cardinality(s) = n + 1 THEN f[PickOf(s)] + F[s \ {PickOf(s)}] ELSE F[s]]
  <2>2. ASSUME NEW s \in SUBSET S, Cardinality(s) <= n + 1 PROVE Adds(H, s)
    <3>1. CASE s = {}
      <4>1. Cardinality(s) = 0 /\ 0 # n + 1 /\ 0 <= n
        BY <3>1, FS_EmptySet
      <4>2. H[s] = F[s]
        BY <4>1
      <4>3. F[s] = 0
        BY <2>1, <3>1, <4>1
      <4> QED BY <3>1, <4>2, <4>3
    <3>2. CASE s # {}
      <4>1. PICK p : p = PickOf(s)
        OBVIOUS
      <4>2. p \in s
        BY <3>2, <4>1, PickIs
      <4>3. PICK r : r = s \ {p}
        OBVIOUS
      <4>4. r \in SUBSET S /\ Cardinality(r) = Cardinality(s) - 1
        BY <1>1, <4>2, <4>3, FS_RemoveElement
      <4>5. H[r] = F[r]
        BY <1>1, <2>2, <4>4
      <4>6. H[s] = f[p] + F[r]
        <5>1. CASE Cardinality(s) = n + 1
          BY <4>1, <4>3, <5>1
        <5>2. CASE Cardinality(s) # n + 1
          <6>1. Cardinality(s) <= n
            BY <1>1, <2>2, <5>2
          <6>2. Adds(F, s)
            BY <2>1, <6>1
          <6>3. H[s] = F[s]
            BY <5>2
          <6> QED BY <3>2, <4>1, <4>3, <6>2, <6>3
        <5> QED BY <5>1, <5>2
      <4> HIDE DEF H
      <4> QED BY <3>2, <4>1, <4>3, <4>5, <4>6
    <3> QED BY <3>1, <3>2
  <2>3. H = [s \in SUBSET S |-> H[s]]
    OBVIOUS
  <2> HIDE DEF H
  <2>4. UpTo(H, n + 1)
    BY <2>2, <2>3
  <2>5. n + 1 \in Nat
    BY <1>3
  <2> HIDE DEF UpTo
  <2> QED BY <2>4, <2>5
<1> HIDE DEF T
<1>4. T = Nat
  BY <1>2, <1>3, UpFromZero DEF T
<1>5. PICK F : UpTo(F, Cardinality(S))
  <2>1. Cardinality(S) \in T
    BY <1>4, FS_CardinalityType
  <2> QED BY <2>1 DEF T
<1>6. \A s \in SUBSET S : Adds(F, s)
  <2>1. \A s \in SUBSET S : Cardinality(s) <= Cardinality(S)
    BY FS_Subset
  <2> QED BY <1>5, <2>1
<1>7. F = [s \in SUBSET S |-> F[s]]
  BY <1>5
<1> QED BY <1>6, <1>7 DEF Counts

(* Adding to the counts how many of D have each reason adds how many of D  *)
(* have one of the reasons.                                                *)
Among(D, to, s) == {i \in D : to[i] \in s}
GrowsBy(F, G, D, to, s) == F[s] \in Int /\ G[s] = F[s] + Cardinality(Among(D, to, s))

LEMMA CountsGrow ==
    ASSUME NEW S, IsFiniteSet(S), NEW D, IsFiniteSet(D), NEW to, NEW f, NEW g,
           \A x \in S : f[x] \in Int /\ g[x] = f[x] + Cardinality({i \in D : to[i] = x}),
           NEW F, Counts(F, f, S), NEW G, Counts(G, g, S)
    PROVE  GrowsBy(F, G, D, to, S)
<1> DEFINE T == {n \in Nat : \A s \in SUBSET S : Cardinality(s) <= n => GrowsBy(F, G, D, to, s)}
<1>1. \A s \in SUBSET S : IsFiniteSet(s) /\ Cardinality(s) \in Nat
  BY FS_Subset, FS_CardinalityType
<1>2. \A s \in SUBSET S : F[s] = IF s = {} THEN 0 ELSE f[PickOf(s)] + F[s \ {PickOf(s)}]
  BY DEF Counts
<1>3. \A s \in SUBSET S : G[s] = IF s = {} THEN 0 ELSE g[PickOf(s)] + G[s \ {PickOf(s)}]
  BY DEF Counts
<1>4. GrowsBy(F, G, D, to, {})
  <2>1. Among(D, to, {}) = {}
    BY DEF Among
  <2>2. {} \in SUBSET S
    OBVIOUS
  <2>3. F[{}] = 0 /\ G[{}] = 0
    BY <1>2, <1>3, <2>2
  <2>4. Cardinality({}) = 0
    BY FS_EmptySet
  <2>5. PICK c : c = Cardinality(Among(D, to, {}))
    OBVIOUS
  <2>6. c = 0
    BY <2>1, <2>4, <2>5
  <2>7. F[{}] \in Int /\ G[{}] = F[{}] + c
    BY <2>3, <2>6
  <2> QED BY <2>5, <2>7 DEF GrowsBy
<1>5. 0 \in T
  <2>1. ASSUME NEW s \in SUBSET S, Cardinality(s) <= 0 PROVE GrowsBy(F, G, D, to, s)
    <3>1. s = {}
      BY <1>1, <2>1, FS_EmptySet
    <3> QED BY <1>4, <3>1
  <2> QED BY <2>1
<1>6. ASSUME NEW n \in T PROVE n + 1 \in T
  <2>1. n \in Nat /\ \A s \in SUBSET S : Cardinality(s) <= n => GrowsBy(F, G, D, to, s)
    OBVIOUS
  <2>2. ASSUME NEW s \in SUBSET S, Cardinality(s) <= n + 1 PROVE GrowsBy(F, G, D, to, s)
    <3>1. CASE s = {}
      BY <1>4, <3>1
    <3>2. CASE s # {}
      <4>1. PICK p : p = PickOf(s)
        OBVIOUS
      <4>2. p \in s
        BY <3>2, <4>1, PickIs
      <4>3. PICK r : r = s \ {p}
        OBVIOUS
      <4>4. r \in SUBSET S /\ Cardinality(r) = Cardinality(s) - 1
        BY <1>1, <4>2, <4>3, FS_RemoveElement
      <4>5. Cardinality(r) <= n
        BY <1>1, <2>1, <2>2, <4>4
      <4>6. F[r] \in Int /\ G[r] = F[r] + Cardinality(Among(D, to, r))
        BY <2>1, <4>4, <4>5 DEF GrowsBy
      <4>7. F[s] = f[p] + F[r]
        BY <1>2, <3>2, <4>1, <4>3
      <4>8. G[s] = g[p] + G[r]
        BY <1>3, <3>2, <4>1, <4>3
      <4>9. PICK A : A = {i \in D : to[i] = p}
        OBVIOUS
      <4>10. PICK B : B = Among(D, to, r)
        OBVIOUS
      <4>11. Among(D, to, s) = A \cup B /\ A \cap B = {} /\ A \in SUBSET D /\ B \in SUBSET D
        BY <4>2, <4>3, <4>9, <4>10 DEF Among
      <4>12. IsFiniteSet(A) /\ IsFiniteSet(B)
        BY <4>11, FS_Subset
      <4>13. Cardinality(A \cup B) = Cardinality(A) + Cardinality(B) - Cardinality(A \cap B)
        BY <4>12, FS_Union
      <4>14. Cardinality(A) \in Nat /\ Cardinality(B) \in Nat /\ Cardinality(A \cap B) = 0
        BY <4>11, <4>12, FS_CardinalityType, FS_EmptySet
      <4>15. f[p] \in Int /\ g[p] = f[p] + Cardinality(A)
        BY <4>2, <4>9
      <4>16. Cardinality(Among(D, to, s)) = Cardinality(A) + Cardinality(B)
        BY <4>11, <4>13, <4>14
      <4>17. G[r] = F[r] + Cardinality(B)
        BY <4>6, <4>10
      <4> HIDE <4>9
      <4> QED BY <4>6, <4>7, <4>8, <4>14, <4>15, <4>16, <4>17 DEF GrowsBy
    <3> QED BY <3>1, <3>2
  <2>3. n + 1 \in Nat
    BY <2>1
  <2> QED BY <2>2, <2>3
<1> HIDE DEF T
<1>7. T = Nat
  BY <1>5, <1>6, UpFromZero DEF T
<1>8. Cardinality(S) \in T
  BY <1>7, FS_CardinalityType
<1> QED BY <1>8, FS_Subset, FS_CardinalityType DEF T

LEMMA TallyGrows ==
    ASSUME NEW S, IsFiniteSet(S), NEW D, IsFiniteSet(D), NEW to, NEW f, NEW g, DOMAIN f = S, DOMAIN g = S,
           \A x \in S : f[x] \in Int /\ g[x] = f[x] + Cardinality({i \in D : to[i] = x})
    PROVE  Count(f) \in Int /\ Count(g) = Count(f) + Cardinality(Among(D, to, S))
<1>1. PICK F : F = CHOOSE H : Counts(H, f, S)
  OBVIOUS
<1>2. PICK G : G = CHOOSE H : Counts(H, g, S)
  OBVIOUS
<1>3. Counts(F, f, S)
  BY <1>1, CountsExist
<1>4. Counts(G, g, S)
  BY <1>2, CountsExist
<1>5. GrowsBy(F, G, D, to, S)
  BY <1>3, <1>4, CountsGrow
<1>6. Count(f) = F[S]
  BY <1>1, CountIs
<1>7. Count(g) = G[S]
  BY <1>2, CountIs
<1> QED BY <1>5, <1>6, <1>7 DEF GrowsBy

LEMMA NothingCounted ==
    ASSUME NEW S, IsFiniteSet(S), NEW f, DOMAIN f = S, \A x \in S : f[x] = 0
    PROVE  Count(f) = 0
<1>1. PICK F : F = CHOOSE H : Counts(H, f, S)
  OBVIOUS
<1>2. Counts(F, f, S)
  BY <1>1, CountsExist
<1>3. \A s \in SUBSET S : F[s] = IF s = {} THEN 0 ELSE f[PickOf(s)] + F[s \ {PickOf(s)}]
  BY <1>2 DEF Counts
<1> DEFINE N == {n \in Nat : \A s \in SUBSET S : Cardinality(s) <= n => F[s] = 0}
<1>4. \A s \in SUBSET S : IsFiniteSet(s) /\ Cardinality(s) \in Nat
  BY FS_Subset, FS_CardinalityType
<1>5. 0 \in N
  <2>1. ASSUME NEW s \in SUBSET S, Cardinality(s) <= 0 PROVE F[s] = 0
    <3>1. s = {}
      BY <1>4, <2>1, FS_EmptySet
    <3> QED BY <1>3, <3>1
  <2> QED BY <2>1
<1>6. ASSUME NEW n \in N PROVE n + 1 \in N
  <2>1. ASSUME NEW s \in SUBSET S, Cardinality(s) <= n + 1 PROVE F[s] = 0
    <3>1. CASE s = {}
      BY <1>3, <3>1
    <3>2. CASE s # {}
      <4>1. PICK p : p = PickOf(s)
        OBVIOUS
      <4>2. p \in s
        BY <3>2, <4>1, PickIs
      <4>3. PICK r : r = s \ {p}
        OBVIOUS
      <4>4. r \in SUBSET S /\ Cardinality(r) = Cardinality(s) - 1
        BY <1>4, <4>2, <4>3, FS_RemoveElement
      <4>5. F[r] = 0
        BY <1>4, <2>1, <4>4
      <4>6. F[s] = f[p] + F[r]
        BY <1>3, <3>2, <4>1, <4>3
      <4> QED BY <4>2, <4>5, <4>6
    <3> QED BY <3>1, <3>2
  <2>2. n + 1 \in Nat
    OBVIOUS
  <2> QED BY <2>1, <2>2
<1> HIDE DEF N
<1>7. N = Nat
  BY <1>5, <1>6, UpFromZero DEF N
<1>8. Cardinality(S) \in N
  BY <1>7, FS_CardinalityType
<1>9. F[S] = 0
  BY <1>8, FS_CardinalityType DEF N
<1> QED BY <1>1, <1>9, CountIs

-----------------------------------------------------------------------------
(* The positions that stay, in their order.                                *)
Rising(f, c, K) == f \in [1..c -> K] /\ \A a, b \in 1..c : a < b => f[a] < f[b]

LEMMA RisingExists ==
    ASSUME NEW n \in Nat, NEW K \in SUBSET (1..n) PROVE Cardinality(K) \in Nat /\ \E f : Rising(f, Cardinality(K), K)
<1> DEFINE T == {m \in Nat : \A L \in SUBSET (1..m) : \E f : Rising(f, Cardinality(L), L)}
<1>1. \A m \in Nat : \A L \in SUBSET (1..m) : IsFiniteSet(L) /\ Cardinality(L) \in Nat
  <2> SUFFICES ASSUME NEW m \in Nat, NEW L \in SUBSET (1..m) PROVE IsFiniteSet(L) /\ Cardinality(L) \in Nat
    OBVIOUS
  <2>1. IsFiniteSet(1..m)
    BY FS_Interval
  <2> QED BY <2>1, FS_Subset, FS_CardinalityType
<1>2. 0 \in T
  <2>1. ASSUME NEW L \in SUBSET (1..0) PROVE \E f : Rising(f, Cardinality(L), L)
    <3>1. L = {}
      OBVIOUS
    <3>2. Cardinality(L) = 0
      BY <3>1, FS_EmptySet
    <3>3. Rising([i \in 1..0 |-> 0], 0, L)
      BY DEF Rising
    <3> QED BY <3>2, <3>3
  <2> QED BY <2>1
<1>3. ASSUME NEW m \in T PROVE m + 1 \in T
  <2>1. m \in Nat /\ \A L \in SUBSET (1..m) : \E f : Rising(f, Cardinality(L), L)
    OBVIOUS
  <2>2. ASSUME NEW L \in SUBSET (1..(m + 1)) PROVE \E f : Rising(f, Cardinality(L), L)
    <3>1. CASE m + 1 \notin L
      <4>1. L \in SUBSET (1..m)
        BY <2>1, <3>1
      <4> QED BY <2>1, <4>1
    <3>2. CASE m + 1 \in L
      <4>1. PICK M : M = L \ {m + 1}
        OBVIOUS
      <4>2. M \in SUBSET (1..m)
        BY <2>1, <4>1
      <4>3. PICK c : c = Cardinality(M)
        OBVIOUS
      <4>4. c \in Nat
        BY <1>1, <2>1, <4>2, <4>3
      <4>5. IsFiniteSet(L) /\ Cardinality(L) \in Nat
        <5>1. m + 1 \in Nat
          BY <2>1
        <5> QED BY <1>1, <5>1
      <4>6. Cardinality(L) = c + 1
        <5>1. c = Cardinality(L) - 1
          BY <3>2, <4>1, <4>3, <4>5, FS_RemoveElement
        <5> QED BY <4>4, <4>5, <5>1
      <4>7. PICK f : Rising(f, c, M)
        BY <2>1, <4>2, <4>3
      <4>8. PICK g : g = [i \in 1..(c + 1) |-> IF i = c + 1 THEN m + 1 ELSE f[i]]
        OBVIOUS
      <4>9. ASSUME NEW i \in 1..(c + 1), i # c + 1 PROVE i \in 1..c /\ g[i] = f[i] /\ f[i] \in M
        <5>1. i \in 1..c
          BY <4>4, <4>9
        <5>2. g[i] = f[i]
          BY <4>8, <4>9
        <5> QED BY <4>7, <5>1, <5>2 DEF Rising
      <4>10. ASSUME NEW i \in 1..(c + 1) PROVE g[i] \in L
        <5>1. CASE i = c + 1
          BY <3>2, <4>8, <5>1
        <5>2. CASE i # c + 1
          BY <4>1, <4>9, <5>2
        <5> QED BY <5>1, <5>2
      <4>11. g \in [1..(c + 1) -> L]
        BY <4>8, <4>10
      <4>12. ASSUME NEW a \in 1..(c + 1), NEW b \in 1..(c + 1), a < b PROVE g[a] < g[b]
        <5>1. a # c + 1
          BY <4>4, <4>12
        <5>2. a \in 1..c /\ g[a] = f[a] /\ f[a] \in M
          BY <4>9, <5>1
        <5>3. CASE b = c + 1
          <6>1. g[b] = m + 1
            BY <4>8, <5>3
          <6>2. f[a] \in 1..m
            BY <4>2, <5>2
          <6> QED BY <2>1, <5>2, <6>1, <6>2
        <5>4. CASE b # c + 1
          <6>1. b \in 1..c /\ g[b] = f[b]
            BY <4>9, <5>4
          <6> QED BY <4>7, <4>12, <5>2, <6>1 DEF Rising
        <5> QED BY <5>3, <5>4
      <4>13. Rising(g, c + 1, L)
        BY <4>11, <4>12 DEF Rising
      <4> QED BY <4>6, <4>13
    <3> QED BY <3>1, <3>2
  <2>3. m + 1 \in Nat
    BY <2>1
  <2> QED BY <2>2, <2>3
<1> HIDE DEF T
<1>4. T = Nat
  BY <1>2, <1>3, UpFromZero DEF T
<1>5. n \in T
  BY <1>4
<1> QED BY <1>1, <1>5 DEF T

LEMMA InTurnIs ==
    ASSUME NEW n \in Nat, NEW K \in SUBSET (1..n) PROVE Cardinality(K) \in Nat /\ Rising(InTurn(K), Cardinality(K), K)
<1>1. Cardinality(K) \in Nat /\ \E f : Rising(f, Cardinality(K), K)
  BY RisingExists
<1>2. InTurn(K) = CHOOSE f \in [1..Cardinality(K) -> K] : Rising(f, Cardinality(K), K)
  BY DEF InTurn, Rising
<1>3. \E f \in [1..Cardinality(K) -> K] : Rising(f, Cardinality(K), K)
  BY <1>1 DEF Rising
<1> QED BY <1>1, <1>2, <1>3

(* What is kept is taken from different places.                            *)
Picks(f, c, K) == f \in [1..c -> K] /\ \A a, b \in 1..c : f[a] = f[b] => a = b

LEMMA RisingPicks == ASSUME NEW n \in Nat, NEW K \in SUBSET (1..n), NEW c \in Nat, NEW f, Rising(f, c, K) PROVE Picks(f, c, K)
<1>1. f \in [1..c -> K] /\ \A a, b \in 1..c : a < b => f[a] < f[b]
  BY DEF Rising
<1>2. ASSUME NEW a \in 1..c, NEW b \in 1..c, f[a] = f[b] PROVE a = b
  <2>1. f[a] \in Int /\ f[b] \in Int
    <3>1. f[a] \in K /\ f[b] \in K
      BY <1>1
    <3>2. \A k \in K : k \in Int
      OBVIOUS
    <3> QED BY <3>1, <3>2
  <2>2. ~(a < b) /\ ~(b < a)
    BY <1>1, <1>2, <2>1
  <2> QED BY <2>2
<1> QED BY <1>1, <1>2 DEF Picks

LEMMA KeptIs ==
    ASSUME NEW n \in Nat, NEW K \in SUBSET (1..n), NEW s
    PROVE  \E f : Picks(f, Cardinality(K), K) /\ Kept(s, K) = [i \in 1..Cardinality(K) |-> s[f[i]]]
<1>1. PICK f : f = InTurn(K)
  OBVIOUS
<1>2. Cardinality(K) \in Nat /\ Rising(f, Cardinality(K), K)
  BY <1>1, InTurnIs
<1>3. Picks(f, Cardinality(K), K)
  BY <1>2, RisingPicks
<1> QED BY <1>1, <1>3 DEF Kept

-----------------------------------------------------------------------------
(* A recommendation and the one it was collected as.  What its money is    *)
(* counted in is its count, or the hourly commitment of a savings plan.    *)
PricedBy(r) == IF IsSavingsPlan(r.service) THEN r.hourly ELSE Int2Rat(r.count)
InStep(now, then, r, o) ==
    IF then = Nil THEN now = Nil
    ELSE now \in Rats /\ (PricedBy(o) # Nil => RMul(now, PricedBy(o)) = RMul(then, PricedBy(r)))
Same(r, o) == RecFields \subseteq DOMAIN r /\ r.id = o.id /\ r.service = o.service /\ r.avg = o.avg /\ r.covered = o.covered
Tracks(r, o) == Same(r, o) /\ r.count \in Int /\ \A f \in MoneyFields : InStep(r[f], o[f], r, o)

LEMMA NamesApart == ASSUME NEW a \in Rats PROVE a # Nil /\ a # NaN
<1>1. PICK n \in Int, d \in Nat \ {0} : a = Rat(n, d)
  BY Fraction
<1>2. PICK x, y : x = a[1] /\ y = a[2]
  OBVIOUS
<1>3. x \in Int /\ y \in Int /\ a = Rat(x, y)
  BY <1>2, RatsAre DEF IsRational
<1>4. \E u \in Int, v \in Int : a = <<u, v>>
  <2>1. CASE n = 0
    BY <1>1, <2>1 DEF Rat
  <2>2. CASE n # 0
    <3>1. PICK m \in Nat, g \in Nat \ {0}, i \in Int, j \in Nat \ {0} :
            /\ m = AbsOf(n) /\ g = GCD[<<m, d>>]
            /\ n = g * i /\ d = g * j /\ (n # 0 => Rat(n, d) = <<i, j>>)
      BY LowestTerms
    <3> QED BY <1>1, <2>2, <3>1
  <2> QED BY <2>1, <2>2
<1>5. a \in Int \X Int
  BY <1>4
<1> QED BY <1>5, FilterAssumption

LEMMA MoneyIs ==
    ASSUME NEW o, IsRecommendation(o), NEW f \in MoneyFields PROVE o[f] = Nil \/ o[f] \in Rats
<1>1. CASE f = "cost"
  BY <1>1, LowestIsRat DEF IsRecommendation
<1>2. CASE f = "onDemand"
  BY <1>2, LowestIsRat DEF IsRecommendation
<1>3. CASE f = "savings"
  BY <1>3, LowestIsRat DEF IsRecommendation
<1>4. CASE f = "recurring"
  BY <1>4, LowestIsRat DEF IsRecommendation, IsMoney
<1>5. CASE f = "hourly"
  BY <1>5, LowestIsRat DEF IsRecommendation, IsMoney
<1> QED BY <1>1, <1>2, <1>3, <1>4, <1>5 DEF MoneyFields

LEMMA PricedByIs ==
    ASSUME NEW o, IsRecommendation(o), NEW r, Tracks(r, o), PricedBy(o) # Nil PROVE PricedBy(o) \in Rats /\ PricedBy(r) \in Rats
<1>1. r.service = o.service /\ r.count \in Int /\ o.count \in Int
  BY DEF Tracks, Same, IsRecommendation
<1>2. CASE IsSavingsPlan(o.service)
  <2>1. PricedBy(o) = o.hourly /\ PricedBy(r) = r.hourly
    BY <1>1, <1>2 DEF PricedBy
  <2>2. o.hourly # Nil
    BY <2>1
  <2>3. InStep(r.hourly, o.hourly, r, o)
    BY DEF Tracks, MoneyFields
  <2>4. r.hourly \in Rats
    BY <2>2, <2>3 DEF InStep
  <2>5. o.hourly \in Rats
    BY <2>2, LowestIsRat DEF IsRecommendation, IsMoney
  <2> QED BY <2>1, <2>4, <2>5
<1>3. CASE ~IsSavingsPlan(o.service)
  <2>1. PricedBy(o) = Int2Rat(o.count) /\ PricedBy(r) = Int2Rat(r.count)
    BY <1>1, <1>3 DEF PricedBy
  <2> QED BY <1>1, <2>1, IntRat
<1> QED BY <1>2, <1>3

LEMMA TracksItself == ASSUME NEW o, IsRecommendation(o) PROVE Tracks(o, o)
<1>1. Same(o, o) /\ o.count \in Int
  BY DEF Same, IsRecommendation
<1>2. ASSUME NEW f \in MoneyFields PROVE InStep(o[f], o[f], o, o)
  <2>1. o[f] = Nil \/ o[f] \in Rats
    BY MoneyIs
  <2> QED BY <2>1 DEF InStep
<1> QED BY <1>1, <1>2 DEF Tracks

(* Scaling all the money with the basis.                                   *)
LEMMA RatesScale ==
    ASSUME NEW a \in Rats, NEW b \in Rats, NEW u \in Rats, NEW v \in Rats, NEW k \in Rats, RMul(a, u) = RMul(b, v)
    PROVE  RMul(RMul(a, k), u) = RMul(b, RMul(v, k))
<1>1. RMul(RMul(a, k), u) = RMul(a, RMul(k, u))
  BY MulAssociates
<1>2. RMul(k, u) = RMul(u, k)
  BY MulCommutes
<1>3. RMul(a, RMul(u, k)) = RMul(RMul(a, u), k)
  BY MulAssociates
<1>4. RMul(RMul(b, v), k) = RMul(b, RMul(v, k))
  BY MulAssociates
<1> QED BY <1>1, <1>2, <1>3, <1>4

LEMMA ScaledTracks ==
    ASSUME NEW o, IsRecommendation(o), NEW r, Tracks(r, o), NEW k \in Rats, NEW w, Same(w, r), w.count \in Int,
           \A f \in MoneyFields : w[f] = Scaled(r[f], k),
           ~IsSavingsPlan(r.service) => RMul(Int2Rat(r.count), k) = Int2Rat(w.count)
    PROVE  Tracks(w, o)
<1>1. Same(w, o)
  BY DEF Same, Tracks
<1>2. w.service = r.service /\ r.service = o.service
  BY DEF Same, Tracks
<1>3. ASSUME PricedBy(o) # Nil PROVE PricedBy(w) = RMul(PricedBy(r), k)
  <2>1. CASE IsSavingsPlan(r.service)
    <3>1. PricedBy(w) = w.hourly /\ PricedBy(r) = r.hourly
      BY <1>2, <2>1 DEF PricedBy
    <3>2. r.hourly \in Rats
      BY <1>3, <3>1, PricedByIs
    <3>3. r.hourly # Nil
      BY <3>2, NamesApart
    <3>4. w.hourly = Scaled(r.hourly, k)
      BY DEF MoneyFields
    <3> QED BY <3>1, <3>3, <3>4 DEF Scaled
  <2>2. CASE ~IsSavingsPlan(r.service)
    BY <1>2, <2>2 DEF PricedBy
  <2> QED BY <2>1, <2>2
<1>4. ASSUME NEW f \in MoneyFields PROVE InStep(w[f], o[f], w, o)
  <2>1. InStep(r[f], o[f], r, o) /\ w[f] = Scaled(r[f], k)
    BY DEF Tracks
  <2>2. CASE o[f] = Nil
    <3>1. r[f] = Nil
      BY <2>1, <2>2 DEF InStep
    <3> QED BY <2>1, <2>2, <3>1 DEF InStep, Scaled
  <2>3. CASE o[f] # Nil
    <3>1. r[f] \in Rats /\ (PricedBy(o) # Nil => RMul(r[f], PricedBy(o)) = RMul(o[f], PricedBy(r)))
      BY <2>1, <2>3 DEF InStep
    <3>2. r[f] # Nil
      BY <3>1, NamesApart
    <3>3. w[f] = RMul(r[f], k)
      BY <2>1, <3>2 DEF Scaled
    <3>4. w[f] \in Rats
      BY <3>1, <3>3, Closed
    <3>5. o[f] \in Rats
      BY <2>3, MoneyIs
    <3>6. ASSUME PricedBy(o) # Nil PROVE RMul(w[f], PricedBy(o)) = RMul(o[f], PricedBy(w))
      <4>1. PricedBy(o) \in Rats /\ PricedBy(r) \in Rats
        BY <3>6, PricedByIs
      <4>2. RMul(r[f], PricedBy(o)) = RMul(o[f], PricedBy(r))
        BY <3>1, <3>6
      <4>3. RMul(RMul(r[f], k), PricedBy(o)) = RMul(o[f], RMul(PricedBy(r), k))
        BY <3>1, <3>5, <4>1, <4>2, RatesScale
      <4> QED BY <1>3, <3>3, <3>6, <4>3
    <3> QED BY <2>3, <3>4, <3>6 DEF InStep
  <2> QED BY <2>2, <2>3
<1> QED BY <1>1, <1>4 DEF Tracks

LEMMA RatioIs == ASSUME NEW n \in Int, NEW c \in Int, c > 0 PROVE Rat(n, c) \in Rats /\ RMul(Int2Rat(c), Rat(n, c)) = Int2Rat(n)
<1>1. c \in Nat \ {0} /\ 1 \in Nat \ {0} /\ 1 * c \in Nat \ {0} /\ c * n \in Int
  OBVIOUS
<1>2. Rat(n, c) \in Rats
  BY <1>1, IsRats
<1>3. Int2Rat(c) = Rat(c, 1) /\ Int2Rat(n) = Rat(n, 1)
  BY IntRat
<1>4. RMul(Rat(c, 1), Rat(n, c)) = Rat(c * n, 1 * c)
  BY <1>1, MulIs
<1>5. (c * n) * 1 = n * (1 * c)
  OBVIOUS
<1>6. Rat(c * n, 1 * c) = Rat(n, 1)
  BY <1>1, <1>5, RatEq
<1> QED BY <1>2, <1>3, <1>4, <1>6

-----------------------------------------------------------------------------
(* What a stage makes of one recommendation.                               *)
LEMMA ScaleIs ==
    ASSUME NEW r, RecFields \subseteq DOMAIN r, NEW k, NEW s, s = ScaleRecommendationCosts(r, k)
    PROVE  /\ RecFields \subseteq DOMAIN s
           /\ \A f \in RecFields \ MoneyFields : s[f] = r[f]
           /\ \A f \in MoneyFields : s[f] = Scaled(r[f], k)
<1>1. s = [f \in DOMAIN r |-> IF f \in MoneyFields THEN Scaled(r[f], k) ELSE r[f]]
  BY DEF ScaleRecommendationCosts
<1>2. DOMAIN s = DOMAIN r
  BY <1>1
<1>3. MoneyFields \subseteq DOMAIN r
  BY DEF MoneyFields, RecFields
<1>4. \A f \in RecFields \ MoneyFields : s[f] = r[f]
  BY <1>1
<1>5. \A f \in MoneyFields : s[f] = Scaled(r[f], k)
  BY <1>1, <1>3
<1> QED BY <1>2, <1>4, <1>5

(* Fields that are not tracked, and the count, stand apart from the rest.  *)
LEMMA SetField ==
    ASSUME NEW s, RecFields \subseteq DOMAIN s, NEW f, NEW x, NEW w, w = [s EXCEPT ![f] = x]
    PROVE  /\ RecFields \subseteq DOMAIN w
           /\ \A g \in RecFields \ {f} : w[g] = s[g]
           /\ f \in RecFields => w[f] = x
OBVIOUS

LEMMA ResizedTracks ==
    ASSUME NEW o, IsRecommendation(o), NEW r, Tracks(r, o), r.count > 0, NEW n \in Int,
           NEW s, s = ScaleRecommendationCosts(r, Rat(n, r.count)), NEW w, w = [s EXCEPT !.count = n]
    PROVE  Tracks(w, o)
<1>1. r.count \in Int /\ RecFields \subseteq DOMAIN r
  BY DEF Tracks, Same
<1>2. PICK k : k = Rat(n, r.count)
  OBVIOUS
<1>3. k \in Rats /\ RMul(Int2Rat(r.count), k) = Int2Rat(n)
  BY <1>1, <1>2, RatioIs
<1>4. s = ScaleRecommendationCosts(r, k)
  BY <1>2
<1>5. /\ RecFields \subseteq DOMAIN s
      /\ \A f \in RecFields \ MoneyFields : s[f] = r[f]
      /\ \A f \in MoneyFields : s[f] = Scaled(r[f], k)
  BY <1>1, <1>4, ScaleIs
<1>6. /\ RecFields \subseteq DOMAIN w
      /\ \A g \in RecFields \ {"count"} : w[g] = s[g]
      /\ "count" \in RecFields => w["count"] = n
  BY <1>5, SetField
<1>7. w.count = n
  BY <1>6 DEF RecFields
<1>8. Same(w, r)
  BY <1>5, <1>6 DEF Same, RecFields, MoneyFields
<1>9. \A f \in MoneyFields : w[f] = Scaled(r[f], k)
  BY <1>5, <1>6 DEF RecFields, MoneyFields
<1> QED BY <1>3, <1>7, <1>8, <1>9, ScaledTracks

Untracked == {"breakEven", "projUse", "projCover"}
LEMMA SetUntracked ==
    ASSUME NEW o, NEW s, Tracks(s, o), NEW f \in Untracked, NEW x, NEW w, w = [s EXCEPT ![f] = x]
    PROVE  Tracks(w, o)
<1>1. RecFields \subseteq DOMAIN s
  BY DEF Tracks, Same
<1>2. /\ RecFields \subseteq DOMAIN w
      /\ \A g \in RecFields \ {f} : w[g] = s[g]
  BY <1>1, SetField
<1>3. \A g \in RecFields \ Untracked : w[g] = s[g]
  BY <1>2
<1>4. /\ w.id = s.id /\ w.service = s.service /\ w.avg = s.avg /\ w.covered = s.covered /\ w.count = s.count
      /\ \A g \in MoneyFields : w[g] = s[g]
  BY <1>3 DEF RecFields, Untracked, MoneyFields
<1>5. w.hourly = s.hourly
  BY <1>4 DEF MoneyFields
<1>6. PricedBy(w) = PricedBy(s)
  BY <1>4, <1>5 DEF PricedBy
<1>7. Same(w, o) /\ w.count \in Int
  BY <1>2, <1>4 DEF Tracks, Same
<1>8. ASSUME NEW g \in MoneyFields PROVE InStep(w[g], o[g], w, o)
  <2>1. InStep(s[g], o[g], s, o) /\ w[g] = s[g]
    BY <1>4 DEF Tracks
  <2> QED BY <1>6, <2>1 DEF InStep
<1> QED BY <1>7, <1>8 DEF Tracks

LEMMA ScaledPlanTracks ==
    ASSUME NEW o, IsRecommendation(o), NEW r, Tracks(r, o), IsSavingsPlan(r.service), NEW k \in Rats,
           NEW w, w = ScaleRecommendationCosts(r, k)
    PROVE  Tracks(w, o)
<1>1. r.count \in Int /\ RecFields \subseteq DOMAIN r
  BY DEF Tracks, Same
<1>2. /\ RecFields \subseteq DOMAIN w
      /\ \A f \in RecFields \ MoneyFields : w[f] = r[f]
      /\ \A f \in MoneyFields : w[f] = Scaled(r[f], k)
  BY <1>1, ScaleIs
<1>3. Same(w, r) /\ w.count = r.count
  BY <1>2 DEF Same, RecFields, MoneyFields
<1> QED BY <1>1, <1>2, <1>3, ScaledTracks

(* A verdict keeps what tracks its origin, or says why not.                *)
Judges(v, o) == (v.reason = "" /\ Tracks(v.rec, o)) \/ v.reason \in DropReasons

LEMMA KeepJudges == ASSUME NEW o, NEW r, Tracks(r, o) PROVE Judges(Keep(r), o)
BY DEF Judges, Keep
LEMMA DropJudges == ASSUME NEW o, NEW reason \in DropReasons PROVE Judges(Drop(reason), o)
BY DEF Judges, Drop

LEMMA CoverageJudges ==
    ASSUME NEW o, IsRecommendation(o), NEW r, Tracks(r, o), NEW pct \in 1..99 PROVE Judges(CoverageOne(r, pct), o)
<1>1. r.count \in Int
  BY DEF Tracks
<1>2. PICK n : n = (r.count * pct) \div 100
  OBVIOUS
<1>3. n \in Int
  BY <1>1, <1>2
<1>4. CASE IsSavingsPlan(r.service)
  <2>1. CoverageOne(r, pct) = Keep(IF r.hourly = Nil THEN r ELSE ScaleRecommendationCosts(r, Rat(pct, 100)))
    BY <1>4 DEF CoverageOne
  <2>2. CASE r.hourly = Nil
    BY <2>1, <2>2, KeepJudges
  <2>3. CASE r.hourly # Nil
    <3>1. PICK k : k = Rat(pct, 100)
      OBVIOUS
    <3>2. pct \in Int /\ 100 \in Nat \ {0}
      OBVIOUS
    <3>3. k \in Rats
      BY <3>1, <3>2, IsRats
    <3>4. PICK w : w = ScaleRecommendationCosts(r, k)
      OBVIOUS
    <3>5. Tracks(w, o)
      BY <1>4, <3>3, <3>4, ScaledPlanTracks
    <3> QED BY <2>1, <2>3, <3>1, <3>4, <3>5, KeepJudges
  <2> QED BY <2>2, <2>3
<1>5. CASE ~IsSavingsPlan(r.service) /\ n > 0
  <2>1. CoverageOne(r, pct) = Keep([ScaleRecommendationCosts(r, Rat(n, r.count)) EXCEPT !.count = n])
    BY <1>2, <1>5 DEF CoverageOne
  <2>2. r.count > 0
    <3>1. PICK c \in Int : c = r.count
      BY <1>1
    <3>2. c * pct <= 0 => (c * pct) \div 100 <= 0
      OBVIOUS
    <3>3. c <= 0 => c * pct <= 0
      OBVIOUS
    <3> QED BY <1>2, <1>5, <3>1, <3>2, <3>3
  <2>3. PICK s : s = ScaleRecommendationCosts(r, Rat(n, r.count))
    OBVIOUS
  <2>4. PICK w : w = [s EXCEPT !.count = n]
    OBVIOUS
  <2>5. Tracks(w, o)
    BY <1>3, <2>2, <2>3, <2>4, ResizedTracks
  <2> QED BY <2>1, <2>3, <2>4, <2>5, KeepJudges
<1>6. CASE ~IsSavingsPlan(r.service) /\ ~(n > 0)
  <2>1. CoverageOne(r, pct) = Drop("coverage-sized-to-zero")
    BY <1>2, <1>6 DEF CoverageOne
  <2>2. "coverage-sized-to-zero" \in DropReasons
    BY DEF DropReasons
  <2> QED BY <2>1, <2>2, DropJudges
<1> QED BY <1>4, <1>5, <1>6

LEMMA PoolJudges ==
    ASSUME NEW o, NEW r, Tracks(r, o), NEW minimum PROVE Judges(PoolOne(r, minimum), o)
<1>1. PoolOne(r, minimum) = Keep(r) \/ PoolOne(r, minimum) = Drop("min-pool-size")
  BY DEF PoolOne
<1>2. "min-pool-size" \in DropReasons
  BY DEF DropReasons
<1> QED BY <1>1, <1>2, KeepJudges, DropJudges

HundredIs(h) == h \in Rats /\ RLt(Zero, h)
LEMMA Hundred == HundredIs(Int2Rat(100))
<1>1. Int2Rat(100) = Rat(100, 1) /\ Int2Rat(100) \in Rats
  BY IntRat
<1>2. 0 \in Int /\ 1 \in Nat \ {0} /\ 100 \in Int
  OBVIOUS
<1>3. RLt(Rat(0, 1), Rat(100, 1)) <=> 0 * 1 < 100 * 1
  BY <1>2, LeIs
<1> QED BY <1>1, <1>3, ZeroIs DEF HundredIs

LEMMA TargetCountIs ==
    ASSUME NEW r, r.avg \in Rats, r.covered \in Rats, NEW target \in Rats PROVE TargetCount(r, target) \in Int
<1>1. PICK h : h = Int2Rat(100)
  OBVIOUS
<1>2. h \in Rats /\ RLt(Zero, h)
  BY <1>1, Hundred DEF HundredIs
<1>3. RQuo(r.avg, h) \in Rats
  BY <1>2, QuoMultiplies
<1>4. TargetGap(r, target) \in Rats
  BY Closed DEF TargetGap
<1>5. PICK q : q = RMul(TargetGap(r, target), RQuo(r.avg, h))
  OBVIOUS
<1>6. q \in Rats
  BY <1>3, <1>4, <1>5, Closed
<1>7. q[1] \in Int /\ q[2] \in Nat \ {0}
  BY <1>6, RatsAre DEF IsRational
<1>8. TargetCount(r, target) = q[1] \div q[2]
  BY <1>1, <1>5 DEF TargetCount
<1> QED BY <1>7, <1>8

LEMMA TargetRIJudges ==
    ASSUME NEW o, IsRecommendation(o), NEW r, Tracks(r, o), NEW target, IsReading(target)
    PROVE  Judges(TargetRI(r, target), o)
<1>1. r.count \in Int /\ r.avg = o.avg /\ r.covered = o.covered
  BY DEF Tracks, Same
<1>2. {"target-already-met", "target-sized-to-zero", "target-input-invalid", "target-coverage-unknown"} \subseteq DropReasons
  BY DEF DropReasons
<1>3. CASE ~TargetCoverageInputsValid(r, target)
  <2>1. TargetRI(r, target) = Drop("target-input-invalid")
    BY <1>3 DEF TargetRI
  <2> QED BY <1>2, <2>1, DropJudges
<1>4. CASE TargetCoverageInputsValid(r, target)
  <2>1. r.avg # NaN /\ r.covered # NaN /\ target # NaN
    BY <1>4 DEF TargetCoverageInputsValid
  <2>2. r.avg \in Rats /\ r.covered \in Rats /\ target \in Rats
    BY <1>1, <2>1, LowestIsRat DEF IsRecommendation, IsReading
  <2>3. PICK n : n = TargetCount(r, target)
    OBVIOUS
  <2>4. n \in Int
    BY <2>2, <2>3, TargetCountIs
  <2>5. CASE r.count > 0
    <3>1. PICK use, cover :
            /\ use = RMin(RMul(RQuo(r.avg, Int2Rat(n)), Int2Rat(100)), Int2Rat(100))
            /\ cover = RMin(RAdd(r.covered, RMul(RQuo(Int2Rat(n), r.avg), Int2Rat(100))), Int2Rat(100))
      OBVIOUS
    <3>2. PICK s : s = ScaleRecommendationCosts(r, Rat(n, r.count))
      OBVIOUS
    <3>3. PICK w : w = [s EXCEPT !.count = n]
      OBVIOUS
    <3>4. PICK x : x = [w EXCEPT !.projUse = use]
      OBVIOUS
    <3>5. PICK y : y = [x EXCEPT !.projCover = cover]
      OBVIOUS
    <3>6. Tracks(w, o)
      BY <2>4, <2>5, <3>2, <3>3, ResizedTracks
    <3>7. "projUse" \in Untracked /\ "projCover" \in Untracked
      BY DEF Untracked
    <3>8. Tracks(x, o)
      BY <3>4, <3>6, <3>7, SetUntracked
    <3>9. Tracks(y, o)
      BY <3>5, <3>7, <3>8, SetUntracked
    <3>10. y = [s EXCEPT !.count = n, !.projUse = use, !.projCover = cover]
      BY <3>3, <3>4, <3>5
    <3>11. \/ TargetRI(r, target) \in {Keep(r), Keep(y)}
           \/ TargetRI(r, target) \in {Drop(d) : d \in DropReasons}
      <4>1. CASE RLe(r.avg, Zero)
        <5>1. TargetRI(r, target) = Keep(r)
          BY <1>4, <4>1 DEF TargetRI
        <5> QED BY <5>1
      <4>2. CASE ~RLe(r.avg, Zero)
        <5>1. CASE ~r.coverKnown
          <6>1. TargetRI(r, target) = Drop("target-coverage-unknown")
            BY <1>4, <4>2, <5>1 DEF TargetRI
          <6> QED BY <1>2, <6>1
        <5>2. CASE r.coverKnown /\ RLe(TargetGap(r, target), Zero)
          <6>1. TargetRI(r, target) = Drop("target-already-met")
            BY <1>4, <4>2, <5>2 DEF TargetRI
          <6> QED BY <1>2, <6>1
        <5>3. CASE r.coverKnown /\ ~RLe(TargetGap(r, target), Zero) /\ n = 0
          <6>1. TargetRI(r, target) = Drop("target-sized-to-zero")
            BY <1>4, <2>3, <4>2, <5>3 DEF TargetRI
          <6> QED BY <1>2, <6>1
        <5>4. CASE r.coverKnown /\ ~RLe(TargetGap(r, target), Zero) /\ n # 0
          <6>1. ~(r.count <= 0)
            BY <1>1, <2>5
          <6>2. TargetRI(r, target) = Keep([s EXCEPT !.count = n, !.projUse = use, !.projCover = cover])
            BY <1>4, <2>3, <3>1, <3>2, <4>2, <5>4, <6>1 DEF TargetRI
          <6> QED BY <3>10, <6>2
        <5> QED BY <5>1, <5>2, <5>3, <5>4
      <4> QED BY <4>1, <4>2
    <3> QED BY <3>9, <3>11, KeepJudges, DropJudges
  <2>6. CASE ~(r.count > 0)
    <3>1. r.count <= 0
      BY <1>1, <2>6
    <3>2. \/ TargetRI(r, target) = Keep(r)
          \/ TargetRI(r, target) \in {Drop("target-coverage-unknown"), Drop("target-already-met"),
                                      Drop("target-sized-to-zero"), Drop("target-input-invalid")}
      BY <1>4, <3>1 DEF TargetRI
    <3> QED BY <1>2, <3>2, KeepJudges, DropJudges
  <2> QED BY <2>5, <2>6
<1> QED BY <1>3, <1>4

LEMMA TargetSPTracks ==
    ASSUME NEW o, IsRecommendation(o), NEW r, Tracks(r, o), IsSavingsPlan(r.service), NEW target \in Rats
    PROVE  Tracks(TargetSP(r, target), o)
<1>1. PICK h : h = Int2Rat(100)
  OBVIOUS
<1>2. h \in Rats /\ RLt(Zero, h)
  BY <1>1, Hundred DEF HundredIs
<1>3. PICK k : k = RQuo(target, h)
  OBVIOUS
<1>4. k \in Rats
  BY <1>2, <1>3, QuoMultiplies
<1>5. PICK use : use = RMin(RQuo(r.use, k), Int2Rat(100))
  OBVIOUS
<1>6. PICK s : s = ScaleRecommendationCosts(r, k)
  OBVIOUS
<1>7. PICK w : w = [s EXCEPT !.projUse = use]
  OBVIOUS
<1>8. Tracks(s, o)
  BY <1>4, <1>6, ScaledPlanTracks
<1>9. "projUse" \in Untracked
  BY DEF Untracked
<1>10. Tracks(w, o)
  BY <1>7, <1>8, <1>9, SetUntracked
<1>11. TargetSP(r, target) = r \/ TargetSP(r, target) = w
  BY <1>1, <1>3, <1>5, <1>6, <1>7 DEF TargetSP
<1> QED BY <1>10, <1>11

LEMMA TargetJudges ==
    ASSUME NEW o, IsRecommendation(o), NEW r, Tracks(r, o), NEW target, IsReading(target)
    PROVE  Judges(TargetOne(r, target), o)
<1>1. CASE IsSavingsPlan(r.service)
  <2>1. TargetOne(r, target) = Keep(IF target = NaN THEN r ELSE TargetSP(r, target))
    BY <1>1 DEF TargetOne
  <2>2. CASE target = NaN
    BY <2>1, <2>2, KeepJudges
  <2>3. CASE target # NaN
    <3>1. target \in Rats
      BY <2>3, LowestIsRat DEF IsReading
    <3>2. Tracks(TargetSP(r, target), o)
      BY <1>1, <3>1, TargetSPTracks
    <3> QED BY <2>1, <2>3, <3>2, KeepJudges
  <2> QED BY <2>2, <2>3
<1>2. CASE ~IsSavingsPlan(r.service)
  <2>1. TargetOne(r, target) = TargetRI(r, target) \/ TargetOne(r, target) = Keep(r)
    BY <1>2 DEF TargetOne
  <2> QED BY <2>1, TargetRIJudges, KeepJudges
<1> QED BY <1>1, <1>2

-----------------------------------------------------------------------------
(* The list: every recommendation tracks the one it came from, and no two  *)
(* came from the same.                                                     *)
RecsOK(rs, os) ==
    /\ Len(rs) \in Nat /\ DOMAIN rs = 1..Len(rs)
    /\ \A i \in DOMAIN rs : rs[i].id \in DOMAIN os /\ Tracks(rs[i], os[rs[i].id])
    /\ \A i, j \in DOMAIN rs : rs[i].id = rs[j].id => i = j

(* What stands for each of them may be any version that tracks the same    *)
(* origin.                                                                 *)
Versions(s, K, rs, os) == \A i \in K : Tracks(s[i], os[rs[i].id])

LEMMA PickedOK ==
    ASSUME NEW os, \A i \in DOMAIN os : os[i].id = i, NEW rs, RecsOK(rs, os), NEW K \in SUBSET (DOMAIN rs),
           NEW c \in Nat, NEW f, Picks(f, c, K), NEW s, Versions(s, K, rs, os), NEW ns, ns = [i \in 1..c |-> s[f[i]]]
    PROVE  RecsOK(ns, os) /\ Len(ns) = c
<1>1. DOMAIN ns = 1..c
  OBVIOUS
<1>2. ns = [i \in 1..c |-> ns[i]]
  OBVIOUS
<1>3. Len(ns) = c
  BY <1>2, LenIs
<1>4. ASSUME NEW i \in 1..c
      PROVE  /\ f[i] \in K /\ ns[i] = s[f[i]]
             /\ Tracks(ns[i], os[rs[f[i]].id]) /\ ns[i].id = rs[f[i]].id /\ rs[f[i]].id \in DOMAIN os
  <2>1. f[i] \in K /\ ns[i] = s[f[i]]
    BY DEF Picks
  <2>2. PICK k : k = f[i]
    OBVIOUS
  <2>3. k \in K /\ k \in DOMAIN rs
    BY <2>1, <2>2
  <2>4. Tracks(s[k], os[rs[k].id]) /\ rs[k].id \in DOMAIN os
    BY <2>3 DEF Versions, RecsOK
  <2>5. s[k].id = os[rs[k].id].id
    BY <2>4 DEF Tracks, Same
  <2>6. os[rs[k].id].id = rs[k].id
    BY <2>4
  <2> QED BY <2>1, <2>2, <2>4, <2>5, <2>6
<1>5. ASSUME NEW i \in 1..c PROVE ns[i].id \in DOMAIN os /\ Tracks(ns[i], os[ns[i].id])
  BY <1>4
<1>6. ASSUME NEW i \in 1..c, NEW j \in 1..c, ns[i].id = ns[j].id PROVE i = j
  <2>1. rs[f[i]].id = rs[f[j]].id /\ f[i] \in DOMAIN rs /\ f[j] \in DOMAIN rs
    BY <1>4, <1>6
  <2>2. f[i] = f[j]
    BY <2>1 DEF RecsOK
  <2> QED BY <2>2 DEF Picks
<1> QED BY <1>1, <1>3, <1>5, <1>6 DEF RecsOK

LEMMA KeptOK ==
    ASSUME NEW os, \A i \in DOMAIN os : os[i].id = i, NEW rs, RecsOK(rs, os), NEW K \in SUBSET (DOMAIN rs),
           NEW s, Versions(s, K, rs, os)
    PROVE  RecsOK(Kept(s, K), os) /\ Len(Kept(s, K)) = Cardinality(K) /\ Cardinality(K) \in Nat
<1>1. Len(rs) \in Nat /\ K \in SUBSET (1..Len(rs))
  BY DEF RecsOK
<1>2. PICK c : c = Cardinality(K)
  OBVIOUS
<1>3. c \in Nat
  BY <1>1, <1>2, InTurnIs
<1>4. PICK f : Picks(f, c, K) /\ Kept(s, K) = [i \in 1..c |-> s[f[i]]]
  BY <1>1, <1>2, KeptIs
<1>5. PICK ns : ns = [i \in 1..c |-> s[f[i]]]
  OBVIOUS
<1>6. RecsOK(ns, os) /\ Len(ns) = c
  BY <1>3, <1>4, <1>5, PickedOK
<1> QED BY <1>2, <1>3, <1>4, <1>5, <1>6

PipelineSpec == PipelineInit /\ [][PipelineNext]_pipelineVars

(* Nothing is lost: what was collected is there, filtered or counted.      *)
AllThere == Len(portfolio.recs) = Len(recs) + removed + Count(drops)
FilterInv ==
    /\ portfolio \in Portfolios /\ RecsOK(recs, portfolio.recs)
    /\ removed \in Int /\ drops \in [DropReasons -> Nat] /\ AllThere

LEMMA PortfolioIs ==
    ASSUME NEW p \in Portfolios
    PROVE  /\ Len(p.recs) \in Nat /\ DOMAIN p.recs = 1..Len(p.recs)
           /\ \A i \in DOMAIN p.recs : IsRecommendation(p.recs[i]) /\ p.recs[i].id = i
<1>1. /\ p.recs \in Seq(Range(p.recs))
      /\ \A i \in DOMAIN p.recs : IsRecommendation(p.recs[i]) /\ p.recs[i].id = i
  BY FilterAssumption
<1>2. PICK S, q : S = Range(p.recs) /\ q = p.recs
  OBVIOUS
<1>3. q \in Seq(S)
  BY <1>1, <1>2
<1>4. Len(q) \in Nat /\ DOMAIN q = 1..Len(q)
  BY <1>3
<1> QED BY <1>1, <1>2, <1>4

LEMMA ReasonsFinite == IsFiniteSet(DropReasons)
<1>1. PICK a, b, c, d, e, f :
        /\ a = "min-pool-size" /\ b = "coverage-sized-to-zero" /\ c = "target-already-met"
        /\ d = "target-sized-to-zero" /\ e = "target-input-invalid" /\ f = "target-coverage-unknown"
  OBVIOUS
<1>2. PICK A, B : A = {a} /\ B = A \cup {b}
  OBVIOUS
<1>3. IsFiniteSet(A)
  BY <1>2, FS_Singleton
<1>4. IsFiniteSet(B)
  BY <1>2, <1>3, FS_AddElement
<1>5. PICK C : C = B \cup {c}
  OBVIOUS
<1>6. IsFiniteSet(C)
  BY <1>4, <1>5, FS_AddElement
<1>7. PICK D : D = C \cup {d}
  OBVIOUS
<1>8. IsFiniteSet(D)
  BY <1>6, <1>7, FS_AddElement
<1>9. PICK E : E = D \cup {e}
  OBVIOUS
<1>10. IsFiniteSet(E)
  BY <1>8, <1>9, FS_AddElement
<1>11. PICK F : F = E \cup {f}
  OBVIOUS
<1>12. IsFiniteSet(F)
  BY <1>10, <1>11, FS_AddElement
<1>13. F = DropReasons
  BY <1>1, <1>2, <1>5, <1>7, <1>9, <1>11 DEF DropReasons
<1> QED BY <1>12, <1>13

LEMMA PipelineStarts == PipelineInit => FilterInv
<1> SUFFICES ASSUME PipelineInit PROVE FilterInv
  OBVIOUS
<1>1. portfolio \in Portfolios /\ recs = portfolio.recs /\ drops = [r \in DropReasons |-> 0] /\ removed = 0
  BY DEF PipelineInit
<1>2. PICK os : os = portfolio.recs
  OBVIOUS
<1>3. /\ Len(os) \in Nat /\ DOMAIN os = 1..Len(os)
      /\ \A i \in DOMAIN os : IsRecommendation(os[i]) /\ os[i].id = i
  BY <1>1, <1>2, PortfolioIs
<1>4. \A i \in DOMAIN os : Tracks(os[i], os[i])
  BY <1>3, TracksItself
<1>5. RecsOK(os, os)
  BY <1>3, <1>4 DEF RecsOK
<1>6. DOMAIN drops = DropReasons /\ \A r \in DropReasons : drops[r] = 0
  BY <1>1
<1>7. Count(drops) = 0
  BY <1>6, ReasonsFinite, NothingCounted
<1>8. AllThere
  BY <1>1, <1>2, <1>3, <1>7 DEF AllThere
<1>9. drops \in [DropReasons -> Nat]
  BY <1>1
<1> QED BY <1>1, <1>2, <1>5, <1>8, <1>9 DEF FilterInv

LEMMA Origins ==
    ASSUME FilterInv
    PROVE  /\ \A i \in DOMAIN portfolio.recs : IsRecommendation(portfolio.recs[i]) /\ portfolio.recs[i].id = i
           /\ \A i \in DOMAIN recs :
                /\ recs[i].id \in DOMAIN portfolio.recs /\ Tracks(recs[i], portfolio.recs[recs[i].id])
                /\ IsRecommendation(portfolio.recs[recs[i].id])
           /\ Len(recs) \in Nat /\ DOMAIN recs = 1..Len(recs)
BY PortfolioIs DEF FilterInv, RecsOK

(* A stage that judges every recommendation.                               *)
LEMMA JudgedKeeps ==
    ASSUME FilterInv, NEW v, DOMAIN v = DOMAIN recs, \A i \in DOMAIN recs : Judges(v[i], portfolio.recs[recs[i].id]),
           Judged(v), portfolio' = portfolio, removed' = removed
    PROVE  FilterInv'
<1>1. PICK os : os = portfolio.recs
  OBVIOUS
<1>2. PICK n : n = Len(recs)
  OBVIOUS
<1>3. n \in Nat /\ DOMAIN recs = 1..n /\ RecsOK(recs, os) /\ \A i \in DOMAIN os : os[i].id = i
  BY <1>1, <1>2, Origins DEF FilterInv
<1>4. PICK K : K = Because(v, "")
  OBVIOUS
<1>5. K = {i \in 1..n : v[i].reason = ""}
  BY <1>3, <1>4 DEF Because
<1>6. PICK s : s = [i \in DOMAIN v |-> v[i].rec]
  OBVIOUS
<1>7. ASSUME NEW i \in K PROVE Tracks(s[i], os[recs[i].id])
  <2>1. i \in DOMAIN recs /\ v[i].reason = "" /\ s[i] = v[i].rec
    BY <1>3, <1>5, <1>6
  <2>2. Judges(v[i], os[recs[i].id])
    BY <1>1, <2>1
  <2>3. "" \notin DropReasons
    BY DEF DropReasons
  <2> QED BY <2>1, <2>2, <2>3 DEF Judges
<1>8. K \in SUBSET (DOMAIN recs) /\ Versions(s, K, recs, os)
  BY <1>3, <1>5, <1>7 DEF Versions
<1>9. RecsOK(Kept(s, K), os) /\ Len(Kept(s, K)) = Cardinality(K) /\ Cardinality(K) \in Nat
  BY <1>3, <1>8, KeptOK
<1>10. recs' = Kept(s, K)
  BY <1>4, <1>6 DEF Judged, Staying
<1>11. drops' = [r \in DropReasons |-> drops[r] + Cardinality(Because(v, r))]
  BY DEF Judged
<1>12. PICK to : to = [i \in 1..n |-> v[i].reason]
  OBVIOUS
<1>13. PICK D : D = 1..n
  OBVIOUS
<1>14. IsFiniteSet(D) /\ Cardinality(D) = n
  BY <1>3, <1>13, FS_Interval
<1>15. ASSUME NEW r \in DropReasons
       PROVE  drops[r] \in Nat /\ drops'[r] = drops[r] + Cardinality({i \in D : to[i] = r}) /\ drops'[r] \in Nat
  <2>1. Because(v, r) = {i \in D : to[i] = r}
    BY <1>3, <1>12, <1>13 DEF Because
  <2>2. IsFiniteSet({i \in D : to[i] = r})
    BY <1>14, FS_Subset
  <2>3. Cardinality({i \in D : to[i] = r}) \in Nat
    BY <2>2, FS_CardinalityType
  <2>4. drops[r] \in Nat
    BY DEF FilterInv
  <2>5. drops'[r] = drops[r] + Cardinality(Because(v, r))
    BY <1>11
  <2>6. drops'[r] = drops[r] + Cardinality({i \in D : to[i] = r})
    BY <2>1, <2>5
  <2>7. drops'[r] \in Nat
    BY <2>3, <2>4, <2>6
  <2> QED BY <2>4, <2>6, <2>7
<1>16. DOMAIN drops = DropReasons /\ DOMAIN drops' = DropReasons
  BY <1>11 DEF FilterInv
<1>17. drops' \in [DropReasons -> Nat]
  BY <1>11, <1>15
<1>18. PICK g : g = drops'
  OBVIOUS
<1>19. \A r \in DropReasons : drops[r] \in Int /\ g[r] = drops[r] + Cardinality({i \in D : to[i] = r})
  BY <1>15, <1>18
<1>20. Count(drops) \in Int /\ Count(g) = Count(drops) + Cardinality(Among(D, to, DropReasons))
  BY <1>14, <1>16, <1>18, <1>19, ReasonsFinite, TallyGrows
<1>21. PICK A : A = Among(D, to, DropReasons)
  OBVIOUS
<1>22. A \cup K = D /\ A \cap K = {} /\ A \in SUBSET D /\ K \in SUBSET D
  <2>1. "" \notin DropReasons
    BY DEF DropReasons
  <2>2. ASSUME NEW i \in D PROVE to[i] = "" \/ to[i] \in DropReasons
    <3>1. Judges(v[i], os[recs[i].id])
      BY <1>1, <1>3, <1>13
    <3> QED BY <1>12, <1>13, <3>1 DEF Judges
  <2>3. K = {i \in D : to[i] = ""}
    BY <1>5, <1>12, <1>13
  <2>4. A = {i \in D : to[i] \in DropReasons}
    BY <1>21 DEF Among
  <2> QED BY <2>1, <2>2, <2>3, <2>4
<1>23. IsFiniteSet(A) /\ IsFiniteSet(K)
  BY <1>14, <1>22, FS_Subset
<1>24. Cardinality(A \cup K) = Cardinality(A) + Cardinality(K) - Cardinality(A \cap K)
  BY <1>23, FS_Union
<1>25. Cardinality(A) \in Nat /\ Cardinality(K) \in Nat /\ Cardinality(A \cap K) = 0
  BY <1>22, <1>23, FS_CardinalityType, FS_EmptySet
<1>26. n = Cardinality(A) + Cardinality(K)
  <2>1. Cardinality(A \cup K) = n
    BY <1>14, <1>22
  <2>2. PICK a, k, b : a = Cardinality(A) /\ k = Cardinality(K) /\ b = Cardinality(A \cap K)
    OBVIOUS
  <2>3. n = a + k - b /\ a \in Nat /\ k \in Nat /\ b = 0
    BY <1>24, <1>25, <2>1, <2>2
  <2>4. n = a + k
    BY <2>3
  <2> QED BY <2>2, <2>4
<1>27. AllThere'
  <2>1. Len(recs') = Cardinality(K)
    BY <1>9, <1>10
  <2>2. Len(os) = n + removed + Count(drops) /\ removed \in Int
    BY <1>1, <1>2 DEF FilterInv, AllThere
  <2>3. Count(drops') = Count(drops) + Cardinality(A)
    BY <1>18, <1>20, <1>21
  <2>4. Len(os) = Len(recs') + removed' + Count(drops')
    BY <1>3, <1>20, <1>25, <1>26, <2>1, <2>2, <2>3
  <2>5. portfolio'.recs = os
    BY <1>1
  <2> QED BY <2>4, <2>5 DEF AllThere
<1>28. RecsOK(recs', portfolio'.recs)
  BY <1>1, <1>9, <1>10
<1> QED BY <1>17, <1>27, <1>28 DEF FilterInv

(* A stage that takes some out, and says how many.                         *)
LEMMA RemovalKeeps ==
    ASSUME FilterInv, portfolio' = portfolio, drops' = drops, RecsOK(recs', portfolio.recs),
           removed' = removed + Len(recs) - Len(recs')
    PROVE  FilterInv'
<1>1. Len(recs) \in Nat /\ Len(recs') \in Nat /\ removed \in Int
  BY DEF FilterInv, RecsOK
<1>2. removed' \in Int
  BY <1>1
<1>3. Len(recs') + removed' = Len(recs) + removed
  BY <1>1
<1>4. Len(portfolio.recs) = Len(recs) + removed + Count(drops)
  BY DEF FilterInv, AllThere
<1>5. Len(portfolio'.recs) = Len(recs') + removed' + Count(drops')
  BY <1>3, <1>4
<1>6. AllThere'
  BY <1>5 DEF AllThere
<1> QED BY <1>2, <1>6 DEF FilterInv

LEMMA SubsetKeeps ==
    ASSUME FilterInv, NEW K \in SUBSET (DOMAIN recs), NEW s, \A i \in K : Tracks(s[i], portfolio.recs[recs[i].id]),
           recs' = Kept(s, K), portfolio' = portfolio, drops' = drops, removed' = removed + Len(recs) - Len(recs')
    PROVE  FilterInv'
<1>1. PICK os : os = portfolio.recs
  OBVIOUS
<1>2. RecsOK(recs, os) /\ \A i \in DOMAIN os : os[i].id = i
  BY <1>1, Origins DEF FilterInv
<1>3. Versions(s, K, recs, os)
  BY <1>1 DEF Versions
<1>4. RecsOK(Kept(s, K), os)
  BY <1>2, <1>3, KeptOK
<1> QED BY <1>1, <1>4, RemovalKeeps

LEMMA UntouchedKeeps ==
    ASSUME FilterInv, portfolio' = portfolio, recs' = recs, drops' = drops, removed' = removed PROVE FilterInv'
<1>1. AllThere'
  BY DEF FilterInv, AllThere
<1> QED BY <1>1 DEF FilterInv

LEMMA CoverageKeeps ==
    ASSUME FilterInv, portfolio' = portfolio, NEW pct \in Int, ApplyCoverage(pct) PROVE FilterInv'
<1>1. removed' = removed
  BY DEF ApplyCoverage
<1>2. CASE recs' = recs /\ drops' = drops
  BY <1>1, <1>2, UntouchedKeeps
<1>3. CASE pct <= 0 /\ Judged([i \in DOMAIN recs |-> Drop("coverage-sized-to-zero")])
  <2>1. PICK v : v = [i \in DOMAIN recs |-> Drop("coverage-sized-to-zero")]
    OBVIOUS
  <2>2. "coverage-sized-to-zero" \in DropReasons
    BY DEF DropReasons
  <2>3. \A i \in DOMAIN recs : Judges(v[i], portfolio.recs[recs[i].id])
    BY <2>1, <2>2, DropJudges
  <2>4. DOMAIN v = DOMAIN recs /\ Judged(v)
    BY <1>3, <2>1
  <2> QED BY <1>1, <2>3, <2>4, JudgedKeeps
<1>4. CASE pct \in 1..99 /\ Judged([i \in DOMAIN recs |-> CoverageOne(recs[i], pct)])
  <2>1. PICK v : v = [i \in DOMAIN recs |-> CoverageOne(recs[i], pct)]
    OBVIOUS
  <2>2. ASSUME NEW i \in DOMAIN recs PROVE Judges(v[i], portfolio.recs[recs[i].id])
    <3>1. PICK o, r : o = portfolio.recs[recs[i].id] /\ r = recs[i]
      OBVIOUS
    <3>2. IsRecommendation(o) /\ Tracks(r, o)
      BY <3>1, Origins
    <3>3. Judges(CoverageOne(r, pct), o)
      BY <1>4, <3>2, CoverageJudges
    <3> QED BY <2>1, <3>1, <3>3
  <2>3. DOMAIN v = DOMAIN recs /\ Judged(v)
    BY <1>4, <2>1
  <2> QED BY <1>1, <2>2, <2>3, JudgedKeeps
<1> QED BY <1>2, <1>3, <1>4 DEF ApplyCoverage

LEMMA TargetKeeps ==
    ASSUME FilterInv, portfolio' = portfolio, NEW target, IsReading(target), ApplyTargetCoverage(target) PROVE FilterInv'
<1>1. removed' = removed
  BY DEF ApplyTargetCoverage
<1>2. CASE recs' = recs /\ drops' = drops
  BY <1>1, <1>2, UntouchedKeeps
<1>3. CASE Judged([i \in DOMAIN recs |-> TargetOne(recs[i], target)])
  <2>1. PICK v : v = [i \in DOMAIN recs |-> TargetOne(recs[i], target)]
    OBVIOUS
  <2>2. ASSUME NEW i \in DOMAIN recs PROVE Judges(v[i], portfolio.recs[recs[i].id])
    <3>1. PICK o, r : o = portfolio.recs[recs[i].id] /\ r = recs[i]
      OBVIOUS
    <3>2. IsRecommendation(o) /\ Tracks(r, o)
      BY <3>1, Origins
    <3>3. Judges(TargetOne(r, target), o)
      BY <3>2, TargetJudges
    <3> QED BY <2>1, <3>1, <3>3
  <2>3. DOMAIN v = DOMAIN recs /\ Judged(v)
    BY <1>3, <2>1
  <2> QED BY <1>1, <2>2, <2>3, JudgedKeeps
<1> QED BY <1>2, <1>3 DEF ApplyTargetCoverage

LEMMA PoolKeeps ==
    ASSUME FilterInv, portfolio' = portfolio, NEW minimum, ApplyMinPoolSize(minimum) PROVE FilterInv'
<1>1. removed' = removed
  BY DEF ApplyMinPoolSize
<1>2. CASE recs' = recs /\ drops' = drops
  BY <1>1, <1>2, UntouchedKeeps
<1>3. CASE Judged([i \in DOMAIN recs |-> PoolOne(recs[i], minimum)])
  <2>1. PICK v : v = [i \in DOMAIN recs |-> PoolOne(recs[i], minimum)]
    OBVIOUS
  <2>2. \A i \in DOMAIN recs : Judges(v[i], portfolio.recs[recs[i].id])
    BY <2>1, Origins, PoolJudges
  <2>3. DOMAIN v = DOMAIN recs /\ Judged(v)
    BY <1>3, <2>1
  <2> QED BY <1>1, <2>2, <2>3, JudgedKeeps
<1> QED BY <1>2, <1>3 DEF ApplyMinPoolSize

LEMMA ResizeTracks ==
    ASSUME NEW o, IsRecommendation(o), NEW r, Tracks(r, o), NEW n, CanResize(r, n) PROVE Tracks(ResizeCount(r, n), o)
<1>1. r.count \in Int
  BY DEF Tracks
<1>2. n \in Int /\ r.count > 0
  BY <1>1 DEF CanResize
<1>3. CASE n = r.count
  BY <1>3 DEF ResizeCount
<1>4. CASE n # r.count
  <2>1. PICK s : s = ScaleRecommendationCosts(r, Rat(n, r.count))
    OBVIOUS
  <2>2. PICK w : w = [s EXCEPT !.count = n]
    OBVIOUS
  <2>3. Tracks(w, o)
    BY <1>2, <2>1, <2>2, ResizedTracks
  <2>4. ResizeCount(r, n) = w
    BY <1>4, <2>1, <2>2 DEF ResizeCount
  <2> QED BY <2>3, <2>4
<1> QED BY <1>3, <1>4

LEMMA AdjustKeeps == ASSUME FilterInv, portfolio' = portfolio, AdjustForExisting PROVE FilterInv'
<1>1. drops' = drops
  BY DEF AdjustForExisting
<1>2. CASE recs' = recs /\ removed' = removed
  BY <1>1, <1>2, UntouchedKeeps
<1>3. ASSUME NEW left, \A i \in StillWanted(recs, left) : CanResize(recs[i], left[i]), recs' = Resized(recs, left),
             removed' = removed + Len(recs) - Len(recs')
      PROVE  FilterInv'
  <2>1. PICK K : K = StillWanted(recs, left)
    OBVIOUS
  <2>2. K \in SUBSET (DOMAIN recs)
    BY <2>1 DEF StillWanted
  <2>3. PICK s : s = [i \in DOMAIN recs |-> ResizeCount(recs[i], left[i])]
    OBVIOUS
  <2>4. ASSUME NEW i \in K PROVE Tracks(s[i], portfolio.recs[recs[i].id])
    <3>1. PICK o, r, n : o = portfolio.recs[recs[i].id] /\ r = recs[i] /\ n = left[i]
      OBVIOUS
    <3>2. IsRecommendation(o) /\ Tracks(r, o)
      BY <2>2, <3>1, Origins
    <3>3. CanResize(r, n)
      BY <1>3, <2>1, <3>1
    <3>4. Tracks(ResizeCount(r, n), o)
      BY <3>2, <3>3, ResizeTracks
    <3> QED BY <2>2, <2>3, <3>1, <3>4
  <2>5. recs' = Kept(s, K)
    BY <1>3, <2>1, <2>3 DEF Resized
  <2> QED BY <1>1, <1>3, <2>2, <2>4, <2>5, SubsetKeeps
<1>4. CASE /\ recs' = Kept(recs, {i \in DOMAIN recs : ~PoolDeferred(recs[i], Recent)})
           /\ removed' = removed + Len(recs) - Len(recs')
  <2>1. PICK K : K = {i \in DOMAIN recs : ~PoolDeferred(recs[i], Recent)}
    OBVIOUS
  <2>2. K \in SUBSET (DOMAIN recs)
    BY <2>1
  <2>3. \A i \in K : Tracks(recs[i], portfolio.recs[recs[i].id])
    BY <2>2, Origins
  <2> QED BY <1>1, <1>4, <2>1, <2>2, <2>3, SubsetKeeps
<1> QED BY <1>2, <1>3, <1>4 DEF AdjustForExisting

LEMMA SelectKeeps == ASSUME FilterInv, portfolio' = portfolio, NEW f, Select(f) PROVE FilterInv'
<1>1. PICK K \in SUBSET (DOMAIN recs) : recs' = Kept(recs, K)
  BY DEF Select
<1>2. \A i \in K : Tracks(recs[i], portfolio.recs[recs[i].id])
  BY Origins
<1>3. drops' = drops /\ removed' = removed + Len(recs) - Len(recs')
  BY DEF Select
<1> QED BY <1>1, <1>2, <1>3, SubsetKeeps

LEMMA PassingTracks == ASSUME NEW o, NEW r, Tracks(r, o) PROVE Tracks(Passing(r), o)
<1>1. PICK m : m = BreakEven(r)
  OBVIOUS
<1>2. PICK w : w = [r EXCEPT !.breakEven = m]
  OBVIOUS
<1>3. "breakEven" \in Untracked
  BY DEF Untracked
<1>4. Tracks(w, o)
  BY <1>2, <1>3, SetUntracked
<1>5. Passing(r) = r \/ Passing(r) = w
  BY <1>1, <1>2 DEF Passing
<1> QED BY <1>4, <1>5

LEMMA ScoreKeeps == ASSUME FilterInv, portfolio' = portfolio, NEW cfg, ApplyScore(cfg) PROVE FilterInv'
<1>1. PICK os : os = portfolio.recs
  OBVIOUS
<1>2. /\ RecsOK(recs, os) /\ (\A i \in DOMAIN os : os[i].id = i)
      /\ Len(recs) \in Nat /\ DOMAIN recs = 1..Len(recs)
  BY <1>1, Origins DEF FilterInv
<1>3. PICK K : K = {i \in DOMAIN recs : FilterReason(recs[i], cfg) = ""}
  OBVIOUS
<1>4. PICK D : D = {i \in DOMAIN recs : FilterReason(recs[i], cfg) # ""}
  OBVIOUS
<1>5. K \in SUBSET (DOMAIN recs) /\ D \in SUBSET (DOMAIN recs) /\ K \cup D = DOMAIN recs /\ K \cap D = {}
  BY <1>3, <1>4
<1>6. IsFiniteSet(DOMAIN recs) /\ Cardinality(DOMAIN recs) = Len(recs)
  <2>1. PICK n \in Nat : n = Len(recs)
    BY <1>2
  <2>2. IsFiniteSet(1..n) /\ Cardinality(1..n) = n
    BY FS_Interval
  <2> QED BY <1>2, <2>1, <2>2
<1>7. IsFiniteSet(K) /\ IsFiniteSet(D)
  BY <1>5, <1>6, FS_Subset
<1>8. Cardinality(K \cup D) = Cardinality(K) + Cardinality(D) - Cardinality(K \cap D)
  BY <1>7, FS_Union
<1>9. PICK c, d, e : c = Cardinality(K) /\ d = Cardinality(D) /\ e = Cardinality(K \cap D)
  OBVIOUS
<1>10. c \in Nat /\ d \in Nat /\ e = 0
  BY <1>5, <1>7, <1>9, FS_CardinalityType, FS_EmptySet
<1>11. Len(recs) = c + d - e
  <2>1. Cardinality(K \cup D) = Len(recs)
    BY <1>5, <1>6
  <2> QED BY <1>8, <1>9, <2>1
<1>12. PICK f \in [1..c -> K] :
         /\ \A m, n \in 1..c : m < n => f[m] # f[n] /\ ~ScoredBefore(recs[f[n]], recs[f[m]])
         /\ recs' = [n \in 1..c |-> Passing(recs[f[n]])]
  BY <1>3, <1>9 DEF ApplyScore, Score
<1>13. Picks(f, c, K)
  <2>1. ASSUME NEW a \in 1..c, NEW b \in 1..c, f[a] = f[b] PROVE a = b
    <3>1. ~(a < b) /\ ~(b < a)
      BY <1>12, <2>1
    <3> QED BY <1>10, <3>1
  <2> QED BY <1>12, <2>1 DEF Picks
<1>14. PICK s : s = [i \in DOMAIN recs |-> Passing(recs[i])]
  OBVIOUS
<1>15. Versions(s, K, recs, os)
  <2>1. ASSUME NEW i \in K PROVE Tracks(s[i], os[recs[i].id])
    <3>1. i \in DOMAIN recs
      BY <1>5
    <3>2. Tracks(recs[i], os[recs[i].id])
      BY <1>2, <3>1 DEF RecsOK
    <3> QED BY <1>14, <3>1, <3>2, PassingTracks
  <2> QED BY <2>1 DEF Versions
<1>16. PICK ns : ns = [n \in 1..c |-> s[f[n]]]
  OBVIOUS
<1>17. RecsOK(ns, os) /\ Len(ns) = c
  <2>1. RecsOK(recs, os)
    BY <1>2
  <2>2. \A i \in DOMAIN os : os[i].id = i
    BY <1>2
  <2>3. K \in SUBSET (DOMAIN recs)
    BY <1>5
  <2>4. c \in Nat
    BY <1>10
  <2> QED BY <2>1, <2>2, <2>3, <2>4, <1>13, <1>15, <1>16, PickedOK
<1>18. recs' = ns
  <2>1. \A n \in 1..c : f[n] \in DOMAIN recs
    BY <1>5
  <2>2. \A n \in 1..c : s[f[n]] = Passing(recs[f[n]])
    BY <1>14, <2>1
  <2> QED BY <1>12, <1>16, <2>2
<1>19. removed' = removed + d /\ drops' = drops
  BY <1>4, <1>9 DEF ApplyScore
<1>20. removed \in Int
  BY DEF FilterInv
<1>21. removed' = removed + Len(recs) - Len(recs')
  BY <1>10, <1>11, <1>17, <1>18, <1>19, <1>20
<1> QED BY <1>1, <1>17, <1>18, <1>19, <1>21, RemovalKeeps

LEMMA PipelineKeeps == FilterInv /\ [PipelineNext]_pipelineVars => FilterInv'
<1> SUFFICES ASSUME FilterInv, [PipelineNext]_pipelineVars PROVE FilterInv'
  OBVIOUS
<1>1. CASE UNCHANGED pipelineVars
  <2>1. portfolio' = portfolio /\ recs' = recs /\ drops' = drops /\ removed' = removed
    BY <1>1 DEF pipelineVars
  <2> QED BY <2>1, UntouchedKeeps
<1>2. CASE PipelineNext
  <2>1. portfolio' = portfolio /\ Stage
    BY <1>2 DEF PipelineNext
  <2>2. ASSUME NEW pct \in Coverages, ApplyCoverage(pct) PROVE FilterInv'
    <3>1. pct \in Int
      BY FilterAssumption
    <3> QED BY <2>1, <2>2, <3>1, CoverageKeeps
  <2>3. ASSUME NEW target \in Targets, ApplyTargetCoverage(target) PROVE FilterInv'
    <3>1. IsReading(target)
      BY FilterAssumption
    <3> QED BY <2>1, <2>3, <3>1, TargetKeeps
  <2>4. ASSUME NEW minimum \in PoolSizes, ApplyMinPoolSize(minimum) PROVE FilterInv'
    BY <2>1, <2>4, PoolKeeps
  <2>5. ASSUME NEW cfg \in ScoreConfigs, ApplyScore(cfg) PROVE FilterInv'
    BY <2>1, <2>5, ScoreKeeps
  <2>6. ASSUME NEW f \in Selections, Select(f) PROVE FilterInv'
    BY <2>1, <2>6, SelectKeeps
  <2> QED BY <2>1, <2>2, <2>3, <2>4, <2>5, <2>6, AdjustKeeps DEF Stage
<1> QED BY <1>1, <1>2

LEMMA FilterHolds == PipelineSpec => []FilterInv
BY PipelineStarts, PipelineKeeps, PTL DEF PipelineSpec

(* Whatever the stages and their order, a recommendation is still in the   *)
(* list, was handed back as filtered, or is counted as dropped, and none   *)
(* is there twice.                                                         *)
THEOREM NoneVanishes == PipelineSpec => []NothingVanishes
<1>1. FilterInv => NothingVanishes
  BY DEF FilterInv, AllThere, Count, NothingVanishes, RecsOK
<1> QED BY <1>1, FilterHolds, PTL

(* ScaleRecommendationCosts and ResizeCount keep money and count in step,  *)
(* through any number of stages, in any order.                             *)
THEOREM PricesKeepPace == PipelineSpec => []PricesFollowCounts
<1>1. FilterInv => PricesFollowCounts
  <2> SUFFICES ASSUME FilterInv, NEW i \in DOMAIN recs, NEW r, r = recs[i], NEW o, o = portfolio.recs[r.id]
               PROVE  \A f \in MoneyFields :
                        IF o[f] = Nil THEN r[f] = Nil
                        ELSE IF ~IsSavingsPlan(r.service)
                        THEN RMul(r[f], Int2Rat(o.count)) = RMul(o[f], Int2Rat(r.count))
                        ELSE o.hourly = Nil \/ RMul(r[f], o.hourly) = RMul(o[f], r.hourly)
    BY DEF PricesFollowCounts, MoneyFields
  <2>1. IsRecommendation(o) /\ Tracks(r, o)
    BY Origins
  <2>2. r.service = o.service /\ o.count \in Int
    BY <2>1 DEF Tracks, Same, IsRecommendation
  <2>3. Int2Rat(o.count) # Nil
    BY <2>2, IntRat, NamesApart
  <2> SUFFICES ASSUME NEW f \in MoneyFields
               PROVE  IF o[f] = Nil THEN r[f] = Nil
                      ELSE IF ~IsSavingsPlan(r.service)
                      THEN RMul(r[f], Int2Rat(o.count)) = RMul(o[f], Int2Rat(r.count))
                      ELSE o.hourly = Nil \/ RMul(r[f], o.hourly) = RMul(o[f], r.hourly)
    OBVIOUS
  <2>4. InStep(r[f], o[f], r, o)
    BY <2>1 DEF Tracks
  <2>5. CASE IsSavingsPlan(r.service)
    <3>1. PricedBy(o) = o.hourly /\ PricedBy(r) = r.hourly
      BY <2>2, <2>5 DEF PricedBy
    <3> QED BY <2>4, <2>5, <3>1 DEF InStep
  <2>6. CASE ~IsSavingsPlan(r.service)
    <3>1. PricedBy(o) = Int2Rat(o.count) /\ PricedBy(r) = Int2Rat(r.count)
      BY <2>2, <2>6 DEF PricedBy
    <3> QED BY <2>3, <2>4, <2>6, <3>1 DEF InStep
  <2> QED BY <2>5, <2>6
<1> QED BY <1>1, FilterHolds, PTL
=============================================================================
