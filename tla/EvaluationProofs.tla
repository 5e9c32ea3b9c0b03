---- MODULE EvaluationProofs ----
(***************************************************************************)
(* Proofs about Evaluation, for any receipts, plans, ledgers and maintained *)
(* files that the schemas let through.                                     *)
(***************************************************************************)
EXTENDS Evaluation, SequenceTheorems, FiniteSetTheorems, WellFoundedInduction, TLAPS

-----------------------------------------------------------------------------
(***************************************************************************)
(* Sorting by rank.                                                        *)
(***************************************************************************)

\* In a finite set with a strict total order, the number of elements below an
\* element is its place.
LEMMA Ranking ==
  ASSUME NEW S, IsFiniteSet(S), NEW below \in [S -> SUBSET S],
         \A x \in S : x \notin below[x],
         \A x, y \in S : x # y => x \in below[y] \/ y \in below[x],
         \A x, y \in S : x \in below[y] => below[x] \subseteq below[y]
  PROVE  /\ Cardinality(S) \in Nat
         /\ \A x \in S : Cardinality(below[x]) \in 0..(Cardinality(S) - 1)
         /\ \A x, y \in S : x \in below[y] <=> Cardinality(below[x]) < Cardinality(below[y])
         /\ \A x, y \in S : Cardinality(below[x]) = Cardinality(below[y]) => x = y
         /\ \A k \in 0..(Cardinality(S) - 1) : \E x \in S : Cardinality(below[x]) = k
<1>1. Cardinality(S) \in Nat
  BY FS_CardinalityType
<1>2. \A x \in S : /\ IsFiniteSet(below[x]) /\ Cardinality(below[x]) \in Nat
                   /\ Cardinality(below[x]) < Cardinality(S)
  <2>1. SUFFICES ASSUME NEW x \in S
                 PROVE  /\ IsFiniteSet(below[x]) /\ Cardinality(below[x]) \in Nat
                        /\ Cardinality(below[x]) < Cardinality(S)
    OBVIOUS
  <2>2. below[x] \in SUBSET S /\ below[x] # S
    BY <2>1
  <2>3. /\ IsFiniteSet(below[x]) /\ Cardinality(below[x]) <= Cardinality(S)
        /\ Cardinality(S) # Cardinality(below[x])
    BY <2>2, FS_Subset
  <2>4. Cardinality(below[x]) \in Nat
    BY <2>3, FS_CardinalityType
  <2>5. QED
    BY <1>1, <2>3, <2>4
<1>3. \A x, y \in S : x \in below[y] => Cardinality(below[x]) < Cardinality(below[y])
  <2>1. SUFFICES ASSUME NEW x \in S, NEW y \in S, x \in below[y]
                 PROVE  Cardinality(below[x]) < Cardinality(below[y])
    OBVIOUS
  <2>2. below[x] \in SUBSET below[y] /\ below[x] # below[y]
    BY <2>1
  <2>3. IsFiniteSet(below[y])
    BY <1>2
  <2>4. /\ Cardinality(below[x]) <= Cardinality(below[y])
        /\ Cardinality(below[y]) # Cardinality(below[x])
    BY <2>2, <2>3, FS_Subset
  <2>5. QED
    BY <1>2, <2>4
<1>4. \A x, y \in S : Cardinality(below[x]) < Cardinality(below[y]) => x \in below[y]
  BY <1>2, <1>3
<1>5. \A x, y \in S : Cardinality(below[x]) = Cardinality(below[y]) => x = y
  BY <1>2, <1>3
<1> DEFINE rank == [x \in S |-> Cardinality(below[x])]
<1>6. \A k \in 0..(Cardinality(S) - 1) : \E x \in S : Cardinality(below[x]) = k
  <2>1. IsFiniteSet(0..(Cardinality(S) - 1)) /\ Cardinality(0..(Cardinality(S) - 1)) = Cardinality(S)
    <3>1. 0 \in Int /\ Cardinality(S) - 1 \in Int
      BY <1>1
    <3>2. /\ IsFiniteSet(0..(Cardinality(S) - 1))
          /\ Cardinality(0..(Cardinality(S) - 1)) =
               IF 0 > Cardinality(S) - 1 THEN 0 ELSE (Cardinality(S) - 1) - 0 + 1
      BY <3>1, FS_Interval
    <3>3. QED
      BY <1>1, <3>2
  <2>2. rank \in [S -> 0..(Cardinality(S) - 1)]
    BY <1>1, <1>2
  <2>3. rank \in Injection(S, 0..(Cardinality(S) - 1))
    <3>1. \A x, y \in S : rank[x] = rank[y] => x = y
      BY <1>5
    <3>2. QED
      BY <2>2, <3>1 DEF Injection, IsInjective
  <2>4. rank \in Surjection(S, 0..(Cardinality(S) - 1))
    BY <2>1, <2>3, FS_Injection
  <2>5. QED
    BY <2>4 DEF Surjection
<1>7. QED
  BY <1>1, <1>2, <1>3, <1>4, <1>5, <1>6

\* The ascending list of a set has each of its numbers, once and in order.
LEMMA AscendingOrders ==
  ASSUME NEW S \in SUBSET Int, IsFiniteSet(S)
  PROVE  /\ Ascending(S) \in [1..Cardinality(S) -> S]
         /\ Cardinality(S) \in Nat
         /\ Ascending(S) \in Seq(S) /\ Len(Ascending(S)) = Cardinality(S)
         /\ Elements(Ascending(S)) = S
         /\ \A i, j \in 1..Cardinality(S) : i < j => Ascending(S)[i] < Ascending(S)[j]
<1> DEFINE below == [n \in S |-> {m \in S : m < n}]
           A == Ascending(S)
           N == Cardinality(S)
<1>1. /\ below \in [S -> SUBSET S]
      /\ \A x \in S : x \notin below[x]
      /\ \A x, y \in S : x # y => x \in below[y] \/ y \in below[x]
      /\ \A x, y \in S : x \in below[y] => below[x] \subseteq below[y]
      /\ \A x, y \in S : x \in below[y] <=> x < y
  <2>1. \A x, y \in S : x \in below[y] <=> x < y
    OBVIOUS
  <2>2. below \in [S -> SUBSET S]
    OBVIOUS
  <2> HIDE DEF below
  <2>3. S \subseteq Int
    OBVIOUS
  <2>4. \A x \in S : x \notin below[x]
    BY <2>1, <2>3
  <2>5. ASSUME NEW x \in S, NEW y \in S, x # y
        PROVE  x \in below[y] \/ y \in below[x]
    <3>1. x \in Int /\ y \in Int
      BY <2>3
    <3>2. x < y \/ y < x
      BY <2>5, <3>1
    <3>3. QED
      BY <2>1, <3>2
  <2>6. ASSUME NEW x \in S, NEW y \in S, x \in below[y]
        PROVE  below[x] \subseteq below[y]
    <3> SUFFICES ASSUME NEW z \in below[x]
                 PROVE  z \in below[y]
      OBVIOUS
    <3>1. z \in S
      BY <2>2
    <3>2. z < x /\ x < y
      BY <2>1, <2>6, <3>1
    <3>3. x \in Int /\ y \in Int /\ z \in Int
      BY <2>3, <3>1
    <3>4. z < y
      BY <3>2, <3>3
    <3>5. QED
      BY <2>1, <3>1, <3>4
  <2>7. /\ \A x, y \in S : x # y => x \in below[y] \/ y \in below[x]
        /\ \A x, y \in S : x \in below[y] => below[x] \subseteq below[y]
    BY <2>5, <2>6
  <2>8. QED
    BY <2>1, <2>2, <2>4, <2>7
<1> HIDE DEF below
<1>2. /\ N \in Nat
      /\ \A x \in S : Cardinality(below[x]) \in 0..(N - 1)
      /\ \A x, y \in S : x \in below[y] <=> Cardinality(below[x]) < Cardinality(below[y])
      /\ \A k \in 0..(N - 1) : \E x \in S : Cardinality(below[x]) = k
  BY <1>1, Ranking
<1>3. \A k \in 1..N : A[k] \in S /\ Cardinality(below[A[k]]) = k - 1
  <2>1. SUFFICES ASSUME NEW k \in 1..N
                 PROVE  A[k] \in S /\ Cardinality(below[A[k]]) = k - 1
    OBVIOUS
  <2>2. \E n \in S : Cardinality(below[n]) = k - 1
    BY <1>2
  <2>3. A[k] = CHOOSE n \in S : Cardinality(below[n]) = k - 1
    BY DEF Ascending, below
  <2>4. QED
    BY <2>2, <2>3
<1>4. A \in [1..N -> S]
  BY <1>3 DEF Ascending
<1>5. \A i, j \in 1..N : i < j => A[i] < A[j]
  <2>1. SUFFICES ASSUME NEW i \in 1..N, NEW j \in 1..N, i < j
                 PROVE  A[i] < A[j]
    OBVIOUS
  <2>2. Cardinality(below[A[i]]) < Cardinality(below[A[j]])
    BY <1>2, <1>3, <2>1
  <2>3. QED
    BY <1>1, <1>2, <1>3, <2>2
<1>6. \A x \in S : \E k \in 1..N : A[k] = x
  <2>1. SUFFICES ASSUME NEW x \in S
                 PROVE  \E k \in 1..N : A[k] = x
    OBVIOUS
  <2> DEFINE k == Cardinality(below[x]) + 1
  <2>2. k \in 1..N /\ k - 1 = Cardinality(below[x])
    <3>1. N \in Nat /\ Cardinality(below[x]) \in 0..(N - 1)
      BY <1>2
    <3>2. QED
      BY <3>1
  <2> HIDE DEF k
  <2>3. A[k] \in S /\ Cardinality(below[A[k]]) = Cardinality(below[x])
    BY <1>3, <2>2
  <2>4. A[k] \notin below[x] /\ x \notin below[A[k]]
    <3>1. Cardinality(below[x]) \in Int
      BY <1>2
    <3>2. ~(Cardinality(below[x]) < Cardinality(below[x]))
      BY <3>1
    <3>3. QED
      BY <1>2, <2>3, <3>2
  <2>5. A[k] = x
    <3>1. A[k] # x => A[k] \in below[x] \/ x \in below[A[k]]
      BY <1>1, <2>3
    <3>2. QED
      BY <2>4, <3>1
  <2>6. QED
    BY <2>2, <2>5
<1>7. DOMAIN A = 1..N
  BY DEF Ascending
<1>8. A \in Seq(S) /\ Len(A) = N
  BY <1>2, <1>4, <1>7
<1>9. Elements(A) = S
  BY <1>3, <1>6, <1>7 DEF Elements
<1>10. QED
  BY <1>2, <1>4, <1>5, <1>8, <1>9

\* A list that says different things at different places has as many elements
\* as places.
LEMMA DistinctCount ==
  ASSUME NEW s, IsList(s), \A i, j \in DOMAIN s : s[i] = s[j] => i = j
  PROVE  /\ Len(s) \in Nat /\ DOMAIN s = 1..Len(s)
         /\ IsFiniteSet(Elements(s)) /\ Cardinality(Elements(s)) = Len(s)
<1>1. Len(s) \in Nat /\ DOMAIN s = 1..Len(s) /\ s \in [1..Len(s) -> Elements(s)]
  BY DEF IsList
<1>2. s \in Bijection(1..Len(s), Elements(s))
  BY <1>1 DEF Bijection, Injection, Surjection, IsInjective, Elements
<1>3. ExistsBijection(1..Len(s), Elements(s))
  BY <1>2 DEF ExistsBijection
<1>4. IsFiniteSet(1..Len(s)) /\ Cardinality(1..Len(s)) = Len(s)
  <2>1. 1 \in Int /\ Len(s) \in Int
    BY <1>1
  <2>2. IsFiniteSet(1..Len(s)) /\ Cardinality(1..Len(s)) = IF 1 > Len(s) THEN 0 ELSE Len(s) - 1 + 1
    BY <2>1, FS_Interval
  <2>3. QED
    BY <1>1, <2>2
<1>5. QED
  BY <1>1, <1>3, <1>4, FS_Bijection

\* The other way round, a list has the same length and the same elements.
LEMMA Reversal ==
  ASSUME NEW s, IsList(s)
  PROVE  /\ IsList(Reversed(s)) /\ Len(Reversed(s)) = Len(s)
         /\ DOMAIN Reversed(s) = DOMAIN s
         /\ Elements(Reversed(s)) = Elements(s)
         /\ DOMAIN s = 1..Len(s) /\ Len(s) \in Nat
         /\ \A i \in DOMAIN s : /\ Len(s) + 1 - i \in DOMAIN s
                                /\ Reversed(s)[i] = s[Len(s) + 1 - i]
<1>1. Len(s) \in Nat /\ DOMAIN s = 1..Len(s) /\ s \in [1..Len(s) -> Elements(s)]
  BY DEF IsList
<1>2. /\ DOMAIN Reversed(s) = 1..Len(s)
      /\ \A i \in 1..Len(s) : /\ Len(s) + 1 - i \in 1..Len(s)
                              /\ Reversed(s)[i] = s[Len(s) + 1 - i]
  BY <1>1 DEF Reversed
<1>3. \A i \in 1..Len(s) : Len(s) + 1 - (Len(s) + 1 - i) = i
  BY <1>1
<1>4. Elements(Reversed(s)) = Elements(s)
  BY <1>1, <1>2, <1>3 DEF Elements
<1>5. Reversed(s) \in [1..Len(s) -> Elements(s)]
  BY <1>1, <1>2 DEF Reversed
<1>6. Reversed(s) \in Seq(Elements(s)) /\ Len(Reversed(s)) = Len(s)
  BY <1>1, <1>2, <1>5
<1>7. QED
  BY <1>1, <1>2, <1>4, <1>6 DEF IsList

-----------------------------------------------------------------------------
(***************************************************************************)
(* Powers of ten.                                                          *)
(***************************************************************************)
\* How far a value can be moved.
Digits == 0..(MaxExponent - MinExponent)

\* The powers are positive numbers.
LEMMA PowerTypes == \A n \in Digits : n \in Nat /\ Pow[n] \in Nat \ {0}
BY ScaleAssumption DEF Digits

\* Each is ten times the one before.
LEMMA NextPower ==
  ASSUME NEW n \in Nat, n + 1 \in Digits
  PROVE  n \in Digits /\ Pow[n + 1] = 10 * Pow[n]
BY ScaleAssumption DEF Digits

\* Induction over the natural numbers, for a set: of the numbers left out, one
\* would be the least.
LEMMA SetInduction ==
  ASSUME NEW S, 0 \in S, \A n \in Nat : n \in S => n + 1 \in S
  PROVE  Nat \subseteq S
<1> DEFINE T == Nat \ S
           R == OpToRel(<, Nat)
<1>1. SUFFICES ASSUME T # {}
               PROVE  FALSE
  OBVIOUS
<1>2. PICK n \in T : \A m \in T : <<m, n>> \notin R
  <2>1. T \subseteq Nat
    OBVIOUS
  <2> HIDE DEF T, R
  <2>2. QED
    BY <1>1, <2>1, NatLessThanWellFounded, WFMin DEF R
<1>3. n # 0 /\ n - 1 \in T
  OBVIOUS
<1>4. <<n - 1, n>> \in R
  BY <1>3 DEF OpToRel
<1> HIDE DEF T, R
<1>5. QED
  BY <1>2, <1>3, <1>4

\* Moving by m digits and then by n is moving by their sum.
LEMMA PowersMultiply ==
  ASSUME NEW m \in Digits, NEW n \in Nat, m + n \in Digits
  PROVE  n \in Digits /\ Pow[m + n] = Pow[m] * Pow[n]
<1> DEFINE S == {k \in Nat : m + k \in Digits => k \in Digits /\ Pow[m + k] = Pow[m] * Pow[k]}
<1>1. m \in Nat /\ Pow[m] \in Nat
  BY PowerTypes
<1>2. 0 \in S
  <2>1. 0 \in Digits /\ Pow[0] = 1
    BY ScaleAssumption DEF Digits
  <2>2. m + 0 = m /\ Pow[m] = Pow[m] * 1
    BY <1>1
  <2>3. QED
    BY <2>1, <2>2
<1>3. ASSUME NEW k \in Nat, k \in S, m + (k + 1) \in Digits
      PROVE  k + 1 \in Digits /\ Pow[m + (k + 1)] = Pow[m] * Pow[k + 1]
  <2>1. m + k \in Nat /\ (m + k) + 1 = m + (k + 1)
    BY <1>1
  <2>2. m + k \in Digits /\ Pow[m + (k + 1)] = 10 * Pow[m + k]
    BY <1>3, <2>1, NextPower
  <2>3. k \in Digits /\ Pow[m + k] = Pow[m] * Pow[k]
    BY <1>3, <2>2
  <2>4. k + 1 \in Digits
    BY <1>1, <1>3, ScaleAssumption DEF Digits
  <2>5. Pow[k + 1] = 10 * Pow[k] /\ Pow[k] \in Nat
    BY <2>3, <2>4, NextPower, PowerTypes
  <2>6. 10 * (Pow[m] * Pow[k]) = Pow[m] * (10 * Pow[k])
    BY <1>1, <2>5
  <2>7. QED
    BY <2>2, <2>3, <2>4, <2>5, <2>6
<1>4. \A k \in Nat : k \in S => k + 1 \in S
  BY <1>3
<1>5. Nat \subseteq S
  <2> HIDE DEF S
  <2>1. QED
    BY <1>2, <1>4, SetInduction
<1>6. QED
  BY <1>5

\* A floor and its remainder make the value up.
LEMMA Floor ==
  ASSUME NEW v \in Int, NEW p \in Nat \ {0}
  PROVE  /\ v \div p \in Int /\ v % p \in 0..(p - 1)
         /\ v = p * (v \div p) + (v % p)
OBVIOUS

(***************************************************************************)
(* Comparing quantities.                                                   *)
(***************************************************************************)

\* On the finest scale, a unit of exponent f is as many units of exponent t as
\* the power between them.
LEMMA FinestScale ==
  ASSUME NEW f \in Exponents, NEW t \in Exponents, t <= f
  PROVE  /\ f - t \in Digits /\ t - MinExponent \in Digits /\ f - MinExponent \in Digits
         /\ Pow[f - t] \in Nat \ {0} /\ Pow[t - MinExponent] \in Nat \ {0}
         /\ Pow[f - MinExponent] \in Nat \ {0}
         /\ Pow[f - MinExponent] = Pow[f - t] * Pow[t - MinExponent]
<1>1. /\ MinExponent \in Int /\ MaxExponent \in Int /\ f \in Int /\ t \in Int
      /\ MinExponent <= t /\ f <= MaxExponent
  BY ScaleAssumption DEF Exponents
<1>2. /\ f - t \in Digits /\ t - MinExponent \in Digits /\ f - MinExponent \in Digits
      /\ t - MinExponent \in Nat
      /\ (f - t) + (t - MinExponent) = f - MinExponent
  BY <1>1 DEF Digits
<1>3. Pow[(f - t) + (t - MinExponent)] = Pow[f - t] * Pow[t - MinExponent]
  BY <1>2, PowersMultiply
<1>4. QED
  BY <1>2, <1>3, PowerTypes

\* A floor is at most the quotient and above it by less than one.
LEMMA MovedDown ==
  ASSUME NEW v \in Int, NEW p \in Nat \ {0}, NEW q \in Nat \ {0}
  PROVE  LET w == v \div p
             u == p * q
         IN /\ w \in Int /\ u \in Nat \ {0} /\ w * u \in Int /\ v * q \in Int
            /\ w * u <= v * q /\ v * q <= w * u + u - 1
            /\ v % p = 0 => w * u = v * q
<1> DEFINE w == v \div p
           r == v % p
<1>1. w \in Int /\ r \in 0..(p - 1) /\ v = p * w + r
  BY Floor
<1> HIDE DEF w, r
<1>2. /\ r * q \in Nat /\ v * q = w * (p * q) + r * q
      /\ w * (p * q) \in Int /\ v * q \in Int /\ p * q \in Nat \ {0}
  <2>1. r \in Nat /\ p \in Nat /\ q \in Nat /\ p # 0 /\ q # 0
    BY <1>1
  <2>2. r * q \in Nat /\ p * q \in Nat
    BY <2>1
  <2>3. p * q # 0
    BY <2>1
  <2>4. (p * w + r) * q = w * (p * q) + r * q
    BY <1>1, <2>1
  <2>5. QED
    BY <1>1, <2>2, <2>3, <2>4
<1>3. r * q <= p * q - 1
  <2>1. r + 1 <= p /\ r \in Nat /\ q >= 1
    BY <1>1
  <2>2. (r + 1) * q <= p * q
    BY <2>1
  <2>3. (r + 1) * q = r * q + q
    BY <2>1
  <2>4. QED
    BY <1>2, <2>1, <2>2, <2>3
<1>4. r = 0 => r * q = 0
  BY <1>1
<1>5. QED
  BY <1>1, <1>2, <1>3, <1>4 DEF w, r

\* A move changes a quantity by less than one unit of the scale it moves to,
\* toward the side its rounding names, and not at all under reject_inexact.
LEMMA MovedQuantity ==
  ASSUME NEW v \in Int, NEW f, NEW t, NEW r \in Roundings, Movable(v, f, t, r)
  PROVE  LET w == Rescaled(v, f, t, r)
             u == Exact(1, t)
             x == Exact(v, f)
         IN /\ w \in Int /\ u \in Nat \ {0} /\ x \in Int /\ w * u \in Int
            /\ r = "toward_positive_infinity" => x <= w * u /\ w * u <= x + u - 1
            /\ r = "toward_negative_infinity" => w * u <= x /\ x <= w * u + u - 1
            /\ r = "reject_inexact" => w * u = x
<1> DEFINE w == Rescaled(v, f, t, r)
           u == Exact(1, t)
           x == Exact(v, f)
<1>1. f \in Exponents /\ t \in Exponents /\ f \in Int /\ t \in Int
  BY ScaleAssumption DEF Movable, Exponents
<1>2. CASE t <= f
  <2> DEFINE p == Pow[f - t]
             q == Pow[t - MinExponent]
             z == Pow[f - MinExponent]
  <2>1. p \in Nat \ {0} /\ q \in Nat \ {0} /\ z \in Nat \ {0} /\ z = p * q
    BY <1>1, <1>2, FinestScale
  <2>2. w = v * p /\ u = 1 * q /\ x = v * z
    BY <1>2 DEF Rescaled, Exact
  <2> HIDE DEF p, q, z, w, u, x
  <2>3. u = q /\ w \in Int /\ x \in Int
    BY <2>1, <2>2
  <2>4. (v * p) * q = v * (p * q)
    BY <2>1
  <2>5. w * u = x /\ w * u \in Int
    BY <2>1, <2>2, <2>3, <2>4
  <2>6. QED
    BY <2>1, <2>3, <2>5 DEF w, u, x
<1>3. CASE t > f
  <2> DEFINE p == Pow[t - f]
             q == Pow[f - MinExponent]
             z == Pow[t - MinExponent]
  <2>1. p \in Nat \ {0} /\ q \in Nat \ {0} /\ z \in Nat \ {0} /\ z = p * q
    BY <1>1, <1>3, FinestScale
  <2>2. /\ ~(t <= f) /\ u = 1 * z /\ x = v * q
        /\ r = "toward_positive_infinity" => w = -((-v) \div p)
        /\ r # "toward_positive_infinity" => w = v \div p
        /\ r = "reject_inexact" => v % p = 0
    BY <1>1, <1>3 DEF Rescaled, Exact, Movable
  <2> HIDE DEF p, q, z, w, u, x
  <2>3. u = p * q /\ u \in Nat \ {0}
    BY <2>1, <2>2
  <2>4. CASE r # "toward_positive_infinity"
    <3>1. w = v \div p
      BY <2>2, <2>4
    <3>2. /\ w \in Int /\ w * (p * q) \in Int /\ v * q \in Int
          /\ w * (p * q) <= v * q /\ v * q <= w * (p * q) + p * q - 1
          /\ v % p = 0 => w * (p * q) = v * q
      BY <2>1, <3>1, MovedDown
    <3>3. QED
      BY <2>2, <2>3, <2>4, <3>2 DEF w, u, x
  <2>5. CASE r = "toward_positive_infinity"
    <3> DEFINE d == (-v) \div p
    <3>1. w = -d /\ -v \in Int
      BY <2>2, <2>5
    <3>2. /\ d \in Int /\ d * (p * q) \in Int /\ (-v) * q \in Int
          /\ d * (p * q) <= (-v) * q /\ (-v) * q <= d * (p * q) + p * q - 1
      BY <2>1, <3>1, MovedDown
    <3> HIDE DEF d
    <3>3. (-v) * q = -(v * q) /\ v * q \in Int /\ (-d) * (p * q) = -(d * (p * q))
      BY <2>1, <2>3, <3>2
    <3>4. w \in Int /\ w * u = -(d * (p * q)) /\ x = v * q
      BY <2>2, <2>3, <3>1, <3>2, <3>3
    <3>5. x <= w * u /\ w * u <= x + u - 1 /\ w * u \in Int /\ x \in Int
      BY <2>3, <3>2, <3>3, <3>4
    <3>6. QED
      BY <2>3, <2>5, <3>4, <3>5 DEF w, u, x
  <2>6. QED
    BY <2>4, <2>5
<1>4. QED
  BY <1>1, <1>2, <1>3

\* Integers on one scale compare as the quantities do, up to what was rounded:
\* below stands at or below above when moved, or does not.
LEMMA Compare ==
  ASSUME NEW m \in Int, NEW w \in Int, NEW u \in Nat \ {0}, NEW x \in Int
  PROVE  /\ m <= w /\ w * u <= x => m * u <= x
         /\ m <= w /\ w * u <= x + u - 1 => m * u - x <= u - 1
         /\ w <= m /\ x <= w * u => x <= m * u
         /\ w <= m /\ x <= w * u + u - 1 => x - m * u <= u - 1
         /\ m > w /\ x <= w * u + u - 1 => m * u > x
         /\ w > m /\ w * u <= x + u - 1 => x > m * u
<1>1. m * u \in Int /\ w * u \in Int /\ u \in Int /\ u > 0
  OBVIOUS
<1>2. m <= w => m * u <= w * u
  OBVIOUS
<1>3. w <= m => w * u <= m * u
  OBVIOUS
<1>4. m > w => m * u >= w * u + u
  <2>1. SUFFICES ASSUME m > w PROVE m * u >= w * u + u
    OBVIOUS
  <2>2. m >= w + 1
    BY <2>1
  <2>3. m * u >= (w + 1) * u
    BY <2>2
  <2>4. QED
    BY <2>3
<1>5. w > m => w * u >= m * u + u
  <2>1. SUFFICES ASSUME w > m PROVE w * u >= m * u + u
    OBVIOUS
  <2>2. w >= m + 1
    BY <2>1
  <2>3. w * u >= (m + 1) * u
    BY <2>2
  <2>4. QED
    BY <2>3
<1> DEFINE a == m * u
           b == w * u
<1>6. /\ m <= w => a <= b
      /\ w <= m => b <= a
      /\ m > w => a >= b + u
      /\ w > m => b >= a + u
      /\ a \in Int /\ b \in Int
  BY <1>1, <1>2, <1>3, <1>4, <1>5
<1> HIDE DEF a, b
<1>7. /\ m <= w /\ b <= x => a <= x
      /\ m <= w /\ b <= x + u - 1 => a - x <= u - 1
      /\ w <= m /\ x <= b => x <= a
      /\ w <= m /\ x <= b + u - 1 => x - a <= u - 1
      /\ m > w /\ x <= b + u - 1 => a > x
      /\ w > m /\ b <= x + u - 1 => x > a
  BY <1>6
<1>8. QED
  BY <1>7 DEF a, b

\* What the comparison finds is what the quantities are: a value that satisfies
\* its bound misses it by no more than a loosening rounding hides, and one that
\* does not satisfy it does miss it.
LEMMA Comparison ==
  ASSUME NEW e, NEW o, e.bound \in Int, o.value \in Int, Rounding(e) \in Roundings,
         Comparable(e, o)
  PROVE  /\ Satisfies(e, o) => Miss(e, o) <= Slack(e, o)
         /\ ~Satisfies(e, o) => Miss(e, o) > 0
<1>1. CASE BoundMoves(e)
  <2> DEFINE w == Rescaled(e.bound, e.scale, o.scale, Rounding(e))
             u == Exact(1, o.scale)
             x == Exact(e.bound, e.scale)
             y == Exact(o.value, o.scale)
             m == o.value
             r == Rounding(e)
  <2>1. Movable(e.bound, e.scale, o.scale, Rounding(e))
    BY <1>1 DEF Comparable
  <2>2. /\ w \in Int /\ u \in Nat \ {0} /\ x \in Int /\ w * u \in Int
        /\ r = "toward_positive_infinity" => x <= w * u /\ w * u <= x + u - 1
        /\ r = "toward_negative_infinity" => w * u <= x /\ x <= w * u + u - 1
        /\ r = "reject_inexact" => w * u = x
    BY <2>1, MovedQuantity
  <2>3. y = m * u
    <3>1. o.scale \in Exponents
      BY <2>1 DEF Movable
    <3>2. Pow[o.scale - MinExponent] \in Nat
      <4>1. o.scale <= o.scale
        BY <3>1 DEF Exponents
      <4>2. QED
        BY <3>1, <4>1, FinestScale
    <3> DEFINE q == Pow[o.scale - MinExponent]
    <3>3. u = 1 * q /\ y = m * q
      BY DEF Exact
    <3> HIDE DEF q, u, y
    <3>4. QED
      BY <3>2, <3>3 DEF q
  <2>4. /\ Miss(e, o) = IF e.comparison = "at_most" THEN y - x ELSE x - y
        /\ Slack(e, o) = IF r = Loosening(e) THEN u - 1 ELSE 0
        /\ Loosening(e) = IF e.comparison = "at_most"
                          THEN "toward_positive_infinity" ELSE "toward_negative_infinity"
        /\ Satisfies(e, o) <=> IF e.comparison = "at_most" THEN m <= w ELSE m >= w
    BY <1>1 DEF Miss, Slack, Loosening, Satisfies, Compared
  <2>5. r \in {"reject_inexact", "toward_negative_infinity", "toward_positive_infinity"}
    BY DEF Roundings
  <2> HIDE DEF w, u, x, y, r
  <2>6. /\ m <= w /\ w * u <= x => m * u <= x
        /\ m <= w /\ w * u <= x + u - 1 => m * u - x <= u - 1
        /\ w <= m /\ x <= w * u => x <= m * u
        /\ w <= m /\ x <= w * u + u - 1 => x - m * u <= u - 1
        /\ m > w /\ x <= w * u + u - 1 => m * u > x
        /\ w > m /\ w * u <= x + u - 1 => x > m * u
    BY <2>2, Compare
  <2>7. w * u <= x + u - 1 /\ x <= w * u + u - 1
    BY <2>2, <2>5
  <2>8. CASE e.comparison = "at_most"
    BY <2>2, <2>3, <2>4, <2>5, <2>6, <2>7, <2>8
  <2>9. CASE e.comparison # "at_most"
    BY <2>2, <2>3, <2>4, <2>5, <2>6, <2>7, <2>9
  <2>10. QED
    BY <2>8, <2>9
<1>2. CASE ~BoundMoves(e)
  <2> DEFINE w == Rescaled(o.value, o.scale, e.scale, Rounding(e))
             u == Exact(1, e.scale)
             x == Exact(o.value, o.scale)
             y == Exact(e.bound, e.scale)
             m == e.bound
             r == Rounding(e)
  <2>1. Movable(o.value, o.scale, e.scale, Rounding(e))
    BY <1>2 DEF Comparable
  <2>2. /\ w \in Int /\ u \in Nat \ {0} /\ x \in Int /\ w * u \in Int
        /\ r = "toward_positive_infinity" => x <= w * u /\ w * u <= x + u - 1
        /\ r = "toward_negative_infinity" => w * u <= x /\ x <= w * u + u - 1
        /\ r = "reject_inexact" => w * u = x
    BY <2>1, MovedQuantity
  <2>3. y = m * u
    <3>1. e.scale \in Exponents
      BY <2>1 DEF Movable
    <3>2. Pow[e.scale - MinExponent] \in Nat
      <4>1. e.scale <= e.scale
        BY <3>1 DEF Exponents
      <4>2. QED
        BY <3>1, <4>1, FinestScale
    <3> DEFINE q == Pow[e.scale - MinExponent]
    <3>3. u = 1 * q /\ y = m * q
      BY DEF Exact
    <3> HIDE DEF q, u, y
    <3>4. QED
      BY <3>2, <3>3 DEF q
  <2>4. /\ Miss(e, o) = IF e.comparison = "at_most" THEN x - y ELSE y - x
        /\ Slack(e, o) = IF r = Loosening(e) THEN u - 1 ELSE 0
        /\ Loosening(e) = IF e.comparison = "at_most"
                          THEN "toward_negative_infinity" ELSE "toward_positive_infinity"
        /\ Satisfies(e, o) <=> IF e.comparison = "at_most" THEN w <= m ELSE w >= m
    BY <1>2 DEF Miss, Slack, Loosening, Satisfies, Compared, BoundMoves
  <2>5. r \in {"reject_inexact", "toward_negative_infinity", "toward_positive_infinity"}
    BY DEF Roundings
  <2> HIDE DEF w, u, x, y, r
  <2>6. /\ m <= w /\ w * u <= x => m * u <= x
        /\ m <= w /\ w * u <= x + u - 1 => m * u - x <= u - 1
        /\ w <= m /\ x <= w * u => x <= m * u
        /\ w <= m /\ x <= w * u + u - 1 => x - m * u <= u - 1
        /\ m > w /\ x <= w * u + u - 1 => m * u > x
        /\ w > m /\ w * u <= x + u - 1 => x > m * u
    BY <2>2, Compare
  <2>7. w * u <= x + u - 1 /\ x <= w * u + u - 1
    BY <2>2, <2>5
  <2>8. CASE e.comparison = "at_most"
    BY <2>2, <2>3, <2>4, <2>5, <2>6, <2>7, <2>8
  <2>9. CASE e.comparison # "at_most"
    BY <2>2, <2>3, <2>4, <2>5, <2>6, <2>7, <2>9
  <2>10. QED
    BY <2>8, <2>9
<1>3. QED
  BY <1>1, <1>2
-----------------------------------------------------------------------------
(***************************************************************************)
(* The invariant: assembly.                                                *)
(***************************************************************************)
Planning == Elements(plan.attempts)

\* The receipts of the first n planned attempts.
Gathered(n) == {Ordered(plan)[m].receipt : m \in 1..n} \ {NoDigest}

StatusOf(a) == IF a.receipt = NoDigest THEN "no_receipt" ELSE ReceiptOf[a.receipt].status

Accounted == ScheduleAccounted(plan) /\ ChainsHold(plan)

\* While the receipts are gathered, what is known is what they say.
Gathering ==
  pc = "gather" =>
    /\ plan # None /\ Accounted
    /\ cursor <= Len(plan.attempts) + 1
    /\ statuses = [n \in 1..(cursor - 1) |-> StatusOf(Ordered(plan)[n])]
    /\ Gathered(cursor - 1) \subseteq Digests
    /\ agreed = None => Gathered(cursor - 1) = {}
    /\ agreed # None => /\ Gathered(cursor - 1) # {}
                        /\ \A d \in Gathered(cursor - 1) : ReceiptOf[d].facts = agreed

\* The ledger that the plan has, when its receipts agree on these facts.
LedgerOf(facts) ==
  [facts |-> facts,
   eligible |-> EligibleOf(Ordered(plan),
                  [n \in 1..Len(plan.attempts) |-> StatusOf(Ordered(plan)[n])]),
   attempts |-> [n \in 1..Len(plan.attempts) |->
                   [id |-> Ordered(plan)[n].id, status |-> StatusOf(Ordered(plan)[n]),
                    receipt |-> Ordered(plan)[n].receipt]]]

Ledgered ==
  plan # None /\ evidenceSet # None =>
    /\ Accounted
    /\ Gathered(Len(plan.attempts)) \subseteq Digests
    /\ \E facts : /\ {ReceiptOf[d].facts : d \in Gathered(Len(plan.attempts))} = {facts}
                  /\ evidenceSet = LedgerOf(facts)

-----------------------------------------------------------------------------
(***************************************************************************)
(* The invariant: evaluation.                                              *)
(***************************************************************************)
Eligible == EligibleAttempts(evidenceSet)

\* An eligible attempt whose receipt was read and could be.
Read(a) == a.receipt \in Digests /\ Readable(Registry, ReceiptOf[a.receipt].observed)

AllRuns == [k \in 1..Len(Eligible) |-> Run(Eligible[k])]

Authorized == evidenceSet # None /\ AuthoritiesHold /\ EligibleHolds(evidenceSet)

Loading ==
  pc = "load" =>
    /\ Authorized
    /\ cursor <= Len(Eligible) + 1
    /\ runs = [k \in 1..(cursor - 1) |-> Run(Eligible[k])]
    /\ \A k \in 1..(cursor - 1) : Read(Eligible[k])

\* What the checks have come to when all phases before q are over.
Made(q) ==
  [n \in DOMAIN Checks |->
     IF PhaseOf(Checks[n]) < q THEN Judged(Checks[n], AllRuns) ELSE "not_run"]

\* Every comparison of the phases before q can be made.
ComparableBefore(q) ==
  \A n \in DOMAIN Checks : PhaseOf(Checks[n]) < q =>
    \A k \in 1..Len(Eligible) : \A o \in Reports(AllRuns[k], Checks[n]) : Comparable(Checks[n], o)

FailsIn(p) == \E n \in DOMAIN Checks : /\ PhaseOf(Checks[n]) = p
                                       /\ Judged(Checks[n], AllRuns) \in Failed

\* The evaluation has come to phase p, and nothing failed before.
Reaches(p) ==
  /\ Authorized
  /\ \A k \in 1..Len(Eligible) : Read(Eligible[k])
  /\ ComparableBefore(p)
  /\ \A q \in 1..3 : q < p => ~FailsIn(q)

\* It ends there: phase p failed, or there are no phases left.
EndsAt(p) ==
  \/ p \in 1..3 /\ Reaches(p) /\ ComparableBefore(p + 1) /\ FailsIn(p)
  \/ p = 4 /\ Reaches(p)

Last(p) == IF p = 4 THEN 4 ELSE p + 1

Deciding ==
  /\ pc = "phase" => /\ runs = AllRuns /\ Reaches(phase) /\ outcomes = Made(phase)
  /\ pc = "verdict" => /\ runs = AllRuns /\ EndsAt(phase) /\ outcomes = Made(Last(phase))

\* The emitted receipt is the one that the evidence set, the policy and the
\* registry determine, whatever order the policy is in.
Emitted ==
  receipt # None =>
    \E p \in 1..4 : EndsAt(p) /\ receipt = Decided(AllRuns, Made(Last(p)), p)

\* What the schemas say of the plan, the evidence set and the index holds on.
PlanTyped(p) ==
  /\ p \in Layouts(p) /\ None \notin Layouts(p)
  /\ \A a \in Elements(p.attempts) : a.id # NoAttempt

IndexTyped ==
  /\ index \in [registries : {index.registries}, policies : Seq(Elements(index.policies))]
  /\ \A r \in Elements(index.registries) : \A m \in Elements(r.metrics) : m.rounding \in Roundings
  /\ \A p \in Elements(index.policies) :
       /\ p \in PolicyLayouts(p) /\ p.entries # <<>>
       /\ \A e \in Elements(p.entries) : e.key \in Int /\ e.bound \in Int

Typed ==
  /\ TypeOK
  /\ plan # None => PlanTyped(plan)
  /\ evidenceSet # None => IsList(evidenceSet.attempts)
  /\ IndexTyped

\* Neither command has anything of the other's.
Apart ==
  /\ pc = "gather" => runs = <<>> /\ phase = 1 /\ outcomes = <<>>
  /\ pc \in {"load", "phase", "verdict"} => agreed = None /\ statuses = <<>>

IInv ==
  /\ Typed
  /\ Apart
  /\ Gathering
  /\ Ledgered
  /\ Loading
  /\ Deciding
  /\ Emitted

-----------------------------------------------------------------------------
(***************************************************************************)
(* The authorities.                                                        *)
(***************************************************************************)

\* What is laid out keeps its fields and lists what it listed.
LEMMA LayoutsList ==
  /\ \A p : p \in Layouts(p) => IsList(p.attempts)
  /\ \A p : p \in PolicyLayouts(p) => IsList(p.entries)
BY DEF Layouts, PolicyLayouts, IsList

\* With authorities that hold, there is one policy and its registry defines
\* what each of its entries bounds.
LEMMA OnePolicy ==
  ASSUME IndexTyped, AuthoritiesHold
  PROVE  /\ Policy \in Elements(index.policies) /\ IsList(Policy.entries)
         /\ Policy.entries # <<>>
         /\ WellFormedPolicy(Policy)
         /\ \A e \in Elements(Policy.entries) :
              /\ e.key \in Int /\ e.bound \in Int
              /\ Binds(Registry, e)
              /\ Definition(Registry, e) \in Elements(Registry.metrics)
              /\ Definition(Registry, e).id = e.metric
              /\ Rounding(e) \in Roundings
              /\ Declared(Registry, e)
              /\ PhaseOf(e) \in 1..3
<1>1. Policy \in Elements(index.policies)
  <2>1. index.policies \in Seq(Elements(index.policies)) /\ Len(index.policies) = 1
    BY DEF IndexTyped, AuthoritiesHold
  <2>2. 1 \in DOMAIN index.policies
    BY <2>1
  <2>3. QED
    BY <2>2 DEF Policy, Elements
<1>2. /\ IsList(Policy.entries) /\ Policy.entries # <<>>
      /\ \A e \in Elements(Policy.entries) : e.key \in Int /\ e.bound \in Int
  BY <1>1, LayoutsList DEF IndexTyped
<1>3. /\ WellFormedPolicy(Policy)
      /\ Cardinality(Matches(Policy)) = 1
      /\ \A e \in Elements(Policy.entries) :
           Binds(RegistryOf(Policy), e)
  BY <1>1 DEF AuthoritiesHold
<1>4. Registry \in Elements(index.registries)
  <2>1. Matches(Policy) # {}
    BY <1>3, FS_EmptySet
  <2>2. (CHOOSE i \in Matches(Policy) : TRUE) \in Matches(Policy)
    BY <2>1
  <2>3. QED
    BY <2>2 DEF Registry, RegistryOf, Matches, Elements
<1>5. \A e \in Elements(Policy.entries) :
        /\ Binds(Registry, e)
        /\ Definition(Registry, e) \in Elements(Registry.metrics)
        /\ Definition(Registry, e).id = e.metric
  BY <1>3 DEF Registry, Binds, Defined, Definition
<1>6. \A e \in Elements(Policy.entries) : Rounding(e) \in Roundings /\ Declared(Registry, e)
  BY <1>4, <1>5 DEF IndexTyped, Rounding, Declared
<1>7. \A e \in Elements(Policy.entries) : PhaseOf(e) \in 1..3
  BY DEF PhaseOf
<1>8. QED
  BY <1>1, <1>2, <1>3, <1>5, <1>6, <1>7

\* The checks are the entries of the policy, each once, by phase and key.
LEMMA ChecksInOrder ==
  ASSUME IndexTyped, AuthoritiesHold
  PROVE  /\ Len(Policy.entries) \in Nat \ {0}
         /\ DOMAIN Policy.entries = 1..Len(Policy.entries)
         /\ DOMAIN Checks = 1..Len(Policy.entries)
         /\ \A n \in DOMAIN Checks : Checks[n] \in Elements(Policy.entries)
         /\ \A e \in Elements(Policy.entries) : \E n \in DOMAIN Checks : Checks[n] = e
         /\ \A n, k \in DOMAIN Checks : n < k => Before(Checks[n], Checks[k])
         /\ \A e, f \in Elements(Policy.entries) : e.key = f.key => e = f
<1> DEFINE S == Elements(Policy.entries)
           N == Len(Policy.entries)
           below == [e \in S |-> {f \in S : Before(f, e)}]
<1>1. /\ IsList(Policy.entries) /\ Policy.entries # <<>> /\ WellFormedPolicy(Policy)
      /\ \A e \in S : e.key \in Int /\ PhaseOf(e) \in 1..3
  BY OnePolicy
<1>2. \A i, j \in DOMAIN Policy.entries : Policy.entries[i].key = Policy.entries[j].key => i = j
  BY <1>1 DEF WellFormedPolicy, Distinct
<1>3. \A e, f \in S : e.key = f.key => e = f
  BY <1>2 DEF Elements
<1>4. /\ N \in Nat /\ DOMAIN Policy.entries = 1..N
      /\ IsFiniteSet(S) /\ Cardinality(S) = N
  BY <1>1, <1>2, DistinctCount
<1>5. N # 0
  BY <1>1, <1>4 DEF IsList
<1>6. /\ below \in [S -> SUBSET S]
      /\ \A e \in S : e \notin below[e]
      /\ \A e, f \in S : e # f => e \in below[f] \/ f \in below[e]
      /\ \A e, f \in S : e \in below[f] => below[e] \subseteq below[f]
      /\ \A e, f \in S : e \in below[f] <=> Before(e, f)
  <2>1. below \in [S -> SUBSET S] /\ \A e, f \in S : e \in below[f] <=> Before(e, f)
    OBVIOUS
  <2> HIDE DEF below
  <2>2. \A e \in S : e \notin below[e]
    BY <1>1, <2>1 DEF Before
  <2>3. ASSUME NEW e \in S, NEW f \in S, e # f
        PROVE  e \in below[f] \/ f \in below[e]
    <3>1. e.key # f.key /\ e.key \in Int /\ f.key \in Int /\ PhaseOf(e) \in Int /\ PhaseOf(f) \in Int
      BY <1>1, <1>3, <2>3
    <3>2. Before(e, f) \/ Before(f, e)
      BY <3>1 DEF Before
    <3>3. QED
      BY <2>1, <3>2
  <2>4. ASSUME NEW e \in S, NEW f \in S, e \in below[f]
        PROVE  below[e] \subseteq below[f]
    <3> SUFFICES ASSUME NEW g \in below[e]
                 PROVE  g \in below[f]
      OBVIOUS
    <3>1. g \in S
      BY <2>1
    <3>2. Before(g, e) /\ Before(e, f)
      BY <2>1, <2>4, <3>1
    <3>3. /\ e.key \in Int /\ f.key \in Int /\ g.key \in Int
          /\ PhaseOf(e) \in Int /\ PhaseOf(f) \in Int /\ PhaseOf(g) \in Int
      BY <1>1, <3>1
    <3>4. Before(g, f)
      BY <3>2, <3>3 DEF Before
    <3>5. QED
      BY <2>1, <3>1, <3>4
  <2>5. /\ \A e, f \in S : e # f => e \in below[f] \/ f \in below[e]
        /\ \A e, f \in S : e \in below[f] => below[e] \subseteq below[f]
    BY <2>3, <2>4
  <2>6. QED
    BY <2>1, <2>2, <2>5
<1> HIDE DEF below
<1>7. /\ \A e \in S : Cardinality(below[e]) \in 0..(N - 1)
      /\ \A e, f \in S : e \in below[f] <=> Cardinality(below[e]) < Cardinality(below[f])
      /\ \A e, f \in S : Cardinality(below[e]) = Cardinality(below[f]) => e = f
      /\ \A k \in 0..(N - 1) : \E e \in S : Cardinality(below[e]) = k
  BY <1>4, <1>6, Ranking
<1>8. DOMAIN Checks = 1..N
  BY DEF Checks
<1>9. \A n \in 1..N : Checks[n] \in S /\ Cardinality(below[Checks[n]]) = n - 1
  <2>1. SUFFICES ASSUME NEW n \in 1..N
                 PROVE  Checks[n] \in S /\ Cardinality(below[Checks[n]]) = n - 1
    OBVIOUS
  <2>2. n - 1 \in 0..(N - 1)
    BY <1>4
  <2>3. \E e \in S : Cardinality(below[e]) = n - 1
    BY <1>7, <2>2
  <2>4. \A e \in S : Place(e) = Cardinality(below[e]) + 1
    BY DEF Place, below
  <2>5. \E e \in S : Place(e) = n
    BY <1>4, <2>3, <2>4
  <2>6. Checks[n] = CHOOSE e \in S : Place(e) = n
    BY DEF Checks
  <2>7. Checks[n] \in S /\ Place(Checks[n]) = n
    BY <2>5, <2>6
  <2>8. Cardinality(below[Checks[n]]) \in Int
    BY <1>7, <2>7
  <2>9. QED
    BY <2>4, <2>7, <2>8
<1>10. \A e \in S : \E n \in 1..N : Checks[n] = e
  <2>1. SUFFICES ASSUME NEW e \in S
                 PROVE  \E n \in 1..N : Checks[n] = e
    OBVIOUS
  <2>2. PICK n \in 1..N : Cardinality(below[e]) = n - 1
    <3>1. Cardinality(below[e]) \in 0..(N - 1)
      BY <1>7
    <3>2. Cardinality(below[e]) + 1 \in 1..N /\ (Cardinality(below[e]) + 1) - 1 = Cardinality(below[e])
      BY <1>4, <3>1
    <3>3. QED
      BY <3>2
  <2>3. Checks[n] = e
    BY <1>7, <1>9, <2>2
  <2>4. QED
    BY <2>3
<1>11. \A n, k \in 1..N : n < k => Before(Checks[n], Checks[k])
  <2>1. SUFFICES ASSUME NEW n \in 1..N, NEW k \in 1..N, n < k
                 PROVE  Before(Checks[n], Checks[k])
    OBVIOUS
  <2>2. /\ Checks[n] \in S /\ Cardinality(below[Checks[n]]) = n - 1
        /\ Checks[k] \in S /\ Cardinality(below[Checks[k]]) = k - 1
    BY <1>9
  <2>3. n - 1 < k - 1
    BY <2>1
  <2>4. Checks[n] \in below[Checks[k]]
    BY <1>7, <2>2, <2>3
  <2>5. QED
    BY <1>6, <2>2, <2>4
<1>12. QED
  BY <1>3, <1>4, <1>5, <1>8, <1>9, <1>10, <1>11

-----------------------------------------------------------------------------
(***************************************************************************)
(* The eligible attempts.                                                  *)
(***************************************************************************)

\* A set of numbers that is not empty, of those up to a limit, has a least one.
LEMMA LeastNumber ==
  ASSUME NEW n \in Nat, NEW S \in SUBSET (1..n), S # {}
  PROVE  \E k \in S : \A m \in S : k <= m
<1>1. IsFiniteSet(S) /\ S \in SUBSET Int
  <2>1. IsFiniteSet(1..n)
    BY FS_Interval
  <2>2. IsFiniteSet(S)
    BY <2>1, FS_Subset
  <2>3. QED
    BY <2>2
<1>2. /\ Ascending(S) \in [1..Cardinality(S) -> S] /\ Cardinality(S) \in Nat
      /\ Elements(Ascending(S)) = S
      /\ \A i, j \in 1..Cardinality(S) : i < j => Ascending(S)[i] < Ascending(S)[j]
  BY <1>1, AscendingOrders
<1> DEFINE A == Ascending(S)
<1>3. Cardinality(S) # 0
  BY <1>1, FS_EmptySet
<1>4. 1 \in 1..Cardinality(S) /\ A[1] \in S
  BY <1>2, <1>3
<1>5. ASSUME NEW m \in S
      PROVE  A[1] <= m
  <2>1. PICK i \in 1..Cardinality(S) : A[i] = m
    BY <1>2 DEF Elements
  <2>2. i = 1 \/ 1 < i
    BY <1>2
  <2>3. m \in Int /\ A[1] \in Int
    BY <1>1, <1>4
  <2>4. CASE i = 1
    BY <2>1, <2>3, <2>4
  <2>5. CASE 1 < i
    BY <1>2, <1>4, <2>1, <2>3, <2>5
  <2>6. QED
    BY <2>2, <2>4, <2>5
<1>6. QED
  BY <1>4, <1>5

\* The eligible attempts of a ledger that holds are attempts of it, one for
\* each identity in its list.
LEMMA EligibleList ==
  ASSUME NEW s, IsList(s.attempts), EligibleHolds(s)
  PROVE  /\ Len(EligibleAttempts(s)) \in Nat
         /\ DOMAIN EligibleAttempts(s) = 1..Len(EligibleAttempts(s))
         /\ \A k \in 1..Len(EligibleAttempts(s)) :
              EligibleAttempts(s)[k] \in Elements(s.attempts)
         /\ {EligibleAttempts(s)[k].id : k \in 1..Len(EligibleAttempts(s))} = Elements(s.eligible)
<1> DEFINE C == {n \in 1..Len(s.attempts) :
                   /\ s.attempts[n].id \in Elements(s.eligible)
                   /\ \A m \in 1..(n - 1) : s.attempts[m].id # s.attempts[n].id}
           A == Ascending(C)
           L == EligibleAttempts(s)
<1>1. Len(s.attempts) \in Nat /\ DOMAIN s.attempts = 1..Len(s.attempts)
  BY DEF IsList
<1>2. IsFiniteSet(C) /\ C \in SUBSET Int
  <2>1. IsFiniteSet(1..Len(s.attempts))
    <3>1. 1 \in Int /\ Len(s.attempts) \in Int
      BY <1>1
    <3>2. QED
      BY <3>1, FS_Interval
  <2>2. C \in SUBSET (1..Len(s.attempts))
    OBVIOUS
  <2>3. IsFiniteSet(C)
    BY <2>1, <2>2, FS_Subset
  <2>4. QED
    BY <2>2, <2>3
<1> HIDE DEF C
<1>3. /\ A \in [1..Cardinality(C) -> C] /\ Cardinality(C) \in Nat
      /\ Len(A) = Cardinality(C)
      /\ Elements(A) = C
  BY <1>2, AscendingOrders
<1>4. L = [k \in 1..Len(A) |-> s.attempts[A[k]]]
  BY DEF EligibleAttempts, C
<1> HIDE DEF A, L
<1>5. DOMAIN L = 1..Len(A) /\ Len(A) \in Nat /\ L \in [1..Len(A) -> Elements(s.attempts)]
  <2>1. \A k \in 1..Len(A) : A[k] \in DOMAIN s.attempts
    BY <1>1, <1>3 DEF C
  <2>2. QED
    BY <1>3, <1>4, <2>1 DEF Elements
<1>6. L \in Seq(Elements(s.attempts)) /\ Len(L) = Len(A)
  BY <1>5
<1>7. \A k \in 1..Len(A) : L[k].id \in Elements(s.eligible)
  BY <1>3, <1>4 DEF C
<1>8. ASSUME NEW id \in Elements(s.eligible)
      PROVE  \E k \in 1..Len(A) : L[k].id = id
  <2> DEFINE N == {n \in 1..Len(s.attempts) : s.attempts[n].id = id}
  <2>1. N # {}
    BY <1>1, <1>8 DEF EligibleHolds, Elements
  <2>2. PICK n \in N : \A m \in N : n <= m
    BY <1>1, <2>1, LeastNumber
  <2>3. n \in C
    <3>1. n \in 1..Len(s.attempts) /\ s.attempts[n].id = id
      OBVIOUS
    <3>2. ASSUME NEW m \in 1..(n - 1)
          PROVE  s.attempts[m].id # s.attempts[n].id
      <4>1. m \in 1..Len(s.attempts) /\ ~(n <= m)
        BY <1>1, <3>1
      <4>2. m \notin N
        BY <2>2, <4>1
      <4>3. QED
        BY <3>1, <4>1, <4>2
    <3>3. QED
      BY <3>1, <3>2 DEF C
  <2>4. PICK k \in 1..Len(A) : A[k] = n
    BY <1>3, <2>3 DEF Elements
  <2>5. QED
    BY <1>4, <2>4
<1>9. QED
  BY <1>5, <1>6, <1>7, <1>8 DEF L

-----------------------------------------------------------------------------
(***************************************************************************)
(* What the verdict depends on.                                            *)
(***************************************************************************)
\* The step leaves what a verdict depends on.
SameRecords ==
  /\ Registry' = Registry /\ Checks' = Checks /\ evidenceSet' = evidenceSet
  /\ AuthoritiesHold => AuthoritiesHold'

\* With the same registry, checks and ledger, the evaluation is the same.
LEMMA SameVerdict ==
  ASSUME SameRecords
  PROVE  /\ Authorized => Authorized'
         /\ Eligible' = Eligible
         /\ AllRuns' = AllRuns
         /\ \A a : Read(a)' <=> Read(a)
         /\ \A a : Run(a)' = Run(a)
         /\ \A q : Made(q)' = Made(q)
         /\ \A p : Reaches(p) => Reaches(p)'
         /\ \A p : EndsAt(p) => EndsAt(p)'
         /\ \A read, made, p : Decided(read, made, p)' = Decided(read, made, p)
<1>1. Registry' = Registry /\ Checks' = Checks /\ evidenceSet' = evidenceSet
  BY DEF SameRecords
<1>2. Authorized => Authorized'
  BY <1>1 DEF SameRecords, Authorized
<1>3. Eligible' = Eligible
  BY <1>1 DEF Eligible
<1>4. \A a : (Read(a)' <=> Read(a)) /\ Run(a)' = Run(a)
  BY <1>1 DEF Read, Run
<1>5. AllRuns' = AllRuns
  BY <1>3, <1>4 DEF AllRuns
<1>6. \A e : PhaseOf(e)' = PhaseOf(e) /\ (BoundMoves(e)' <=> BoundMoves(e)) /\ Rounding(e)' = Rounding(e)
  BY <1>1 DEF PhaseOf, BoundMoves, Rounding
<1>7. \A e, o : (Comparable(e, o)' <=> Comparable(e, o)) /\ Compared(e, o)' = Compared(e, o)
  BY <1>6 DEF Comparable, Compared
<1>8. \A e, o : Satisfies(e, o)' <=> Satisfies(e, o)
  BY <1>7 DEF Satisfies
<1>9. \A e, read : Judged(e, read)' = Judged(e, read)
  BY <1>8 DEF Judged
<1>10. \A q : Made(q)' = Made(q)
  BY <1>1, <1>5, <1>6, <1>9 DEF Made
<1>11. \A p : FailsIn(p)' <=> FailsIn(p)
  BY <1>1, <1>5, <1>6, <1>9 DEF FailsIn
<1>12. \A q : ComparableBefore(q)' <=> ComparableBefore(q)
  BY <1>1, <1>3, <1>5, <1>6, <1>7 DEF ComparableBefore
<1>13. \A p : Reaches(p) => Reaches(p)'
  BY <1>2, <1>3, <1>4, <1>11, <1>12 DEF Reaches
<1>14. \A p : EndsAt(p) => EndsAt(p)'
  BY <1>11, <1>12, <1>13 DEF EndsAt
<1>15. \A n, read, made : Listed(n, read, made)' = Listed(n, read, made)
  BY <1>1, <1>7 DEF Listed
<1>16. \A read, made, p : Decided(read, made, p)' = Decided(read, made, p)
  BY <1>1, <1>6, <1>15 DEF Decided
<1>17. QED
  BY <1>2, <1>3, <1>4, <1>5, <1>10, <1>13, <1>14, <1>16

-----------------------------------------------------------------------------
(***************************************************************************)
(* What an emitted receipt says.                                           *)
(***************************************************************************)

\* An evaluation that ends at phase p has passed every check before p, none
\* after, and failed one of p unless p is past the last.
LEMMA Ending ==
  ASSUME IndexTyped, NEW p \in 1..4, EndsAt(p)
  PROVE  LET M == Made(Last(p)) IN
         /\ Authorized
         /\ DOMAIN M = DOMAIN Checks
         /\ \A n \in DOMAIN Checks :
              /\ PhaseOf(Checks[n]) \in 1..3
              /\ M[n] # "not_run" => M[n] = Judged(Checks[n], AllRuns)
              /\ M[n] \in Failed \union {"passed", "not_run"}
              /\ PhaseOf(Checks[n]) < p => M[n] = "passed"
              /\ PhaseOf(Checks[n]) > p <=> M[n] = "not_run"
         /\ p # 4 => \E n \in DOMAIN Checks : PhaseOf(Checks[n]) = p /\ M[n] \in Failed
         /\ Blocked(M) <=> p # 4
         /\ \A k \in 1..Len(Eligible) : Read(Eligible[k])
         /\ \A n \in DOMAIN Checks : M[n] # "not_run" =>
              \A k \in 1..Len(Eligible) : \A o \in Reports(AllRuns[k], Checks[n]) :
                Comparable(Checks[n], o)
<1> DEFINE M == Made(Last(p))
<1>1. Reaches(p) /\ (p # 4 => FailsIn(p) /\ ComparableBefore(p + 1)) /\ p \in Int
  BY DEF EndsAt
<1>2. /\ Authorized /\ ComparableBefore(p)
      /\ \A k \in 1..Len(Eligible) : Read(Eligible[k])
      /\ \A q \in 1..3 : q < p => ~FailsIn(q)
  BY <1>1 DEF Reaches
<1>3. \A n \in DOMAIN Checks : PhaseOf(Checks[n]) \in 1..3
  BY <1>2, OnePolicy, ChecksInOrder DEF Authorized
<1>4. \A n \in DOMAIN Checks : Judged(Checks[n], AllRuns) \in Failed \union {"passed"}
  BY DEF Judged, Failed
<1>5. "not_run" \notin Failed /\ "passed" \notin Failed /\ "passed" # "not_run"
  BY DEF Failed
<1>6. /\ DOMAIN M = DOMAIN Checks
      /\ \A n \in DOMAIN Checks :
           M[n] = IF PhaseOf(Checks[n]) < Last(p) THEN Judged(Checks[n], AllRuns) ELSE "not_run"
  BY DEF Made
<1>7. \A n \in DOMAIN Checks : PhaseOf(Checks[n]) < Last(p) <=> ~(PhaseOf(Checks[n]) > p)
  BY <1>1, <1>3 DEF Last
<1> HIDE DEF M
<1>8. \A n \in DOMAIN Checks :
        /\ M[n] # "not_run" => M[n] = Judged(Checks[n], AllRuns)
        /\ M[n] \in Failed \union {"passed", "not_run"}
        /\ PhaseOf(Checks[n]) > p <=> M[n] = "not_run"
  BY <1>4, <1>5, <1>6, <1>7
<1>9. ASSUME NEW n \in DOMAIN Checks, PhaseOf(Checks[n]) < p
      PROVE  M[n] = "passed"
  <2>1. ~FailsIn(PhaseOf(Checks[n]))
    BY <1>2, <1>3, <1>9
  <2>2. Judged(Checks[n], AllRuns) \notin Failed
    BY <2>1 DEF FailsIn
  <2>3. ~(PhaseOf(Checks[n]) > p)
    BY <1>1, <1>3, <1>9
  <2>4. QED
    BY <1>4, <1>6, <1>7, <2>2, <2>3
<1>10. p # 4 => \E n \in DOMAIN Checks : PhaseOf(Checks[n]) = p /\ M[n] \in Failed
  <2>1. SUFFICES ASSUME p # 4
                 PROVE  \E n \in DOMAIN Checks : PhaseOf(Checks[n]) = p /\ M[n] \in Failed
    OBVIOUS
  <2>2. PICK n \in DOMAIN Checks : PhaseOf(Checks[n]) = p /\ Judged(Checks[n], AllRuns) \in Failed
    BY <1>1, <2>1 DEF FailsIn
  <2>3. ~(PhaseOf(Checks[n]) > p)
    BY <1>1, <2>2
  <2>4. M[n] \in Failed
    BY <1>6, <1>7, <2>2, <2>3
  <2>5. QED
    BY <2>2, <2>4
<1>11. Blocked(M) <=> p # 4
  <2>1. p # 4 => Blocked(M)
    BY <1>6, <1>10 DEF Blocked
  <2>2. ASSUME p = 4
        PROVE  ~Blocked(M)
    <3>1. \A n \in DOMAIN Checks : M[n] = "passed"
      BY <1>3, <1>9, <2>2
    <3>2. QED
      BY <1>5, <1>6, <3>1 DEF Blocked
  <2>3. QED
    BY <2>1, <2>2
<1>12. ASSUME NEW n \in DOMAIN Checks, M[n] # "not_run"
       PROVE  \A k \in 1..Len(Eligible) : \A o \in Reports(AllRuns[k], Checks[n]) :
                Comparable(Checks[n], o)
  <2>1. PhaseOf(Checks[n]) \in 1..3 /\ ~(PhaseOf(Checks[n]) > p)
    BY <1>3, <1>8, <1>12
  <2>2. CASE p = 4
    <3>1. PhaseOf(Checks[n]) < p
      BY <2>1, <2>2
    <3>2. QED
      BY <1>2, <3>1 DEF ComparableBefore
  <2>3. CASE p # 4
    <3>1. PhaseOf(Checks[n]) < p + 1
      BY <1>1, <2>1
    <3>2. QED
      BY <1>1, <2>3, <3>1 DEF ComparableBefore
  <2>4. QED
    BY <2>2, <2>3
<1>13. QED
  BY <1>2, <1>3, <1>6, <1>8, <1>9, <1>10, <1>11, <1>12 DEF M

\* What a run reports of a metric the policy bounds is what its receipt
\* observed of it.
LEMMA RunReports ==
  ASSUME IndexTyped, AuthoritiesHold, NEW e \in Elements(Policy.entries),
         NEW k \in 1..Len(Eligible), Read(Eligible[k])
  PROVE  /\ Reports(AllRuns[k], e) = Observed(AllRuns[k].receipt, e)
         /\ AllRuns[k].receipt = Eligible[k].receipt /\ AllRuns[k].attempt = Eligible[k].id
         /\ \A o \in Observed(AllRuns[k].receipt, e) : o.value \in Int
<1>1. AllRuns[k] = Run(Eligible[k])
  BY DEF AllRuns
<1>2. /\ AllRuns[k].receipt = Eligible[k].receipt /\ AllRuns[k].attempt = Eligible[k].id
      /\ AllRuns[k].observed =
           {o \in Elements(ReceiptOf[Eligible[k].receipt].observed) : Declared(Registry, o)}
  BY <1>1 DEF Run
<1>3. \A o : o.metric = e.metric => Declared(Registry, o)
  <2>1. Declared(Registry, e)
    BY OnePolicy
  <2>2. QED
    BY <2>1 DEF Declared
<1>4. Reports(AllRuns[k], e) = Observed(AllRuns[k].receipt, e)
  BY <1>2, <1>3 DEF Reports, Observed
<1>5. \A o \in Observed(AllRuns[k].receipt, e) : o.value \in Int
  BY <1>2, SchemaAssumption DEF Observed, Read
<1>6. QED
  BY <1>2, <1>4, <1>5

\* A receipt with a pass has every check met by every eligible attempt.
LEMMA PassesAreEarned ==
  ASSUME Typed, Emitted
  PROVE  PassIsEarned
<1> SUFFICES ASSUME receipt # None, receipt.verdict = "passed"
             PROVE  LET decided == receipt.receipts IN
                    /\ decided # <<>>
                    /\ {decided[k][1] : k \in DOMAIN decided} = Elements(evidenceSet.eligible)
                    /\ \A k \in DOMAIN decided : \A e \in Elements(Policy.entries) :
                         /\ Observed(decided[k][2], e) # {}
                         /\ \A o \in Observed(decided[k][2], e) : Miss(e, o) <= Slack(e, o)
  BY DEF PassIsEarned
<1>1. PICK p \in 1..4 : EndsAt(p) /\ receipt = Decided(AllRuns, Made(Last(p)), p)
  BY DEF Emitted
<1> DEFINE M == Made(Last(p))
           D == receipt.receipts
<1>2. /\ receipt.verdict = IF Blocked(M) THEN "failed" ELSE "passed"
      /\ D = [k \in 1..Len(AllRuns) |-> <<AllRuns[k].attempt, AllRuns[k].receipt>>]
  BY <1>1 DEF Decided
<1>3. IndexTyped /\ Authorized /\ AuthoritiesHold
  BY <1>1, Ending DEF Typed, Authorized
<1>4. /\ DOMAIN M = DOMAIN Checks
      /\ \A n \in DOMAIN Checks :
           /\ PhaseOf(Checks[n]) \in 1..3
           /\ M[n] # "not_run" => M[n] = Judged(Checks[n], AllRuns)
           /\ PhaseOf(Checks[n]) < p => M[n] = "passed"
      /\ Blocked(M) <=> p # 4
      /\ \A k \in 1..Len(Eligible) : Read(Eligible[k])
      /\ \A n \in DOMAIN Checks : M[n] # "not_run" =>
           \A k \in 1..Len(Eligible) : \A o \in Reports(AllRuns[k], Checks[n]) :
             Comparable(Checks[n], o)
  BY <1>1, <1>3, Ending
<1> HIDE DEF M
<1>5. p = 4 /\ \A n \in DOMAIN Checks : M[n] = "passed" /\ Judged(Checks[n], AllRuns) = "passed"
  <2>1. p = 4
    BY <1>2, <1>4
  <2>2. QED
    BY <1>4, <2>1
<1>6. /\ Len(Eligible) \in Nat
      /\ {Eligible[k].id : k \in 1..Len(Eligible)} = Elements(evidenceSet.eligible)
  BY <1>3, EligibleList DEF Typed, Authorized, Eligible
<1>7. Len(AllRuns) = Len(Eligible) /\ DOMAIN AllRuns = 1..Len(Eligible)
  BY <1>6 DEF AllRuns
<1>8. AllRuns # <<>>
  <2>1. 1 \in DOMAIN Checks
    BY <1>3, ChecksInOrder
  <2>2. QED
    BY <1>5, <2>1 DEF Judged
<1>9. \A k \in 1..Len(Eligible) : AllRuns[k].attempt = Eligible[k].id
  BY DEF AllRuns, Run
<1>10. DOMAIN D = 1..Len(Eligible) /\ \A k \in 1..Len(Eligible) : D[k][1] = Eligible[k].id /\ D[k][2] = AllRuns[k].receipt
  BY <1>2, <1>7, <1>9
<1>11. D # <<>>
  <2>1. Len(Eligible) # 0
    <3>1. Len(Eligible) = 0 => DOMAIN AllRuns = {}
      BY <1>7
    <3>2. DOMAIN AllRuns = {} => AllRuns = <<>>
      BY DEF AllRuns
    <3>3. QED
      BY <1>8, <3>1, <3>2
  <2>2. 1 \in DOMAIN D
    BY <1>6, <1>10, <2>1
  <2>3. QED
    BY <2>2
<1>12. {D[k][1] : k \in DOMAIN D} = Elements(evidenceSet.eligible)
  BY <1>6, <1>10
<1>13. ASSUME NEW k \in DOMAIN D, NEW e \in Elements(Policy.entries)
       PROVE  /\ Observed(D[k][2], e) # {}
              /\ \A o \in Observed(D[k][2], e) : Miss(e, o) <= Slack(e, o)
  <2>1. PICK n \in DOMAIN Checks : Checks[n] = e
    BY <1>3, ChecksInOrder
  <2>2. k \in 1..Len(Eligible) /\ Read(Eligible[k]) /\ D[k][2] = AllRuns[k].receipt
    BY <1>4, <1>10, <1>13
  <2>3. /\ Reports(AllRuns[k], e) = Observed(D[k][2], e)
        /\ \A o \in Observed(D[k][2], e) : o.value \in Int
    BY <1>3, <2>2, RunReports
  <2>4. AllRuns[k] \in Elements(AllRuns)
    BY <1>7, <2>2 DEF Elements
  <2>5. Judged(e, AllRuns) = "passed" /\ M[n] # "not_run"
    BY <1>5, <2>1
  <2>6. Reports(AllRuns[k], e) # {} /\ \A o \in Reports(AllRuns[k], e) : Satisfies(e, o)
    BY <2>4, <2>5 DEF Judged
  <2>7. \A o \in Reports(AllRuns[k], e) : Comparable(e, o)
    BY <1>4, <2>1, <2>2, <2>5
  <2>8. e.bound \in Int /\ Rounding(e) \in Roundings
    BY <1>3, OnePolicy
  <2>9. ASSUME NEW o \in Observed(D[k][2], e)
        PROVE  Miss(e, o) <= Slack(e, o)
    BY <2>3, <2>6, <2>7, <2>8, <2>9, Comparison
  <2>10. QED
    BY <2>3, <2>6, <2>9
<1>14. QED
  BY <1>11, <1>12, <1>13

\* A check that the receipt says failed has its ground in the raw receipts.
LEMMA FailuresHaveGround ==
  ASSUME Typed, Emitted
  PROVE  FailureHasGround
<1> SUFFICES ASSUME receipt # None, NEW n \in DOMAIN receipt.checks,
                    NEW e \in Elements(Policy.entries), e.key = receipt.checks[n].key
             PROVE  LET digests == {receipt.receipts[k][2] : k \in DOMAIN receipt.receipts} IN
                    /\ receipt.checks[n].outcome = "observation_missing" =>
                         digests = {} \/ \E d \in digests : Observed(d, e) = {}
                    /\ receipt.checks[n].outcome = "bound_violated" =>
                         \E d \in digests : \E o \in Observed(d, e) : Miss(e, o) > 0
  BY DEF FailureHasGround
<1>1. PICK p \in 1..4 : EndsAt(p) /\ receipt = Decided(AllRuns, Made(Last(p)), p)
  BY DEF Emitted
<1> DEFINE M == Made(Last(p))
           D == receipt.receipts
           digests == {D[k][2] : k \in DOMAIN D}
<1>2. /\ DOMAIN receipt.checks = DOMAIN M
      /\ \A m \in DOMAIN M : /\ receipt.checks[m].key = Checks[m].key
                             /\ receipt.checks[m].outcome = M[m]
      /\ D = [k \in 1..Len(AllRuns) |-> <<AllRuns[k].attempt, AllRuns[k].receipt>>]
  BY <1>1 DEF Decided
<1>3. IndexTyped /\ Authorized /\ AuthoritiesHold
  BY <1>1, Ending DEF Typed, Authorized
<1>4. /\ DOMAIN M = DOMAIN Checks
      /\ M[n] # "not_run" => M[n] = Judged(Checks[n], AllRuns)
      /\ \A k \in 1..Len(Eligible) : Read(Eligible[k])
      /\ M[n] # "not_run" =>
           \A k \in 1..Len(Eligible) : \A o \in Reports(AllRuns[k], Checks[n]) :
             Comparable(Checks[n], o)
  BY <1>1, <1>2, <1>3, Ending
<1> HIDE DEF M
<1>5. Checks[n] = e
  BY <1>2, <1>3, <1>4, ChecksInOrder
<1>6. Len(Eligible) \in Nat
  BY <1>3, EligibleList DEF Typed, Authorized, Eligible
<1>7. Len(AllRuns) = Len(Eligible) /\ DOMAIN AllRuns = 1..Len(Eligible)
  BY <1>6 DEF AllRuns
<1>8. \A k \in 1..Len(Eligible) :
        /\ k \in DOMAIN D /\ D[k][2] = AllRuns[k].receipt /\ D[k][2] \in digests
        /\ Reports(AllRuns[k], e) = Observed(D[k][2], e)
        /\ \A o \in Observed(D[k][2], e) : o.value \in Int
  <2>1. SUFFICES ASSUME NEW k \in 1..Len(Eligible)
                 PROVE  /\ k \in DOMAIN D /\ D[k][2] = AllRuns[k].receipt /\ D[k][2] \in digests
                        /\ Reports(AllRuns[k], e) = Observed(D[k][2], e)
                        /\ \A o \in Observed(D[k][2], e) : o.value \in Int
    OBVIOUS
  <2>2. k \in DOMAIN D /\ D[k][2] = AllRuns[k].receipt
    BY <1>2, <1>7
  <2>3. /\ Reports(AllRuns[k], e) = Observed(AllRuns[k].receipt, e)
        /\ \A o \in Observed(AllRuns[k].receipt, e) : o.value \in Int
    BY <1>3, <1>4, RunReports
  <2>4. QED
    BY <2>2, <2>3
<1>9. ASSUME receipt.checks[n].outcome = "observation_missing"
      PROVE  digests = {} \/ \E d \in digests : Observed(d, e) = {}
  <2>1. Judged(e, AllRuns) = "observation_missing"
    BY <1>2, <1>4, <1>5, <1>9
  <2>2. AllRuns = <<>> \/ \E r \in Elements(AllRuns) : Reports(r, e) = {}
    BY <2>1 DEF Judged
  <2>3. CASE AllRuns = <<>>
    BY <1>2, <2>3
  <2>4. CASE \E r \in Elements(AllRuns) : Reports(r, e) = {}
    BY <1>7, <1>8, <2>4 DEF Elements
  <2>5. QED
    BY <2>2, <2>3, <2>4
<1>10. ASSUME receipt.checks[n].outcome = "bound_violated"
       PROVE  \E d \in digests : \E o \in Observed(d, e) : Miss(e, o) > 0
  <2>1. Judged(e, AllRuns) = "bound_violated" /\ M[n] # "not_run"
    BY <1>2, <1>4, <1>5, <1>10
  <2>2. PICK r \in Elements(AllRuns) : \E o \in Reports(r, e) : ~Satisfies(e, o)
    BY <2>1 DEF Judged
  <2>3. PICK k \in 1..Len(Eligible) : r = AllRuns[k]
    BY <1>7 DEF Elements
  <2>4. PICK o \in Reports(AllRuns[k], e) : ~Satisfies(e, o)
    BY <2>2, <2>3
  <2>5. Comparable(e, o) /\ o.value \in Int /\ o \in Observed(D[k][2], e) /\ D[k][2] \in digests
    BY <1>4, <1>5, <1>8, <2>1, <2>4
  <2>6. e.bound \in Int /\ Rounding(e) \in Roundings
    BY <1>3, OnePolicy
  <2>7. Miss(e, o) > 0
    BY <2>4, <2>5, <2>6, Comparison
  <2>8. QED
    BY <2>5, <2>7
<1>11. QED
  BY <1>9, <1>10

\* The checks of a receipt stand by phase and key, and the phases block.
LEMMA VerdictsFollowPhases ==
  ASSUME Typed, Emitted
  PROVE  VerdictFollowsPhases
<1> DEFINE rank(n) == CHOOSE q \in DOMAIN Phases : Phases[q] = receipt.checks[n].phase
           blocking == CHOOSE q \in DOMAIN Phases : Phases[q] = receipt.blockingPhase
           with(outcome) == {n \in DOMAIN receipt.checks : receipt.checks[n].outcome = outcome}
           failed == UNION {with(o) : o \in Failed}
<1> SUFFICES ASSUME receipt # None
             PROVE
       /\ {receipt.checks[n].key : n \in DOMAIN receipt.checks}
            = {e.key : e \in Elements(Policy.entries)}
       /\ \A n, k \in DOMAIN receipt.checks : n < k =>
            \/ rank(n) < rank(k)
            \/ rank(n) = rank(k) /\ receipt.checks[n].key < receipt.checks[k].key
       /\ receipt.failedCount = Cardinality(failed)
       /\ receipt.notRunCount = Cardinality(with("not_run"))
       /\ IF failed = {}
          THEN receipt.verdict = "passed" /\ with("passed") = DOMAIN receipt.checks
          ELSE /\ receipt.verdict = "failed"
               /\ failed \subseteq {n \in DOMAIN receipt.checks : rank(n) = blocking}
               /\ \A n \in DOMAIN receipt.checks :
                    /\ rank(n) < blocking => n \in with("passed")
                    /\ rank(n) > blocking <=> n \in with("not_run")
                    /\ n \in with("not_run") => receipt.checks[n].observations = <<>>
  BY DEF VerdictFollowsPhases
<1>1. PICK p \in 1..4 : EndsAt(p) /\ receipt = Decided(AllRuns, Made(Last(p)), p)
  BY DEF Emitted
<1> DEFINE M == Made(Last(p))
           C == receipt.checks
<1>2. /\ DOMAIN C = DOMAIN M
      /\ \A m \in DOMAIN M : /\ C[m].key = Checks[m].key
                             /\ C[m].phase = Phases[PhaseOf(Checks[m])]
                             /\ C[m].outcome = M[m]
                             /\ C[m].observations = Listed(m, AllRuns, M)
      /\ receipt.verdict = IF Blocked(M) THEN "failed" ELSE "passed"
      /\ receipt.blockingPhase = IF Blocked(M) THEN Phases[p] ELSE None
      /\ receipt.failedCount = Cardinality({n \in DOMAIN M : M[n] \in Failed})
      /\ receipt.notRunCount = Cardinality({n \in DOMAIN M : M[n] = "not_run"})
  BY <1>1 DEF Decided
<1>3. IndexTyped /\ Authorized /\ AuthoritiesHold
  BY <1>1, Ending DEF Typed, Authorized
<1>4. /\ DOMAIN M = DOMAIN Checks
      /\ \A n \in DOMAIN Checks :
           /\ PhaseOf(Checks[n]) \in 1..3
           /\ M[n] \in Failed \union {"passed", "not_run"}
           /\ PhaseOf(Checks[n]) < p => M[n] = "passed"
           /\ PhaseOf(Checks[n]) > p <=> M[n] = "not_run"
      /\ p # 4 => \E n \in DOMAIN Checks : PhaseOf(Checks[n]) = p /\ M[n] \in Failed
      /\ Blocked(M) <=> p # 4
  BY <1>1, <1>3, Ending
<1> HIDE DEF M
<1>5. "not_run" \notin Failed /\ "passed" \notin Failed
  BY DEF Failed
<1>6. DOMAIN Phases = 1..3 /\ \A q, s \in 1..3 : Phases[q] = Phases[s] => q = s
  BY DEF Phases
<1>7. \A n \in DOMAIN C : rank(n) = PhaseOf(Checks[n]) /\ PhaseOf(Checks[n]) \in 1..3
  BY <1>2, <1>4, <1>6
<1>8. p # 4 => blocking = p
  <2>1. SUFFICES ASSUME p # 4 PROVE blocking = p
    OBVIOUS
  <2>2. receipt.blockingPhase = Phases[p] /\ p \in 1..3
    BY <1>2, <1>4, <2>1
  <2>3. QED
    BY <1>6, <2>2
<1> HIDE DEF rank, blocking
<1>9. {C[n].key : n \in DOMAIN C} = {e.key : e \in Elements(Policy.entries)}
  <2>1. /\ \A n \in DOMAIN Checks : Checks[n] \in Elements(Policy.entries)
        /\ \A e \in Elements(Policy.entries) : \E n \in DOMAIN Checks : Checks[n] = e
    BY <1>3, ChecksInOrder
  <2>2. QED
    BY <1>2, <1>4, <2>1
<1>10. \A n, k \in DOMAIN C : n < k =>
         \/ rank(n) < rank(k)
         \/ rank(n) = rank(k) /\ C[n].key < C[k].key
  <2>1. \A n, k \in DOMAIN Checks : n < k => Before(Checks[n], Checks[k])
    BY <1>3, ChecksInOrder
  <2>2. QED
    BY <1>2, <1>4, <1>7, <2>1 DEF Before
<1>11. failed = {n \in DOMAIN M : M[n] \in Failed} /\ with("not_run") = {n \in DOMAIN M : M[n] = "not_run"}
  <2>1. \A o : with(o) = {n \in DOMAIN M : M[n] = o}
    BY <1>2
  <2> HIDE DEF with
  <2>2. \A n : n \in failed <=> \E o \in Failed : n \in with(o)
    OBVIOUS
  <2> HIDE DEF failed
  <2>3. \A n : n \in failed <=> n \in DOMAIN M /\ M[n] \in Failed
    BY <2>1, <2>2
  <2>4. failed = {n \in DOMAIN M : M[n] \in Failed}
    BY <2>3
  <2>5. with("not_run") = {n \in DOMAIN M : M[n] = "not_run"}
    BY <2>1
  <2>6. QED
    BY <2>4, <2>5
<1>12. failed = {} <=> p = 4
  <2> HIDE DEF with, failed
  <2>1. p # 4 => failed # {}
    BY <1>4, <1>11
  <2>2. ASSUME p = 4 PROVE failed = {}
    <3>1. \A n \in DOMAIN M : M[n] \notin Failed
      BY <1>4, <1>5, <2>2
    <3>2. QED
      BY <1>11, <3>1
  <2>3. QED
    BY <2>1, <2>2
<1>13. CASE p = 4
  <2>1. \A n \in DOMAIN C : M[n] = "passed"
    BY <1>2, <1>4, <1>13
  <2>2. with("passed") = DOMAIN C
    BY <1>2, <2>1
  <2>3. QED
    BY <1>2, <1>4, <1>9, <1>10, <1>11, <1>12, <1>13, <2>2
<1>14. CASE p # 4
  <2>1. failed \subseteq {n \in DOMAIN C : rank(n) = blocking}
    <3>1. SUFFICES ASSUME NEW n \in failed
                   PROVE  n \in DOMAIN C /\ rank(n) = blocking
      OBVIOUS
    <3>2. n \in DOMAIN C /\ M[n] \in Failed /\ n \in DOMAIN Checks
      BY <1>2, <1>4, <1>11
    <3>3. ~(PhaseOf(Checks[n]) < p) /\ ~(PhaseOf(Checks[n]) > p)
      BY <1>4, <1>5, <3>2
    <3>4. PhaseOf(Checks[n]) = p
      BY <1>7, <3>2, <3>3
    <3>5. QED
      BY <1>7, <1>8, <1>14, <3>2, <3>4
  <2>2. ASSUME NEW n \in DOMAIN C
        PROVE  /\ rank(n) < blocking => n \in with("passed")
               /\ rank(n) > blocking <=> n \in with("not_run")
               /\ n \in with("not_run") => C[n].observations = <<>>
    <3>1. n \in DOMAIN Checks /\ n \in DOMAIN M /\ C[n].outcome = M[n]
      BY <1>2, <1>4
    <3>2. rank(n) = PhaseOf(Checks[n]) /\ blocking = p
      BY <1>7, <1>8, <1>14
    <3>3. /\ rank(n) < blocking => M[n] = "passed"
          /\ rank(n) > blocking <=> M[n] = "not_run"
      BY <1>4, <3>1, <3>2
    <3>4. ASSUME M[n] = "not_run"
          PROVE  Listed(n, AllRuns, M) = <<>>
      <4> DEFINE H == {k \in 1..Len(AllRuns) : M[n] # "not_run" /\ Reports(AllRuns[k], Checks[n]) # {}}
      <4>1. H = {}
        BY <3>4
      <4>2. Len(Ascending({})) = 0
        BY FS_EmptySet, AscendingOrders
      <4> DEFINE L == Listed(n, AllRuns, M)
      <4>3. DOMAIN L = 1..Len(Ascending(H))
        BY DEF Listed
      <4>4. L = [k \in DOMAIN L |-> L[k]]
        BY DEF Listed
      <4> HIDE DEF L, H
      <4>5. DOMAIN L = {}
        BY <4>1, <4>2, <4>3
      <4>6. L = <<>>
        BY <4>4, <4>5
      <4>7. QED
        BY <4>6 DEF L
    <3>5. QED
      BY <1>2, <3>1, <3>3, <3>4
  <2>3. receipt.verdict = "failed" /\ failed # {}
    BY <1>2, <1>4, <1>12, <1>14
  <2>4. QED
    BY <1>2, <1>9, <1>10, <1>11, <2>1, <2>2, <2>3
<1>15. QED
  BY <1>13, <1>14

-----------------------------------------------------------------------------
(***************************************************************************)
(* What a ledger says.                                                     *)
(***************************************************************************)

\* An accounted plan has one attempt for each ordinal, whatever its layout.
LEMMA OrderedPlan ==
  ASSUME IsList(plan.attempts), ScheduleAccounted(plan)
  PROVE  LET N == Len(plan.attempts)
             P == Ordered(plan)
         IN /\ N \in Nat /\ DOMAIN P = 1..N /\ Len(P) = N
            /\ N = plan.attemptCount
            /\ \A n \in 1..N : P[n] \in Planning /\ P[n].ordinal = n
            /\ \A a \in Planning : a.ordinal \in 1..N /\ P[a.ordinal] = a
            /\ \A a, b \in Planning : a.id = b.id => a = b
            /\ IsFiniteSet(Planning) /\ Cardinality(Planning) = N
<1> DEFINE s == plan.attempts
           N == Len(s)
           P == Ordered(plan)
<1>1. /\ Len(s) = plan.attemptCount
      /\ \A i, j \in DOMAIN s : s[i].id = s[j].id => i = j
      /\ \A i, j \in DOMAIN s : s[i].ordinal = s[j].ordinal => i = j
      /\ {a.ordinal : a \in Planning} = 1..N
  BY DEF ScheduleAccounted, Distinct, Planning
<1>2. \A i, j \in DOMAIN s : s[i] = s[j] => i = j
  BY <1>1
<1>3. /\ N \in Nat /\ DOMAIN s = 1..N
      /\ IsFiniteSet(Planning) /\ Cardinality(Planning) = N
  BY <1>2, DistinctCount DEF Planning
<1>4. /\ \A a, b \in Planning : a.id = b.id => a = b
      /\ \A a, b \in Planning : a.ordinal = b.ordinal => a = b
  BY <1>1 DEF Planning, Elements
<1>5. /\ \A n \in 1..N : \E a \in Planning : a.ordinal = n
      /\ \A a \in Planning : a.ordinal \in 1..N
  BY <1>1
<1>6. P = [n \in 1..N |-> CHOOSE a \in Planning : a.ordinal = n]
  BY DEF Ordered, Planning
<1> HIDE DEF P
<1>7. \A n \in 1..N : P[n] \in Planning /\ P[n].ordinal = n
  BY <1>5, <1>6
<1>8. \A a \in Planning : P[a.ordinal] = a
  BY <1>4, <1>5, <1>7
<1>9. DOMAIN P = 1..N /\ Len(P) = N
  BY <1>3, <1>6
<1>10. QED
  BY <1>1, <1>3, <1>4, <1>5, <1>7, <1>8, <1>9 DEF P

\* What an identity of the plan supersedes is what its attempt says.
LEMMA SupersedesOfAttempt ==
  ASSUME IsList(plan.attempts), ScheduleAccounted(plan), NEW a \in Planning
  PROVE  a.id \in Identities(plan) /\ Supersedes(plan, a.id) = a.supersedes
<1>1. a.id \in Identities(plan) /\ \A b \in Planning : b.id = a.id => b = a
  BY OrderedPlan DEF Identities, Planning
<1>2. (CHOOSE b \in Elements(plan.attempts) : b.id = a.id) = a
  BY <1>1 DEF Planning
<1>3. QED
  BY <1>1, <1>2 DEF Supersedes

\* Since every chain of retries ends, no set of attempts replaces itself.
LEMMA NoneReplacesItself ==
  ASSUME PlanTyped(plan), Accounted,
         NEW S \in SUBSET {a.id : a \in Planning}, S # {}
  PROVE  \E id \in S : \A a \in Planning : a.id \in S => a.supersedes # id
<1> SUFFICES ASSUME \A id \in S : \E a \in Planning : a.id \in S /\ a.supersedes = id
             PROVE  FALSE
  OBVIOUS
<1> DEFINE f == [id \in S |-> Supersedes(plan, id)]
           T == {id \in S : f[id] \in S}
           g == [id \in T |-> f[id]]
<1>1. IsList(plan.attempts) /\ ScheduleAccounted(plan) /\ ChainsHold(plan)
  BY LayoutsList DEF PlanTyped, Accounted
<1>2. S \subseteq Identities(plan) /\ NoAttempt \notin S
  BY DEF Identities, Planning, PlanTyped
<1>3. IsFiniteSet(S)
  <2> DEFINE h == [a \in Planning |-> a.id]
  <2>1. h \in Surjection(Planning, {a.id : a \in Planning})
    BY DEF Surjection
  <2>2. IsFiniteSet(Planning)
    BY <1>1, OrderedPlan
  <2>3. IsFiniteSet({a.id : a \in Planning})
    BY <2>1, <2>2, FS_Surjection
  <2>4. QED
    BY <2>3, FS_Subset
<1>4. \A id \in S : \E x \in T : f[x] = id
  <2>1. SUFFICES ASSUME NEW id \in S
                 PROVE  \E x \in T : f[x] = id
    OBVIOUS
  <2>2. PICK a \in Planning : a.id \in S /\ a.supersedes = id
    OBVIOUS
  <2>3. f[a.id] = id
    BY <1>1, <2>2, SupersedesOfAttempt
  <2>4. QED
    BY <2>2, <2>3
<1>5. T = S
  <2>1. IsFiniteSet(T) /\ Cardinality(T) <= Cardinality(S) /\ (Cardinality(S) = Cardinality(T) => S = T)
    <3>1. T \in SUBSET S
      OBVIOUS
    <3>2. QED
      BY <1>3, <3>1, FS_Subset
  <2>2. g \in Surjection(T, S)
    BY <1>4 DEF Surjection
  <2>3. Cardinality(S) <= Cardinality(T)
    BY <2>1, <2>2, FS_Surjection
  <2>4. Cardinality(S) \in Nat /\ Cardinality(T) \in Nat
    BY <1>3, <2>1, FS_CardinalityType
  <2> HIDE DEF T
  <2>5. Cardinality(S) = Cardinality(T)
    BY <2>1, <2>3, <2>4
  <2>6. QED
    BY <2>1, <2>5
<1>6. \A id \in S : Supersedes(plan, id) \in S
  <2>1. \A id \in T : f[id] \in S
    OBVIOUS
  <2>2. \A id \in S : f[id] = Supersedes(plan, id)
    OBVIOUS
  <2> HIDE DEF T, f
  <2>3. QED
    BY <1>5, <2>1, <2>2
<1> HIDE DEF f, T, g
<1>7. PICK id \in S : TRUE
  OBVIOUS
<1>8. PICK chain \in [0..(MaxDepth + 1) -> Identities(plan) \union {NoAttempt}] :
        /\ chain[0] = id /\ chain[MaxDepth + 1] = NoAttempt
        /\ \A n \in 0..MaxDepth : chain[n + 1] = Supersedes(plan, chain[n])
  BY <1>1, <1>2 DEF ChainsHold
<1> DEFINE Stays == {n \in Nat : n <= MaxDepth + 1 => chain[n] \in S}
<1>9. MaxDepth \in Nat
  BY EvaluationAssumption
<1>10. 0 \in Stays
  BY <1>8
<1>11. ASSUME NEW n \in Nat, n \in Stays, n + 1 <= MaxDepth + 1
       PROVE  chain[n + 1] \in S
  <2>1. n \in 0..MaxDepth /\ n <= MaxDepth + 1
    BY <1>9, <1>11
  <2>2. chain[n] \in S /\ chain[n + 1] = Supersedes(plan, chain[n])
    BY <1>8, <1>11, <2>1
  <2>3. QED
    BY <1>6, <2>2
<1>12. \A n \in Nat : n \in Stays => n + 1 \in Stays
  BY <1>11
<1>13. Nat \subseteq Stays
  <2> HIDE DEF Stays
  <2>1. QED
    BY <1>10, <1>12, SetInduction
<1>14. chain[MaxDepth + 1] \in S
  <2>1. MaxDepth + 1 \in Nat /\ MaxDepth + 1 <= MaxDepth + 1
    BY <1>9
  <2>2. QED
    BY <1>13, <2>1
<1>15. QED
  BY <1>2, <1>8, <1>14

\* The eligible attempts of a ledger are the completed ones that no retry
\* replaced, in the order of their ordinals.
LEMMA EligibleInOrder ==
  ASSUME NEW P, NEW status, Len(P) \in Nat, DOMAIN P = 1..Len(P)
  PROVE  LET L == EligibleOf(P, status)
             C == {n \in 1..Len(P) : /\ status[n] = "completed"
                                     /\ P[n].id \notin {a.supersedes : a \in Elements(P)}}
         IN /\ IsList(L)
            /\ Elements(L) = {P[n].id : n \in C}
            /\ \A i, j \in DOMAIN L : i < j =>
                 \E m, n \in C : m < n /\ L[i] = P[m].id /\ L[j] = P[n].id
<1> DEFINE C == {n \in 1..Len(P) : /\ status[n] = "completed"
                                   /\ P[n].id \notin {a.supersedes : a \in Elements(P)}}
           A == Ascending(C)
           L == EligibleOf(P, status)
<1>1. IsFiniteSet(C) /\ C \in SUBSET Int
  <2>1. IsFiniteSet(1..Len(P))
    <3>1. 1 \in Int /\ Len(P) \in Int
      OBVIOUS
    <3>2. QED
      BY <3>1, FS_Interval
  <2>2. C \in SUBSET (1..Len(P))
    OBVIOUS
  <2> HIDE DEF C
  <2>3. IsFiniteSet(C)
    BY <2>1, <2>2, FS_Subset
  <2>4. QED
    BY <2>2, <2>3
<1>2. L = [k \in 1..Len(A) |-> P[A[k]].id]
  BY DEF EligibleOf
<1> HIDE DEF C
<1>3. /\ A \in [1..Cardinality(C) -> C] /\ Cardinality(C) \in Nat
      /\ Len(A) = Cardinality(C) /\ Elements(A) = C
      /\ \A i, j \in 1..Cardinality(C) : i < j => A[i] < A[j]
  BY <1>1, AscendingOrders
<1> HIDE DEF A, L
<1>4. DOMAIN L = 1..Len(A) /\ \A k \in 1..Len(A) : A[k] \in C /\ L[k] = P[A[k]].id
  BY <1>2, <1>3
<1>5. Elements(L) = {P[n].id : n \in C}
  BY <1>3, <1>4 DEF Elements
<1>6. L \in [1..Len(A) -> Elements(L)]
  BY <1>2 DEF Elements
<1>7. IsList(L)
  BY <1>3, <1>6 DEF IsList
<1>8. \A i, j \in DOMAIN L : i < j =>
        \E m, n \in C : m < n /\ L[i] = P[m].id /\ L[j] = P[n].id
  BY <1>3, <1>4
<1>9. QED
  BY <1>5, <1>7, <1>8 DEF L, C

\* The ledger of an accounted plan is whole.
LEMMA LedgersAreWhole ==
  ASSUME Typed, Ledgered
  PROVE  LedgerIsWhole
<1> SUFFICES ASSUME plan # None, evidenceSet # None
             PROVE  LedgerIsWhole
  BY DEF LedgerIsWhole
<1> DEFINE P == Ordered(plan)
           N == Len(plan.attempts)
           attempts == evidenceSet.attempts
           eligible == evidenceSet.eligible
           at(id) == CHOOSE n \in DOMAIN attempts : attempts[n].id = id
           receipts == {a.receipt : a \in Planning} \ {NoDigest}
           status == [n \in 1..N |-> StatusOf(P[n])]
           C == {n \in 1..Len(P) : /\ status[n] = "completed"
                                   /\ P[n].id \notin {a.supersedes : a \in Elements(P)}}
<1>1. /\ PlanTyped(plan) /\ IsList(plan.attempts)
      /\ ScheduleAccounted(plan) /\ ChainsHold(plan) /\ Accounted
      /\ Gathered(N) \subseteq Digests
  BY LayoutsList DEF Typed, Ledgered, PlanTyped, Accounted
<1>2. PICK facts : /\ {ReceiptOf[d].facts : d \in Gathered(N)} = {facts}
                   /\ evidenceSet = LedgerOf(facts)
  BY DEF Ledgered
<1>3. /\ N \in Nat /\ DOMAIN P = 1..N /\ Len(P) = N
      /\ N = plan.attemptCount
      /\ \A n \in 1..N : P[n] \in Planning /\ P[n].ordinal = n
      /\ \A a \in Planning : a.ordinal \in 1..N /\ P[a.ordinal] = a
      /\ \A a, b \in Planning : a.id = b.id => a = b
      /\ IsFiniteSet(Planning) /\ Cardinality(Planning) = N
  BY <1>1, OrderedPlan
<1>4. /\ evidenceSet.facts = facts
      /\ eligible = EligibleOf(P, status)
      /\ attempts = [n \in 1..N |-> [id |-> P[n].id, status |-> StatusOf(P[n]),
                                     receipt |-> P[n].receipt]]
  BY <1>2 DEF LedgerOf
<1> HIDE DEF P, N, attempts, eligible
<1>5. /\ DOMAIN attempts = 1..N /\ Len(attempts) = N
      /\ \A n \in 1..N : /\ attempts[n] = [id |-> P[n].id, status |-> StatusOf(P[n]),
                                           receipt |-> P[n].receipt]
                         /\ attempts[n].id = P[n].id /\ attempts[n].status = StatusOf(P[n])
  BY <1>3, <1>4
<1>6. Len(attempts) = plan.attemptCount /\ Cardinality(Planning) = plan.attemptCount
  BY <1>3, <1>5
<1>7. {attempts[n].id : n \in DOMAIN attempts} = {a.id : a \in Planning}
  <2>1. \A n \in DOMAIN attempts : P[n] \in Planning /\ attempts[n].id = P[n].id
    BY <1>3, <1>5
  <2>2. \A a \in Planning : a.ordinal \in DOMAIN attempts /\ attempts[a.ordinal].id = a.id
    BY <1>3, <1>5
  <2>3. QED
    BY <2>1, <2>2
<1>8. \A a \in Planning :
        attempts[a.ordinal] =
          [id |-> a.id, receipt |-> a.receipt,
           status |-> IF a.receipt = NoDigest THEN "no_receipt"
                      ELSE ReceiptOf[a.receipt].status]
  BY <1>3, <1>5 DEF StatusOf
<1>9. receipts = Gathered(N)
  BY <1>3 DEF Gathered, P
<1>10. receipts # {} /\ \A d \in receipts : ReceiptOf[d].facts = evidenceSet.facts
  <2>1. \A d \in Gathered(N) : ReceiptOf[d].facts = facts
    BY <1>2 DEF N
  <2>2. Gathered(N) # {}
    BY <1>2 DEF N
  <2>3. QED
    BY <1>4, <1>9, <2>1, <2>2
<1>11. \A repetition \in 1..plan.repetitionCount :
         \E a \in Planning : a.repetition = repetition
  BY <1>1 DEF ScheduleAccounted, Planning
<1>12. Elements(P) = Planning
  BY <1>3 DEF Elements
<1>13. /\ Elements(eligible) = {P[n].id : n \in C}
       /\ \A i, j \in DOMAIN eligible : i < j =>
            \E m, n \in C : m < n /\ eligible[i] = P[m].id /\ eligible[j] = P[n].id
  <2> HIDE DEF status
  <2>1. Len(P) \in Nat /\ DOMAIN P = 1..Len(P)
    BY <1>3
  <2>2. QED
    BY <1>4, <2>1, EligibleInOrder
<1>14. \A n \in 1..N : n \in C <=> /\ attempts[P[n].ordinal].status = "completed"
                                   /\ \A c \in Planning : c.supersedes # P[n].id
  <2>1. SUFFICES ASSUME NEW n \in 1..N
                 PROVE  n \in C <=> /\ attempts[P[n].ordinal].status = "completed"
                                    /\ \A c \in Planning : c.supersedes # P[n].id
    OBVIOUS
  <2>2. n \in 1..Len(P) /\ status[n] = StatusOf(P[n]) /\ attempts[P[n].ordinal].status = StatusOf(P[n])
    BY <1>3, <1>5
  <2>3. P[n].id \notin {a.supersedes : a \in Elements(P)} <=> \A c \in Planning : c.supersedes # P[n].id
    BY <1>12
  <2>4. n \in C <=> status[n] = "completed" /\ P[n].id \notin {a.supersedes : a \in Elements(P)}
    BY <2>2
  <2> HIDE DEF C, status
  <2>5. QED
    BY <2>2, <2>3, <2>4
<1>15. Elements(eligible) =
         {a.id : a \in {b \in Planning : /\ attempts[b.ordinal].status = "completed"
                                         /\ \A c \in Planning : c.supersedes # b.id}}
  <2> DEFINE B == {b \in Planning : /\ attempts[b.ordinal].status = "completed"
                                    /\ \A c \in Planning : c.supersedes # b.id}
  <2>1. C \subseteq 1..N
    BY <1>3
  <2>2. \A n \in C : P[n] \in B
    BY <1>3, <1>14, <2>1
  <2>3. \A b \in B : b.ordinal \in C /\ P[b.ordinal] = b
    <3>1. SUFFICES ASSUME NEW b \in B
                   PROVE  b.ordinal \in C /\ P[b.ordinal] = b
      OBVIOUS
    <3>2. b.ordinal \in 1..N /\ P[b.ordinal] = b
      BY <1>3
    <3>3. attempts[b.ordinal].status = "completed" /\ \A c \in Planning : c.supersedes # b.id
      OBVIOUS
    <3> HIDE DEF C
    <3>4. QED
      BY <1>14, <3>2, <3>3
  <2> HIDE DEF B, C
  <2>4. QED
    BY <1>13, <2>2, <2>3 DEF B
<1>16. \A m \in 1..N : at(P[m].id) = m
  <2>1. SUFFICES ASSUME NEW m \in 1..N
                 PROVE  at(P[m].id) = m
    OBVIOUS
  <2>2. attempts[m].id = P[m].id /\ m \in DOMAIN attempts
    BY <1>5
  <2>3. \A n \in DOMAIN attempts : attempts[n].id = P[m].id => n = m
    <3>1. SUFFICES ASSUME NEW n \in 1..N, P[n].id = P[m].id
                   PROVE  n = m
      BY <1>5
    <3>2. P[n] = P[m]
      BY <1>3, <3>1
    <3>3. QED
      BY <1>3, <3>2
  <2>4. QED
    BY <2>2, <2>3
<1>17. \A i, j \in DOMAIN eligible : i < j => at(eligible[i]) < at(eligible[j])
  <2>1. SUFFICES ASSUME NEW i \in DOMAIN eligible, NEW j \in DOMAIN eligible, i < j
                 PROVE  at(eligible[i]) < at(eligible[j])
    OBVIOUS
  <2>2. PICK m \in C, n \in C : m < n /\ eligible[i] = P[m].id /\ eligible[j] = P[n].id
    BY <1>13, <2>1
  <2>3. m \in 1..N /\ n \in 1..N
    BY <1>3
  <2>4. at(P[m].id) = m /\ at(P[n].id) = n
    BY <1>16, <2>3
  <2> HIDE DEF at
  <2>5. QED
    BY <2>2, <2>4
<1>18. \A S \in (SUBSET {a.id : a \in Planning}) \ {{}} :
         \E id \in S : \A a \in Planning : a.id \in S => a.supersedes # id
  <2>1. SUFFICES ASSUME NEW S \in SUBSET {a.id : a \in Planning}, S # {}
                 PROVE  \E id \in S : \A a \in Planning : a.id \in S => a.supersedes # id
    OBVIOUS
  <2>2. QED
    BY <1>1, <2>1, NoneReplacesItself
<1>19. QED
  BY <1>6, <1>7, <1>8, <1>10, <1>11, <1>15, <1>17, <1>18 DEF LedgerIsWhole, Planning, attempts, eligible

-----------------------------------------------------------------------------
(***************************************************************************)
(* Types.                                                                  *)
(***************************************************************************)
LEMMA InitInvariant == Init => IInv
<1> SUFFICES ASSUME Init PROVE IInv
  OBVIOUS
<1>1. /\ pc = "idle" /\ cursor = 1 /\ agreed = None /\ statuses = <<>> /\ runs = <<>>
      /\ phase = 1 /\ outcomes = <<>> /\ receipt = None /\ exit = None /\ intact = Digests
      /\ \/ plan \in Plans /\ evidenceSet = None
         \/ plan = None /\ evidenceSet \in Ledgers
      /\ index \in Indexes
  BY DEF Init
<1>2. TypeOK
  <2>1. phase \in 1..(Len(Phases) + 1)
    BY <1>1 DEF Phases
  <2>2. plan # None \/ evidenceSet # None
    BY <1>1, SchemaAssumption
  <2>3. QED
    BY <1>1, <2>1, <2>2 DEF TypeOK
<1>3. /\ plan # None => PlanTyped(plan)
      /\ evidenceSet # None => IsList(evidenceSet.attempts)
  BY <1>1, SchemaAssumption DEF PlanTyped
<1>4. IndexTyped
  BY <1>1, SchemaAssumption DEF IndexTyped
<1>5. Apart /\ Gathering /\ Ledgered /\ Loading /\ Deciding /\ Emitted
  BY <1>1 DEF Apart, Gathering, Ledgered, Loading, Deciding, Emitted
<1>6. QED
  BY <1>2, <1>3, <1>4, <1>5 DEF IInv, Typed

\* A plan in another layout is the same plan.
LEMMA PlanRelisted ==
  ASSUME Typed, RelistPlan
  PROVE  /\ plan' # None /\ PlanTyped(plan')
         /\ plan'.attemptCount = plan.attemptCount
         /\ plan'.repetitionCount = plan.repetitionCount
         /\ plan'.attempts = Reversed(plan.attempts)
         /\ Elements(plan'.attempts) = Elements(plan.attempts)
         /\ Len(plan'.attempts) = Len(plan.attempts)
<1>1. /\ plan \in Layouts(plan) /\ None \notin Layouts(plan)
      /\ \A a \in Elements(plan.attempts) : a.id # NoAttempt
      /\ plan' = [plan EXCEPT !.attempts = Reversed(plan.attempts)]
  BY DEF RelistPlan, Typed, PlanTyped
<1>2. /\ plan'.attemptCount = plan.attemptCount
      /\ plan'.repetitionCount = plan.repetitionCount
      /\ plan'.attempts = Reversed(plan.attempts)
      /\ plan' = [attemptCount |-> plan.attemptCount, repetitionCount |-> plan.repetitionCount,
                  attempts |-> Reversed(plan.attempts)]
  BY <1>1 DEF Layouts
<1>3. /\ IsList(plan'.attempts) /\ Elements(plan'.attempts) = Elements(plan.attempts)
      /\ Len(plan'.attempts) = Len(plan.attempts)
  <2> DEFINE s == plan.attempts
             t == plan'.attempts
  <2>1. IsList(s) /\ t = Reversed(s)
    BY <1>1, <1>2, LayoutsList
  <2> HIDE DEF s, t
  <2>2. IsList(t) /\ Elements(t) = Elements(s) /\ Len(t) = Len(s)
    BY <2>1, Reversal
  <2>3. QED
    BY <2>2 DEF s, t
<1>4. Layouts(plan') = Layouts(plan)
  BY <1>2, <1>3 DEF Layouts
<1>5. plan' \in Layouts(plan')
  BY <1>2, <1>3 DEF Layouts, IsList
<1>6. QED
  BY <1>1, <1>2, <1>3, <1>4, <1>5 DEF PlanTyped

\* A policy in another layout is the same policy.
LEMMA PolicyRelisted ==
  ASSUME IndexTyped, RelistPolicy
  PROVE  /\ IndexTyped'
         /\ index'.registries = index.registries
         /\ Len(index'.policies) = Len(index.policies)
         /\ DOMAIN index'.policies = DOMAIN index.policies
         /\ \A i \in DOMAIN index.policies :
              /\ index'.policies[i].registry = index.policies[i].registry
              /\ index'.policies[i].entries = Reversed(index.policies[i].entries)
              /\ IsList(index.policies[i].entries)
<1> DEFINE Q == index.policies
           R == [i \in DOMAIN Q |-> [Q[i] EXCEPT !.entries = Reversed(Q[i].entries)]]
<1>1. /\ index \in [registries : {index.registries}, policies : Seq(Elements(Q))]
      /\ index' = [index EXCEPT !.policies = R]
  <2>1. index' = [index EXCEPT !.policies = R]
    BY DEF RelistPolicy
  <2>2. QED
    BY <2>1 DEF IndexTyped
<1>2. index'.registries = index.registries /\ index'.policies = R
      /\ index' = [registries |-> index.registries, policies |-> R]
  BY <1>1
<1>3. Q \in Seq(Elements(Q)) /\ Len(Q) \in Nat /\ DOMAIN Q = 1..Len(Q)
  BY <1>1
<1>4. \A i \in DOMAIN Q :
        /\ Q[i] \in PolicyLayouts(Q[i]) /\ Q[i].entries # <<>> /\ IsList(Q[i].entries)
        /\ \A e \in Elements(Q[i].entries) : e.key \in Int /\ e.bound \in Int
  BY LayoutsList DEF IndexTyped, Elements
<1>5. \A i \in DOMAIN Q :
        /\ R[i].registry = Q[i].registry /\ R[i].entries = Reversed(Q[i].entries)
        /\ R[i] = [registry |-> Q[i].registry, entries |-> Reversed(Q[i].entries)]
  BY <1>4 DEF PolicyLayouts
<1>6. DOMAIN R = DOMAIN Q /\ R \in Seq(Elements(R)) /\ Len(R) = Len(Q)
  <2>1. DOMAIN R = 1..Len(Q)
    BY <1>3
  <2>2. R \in [1..Len(Q) -> Elements(R)]
    BY <2>1 DEF Elements
  <2> HIDE DEF R
  <2>3. QED
    BY <1>3, <2>1, <2>2
<1> HIDE DEF R
<1>7. \A i \in DOMAIN Q :
        /\ R[i] \in PolicyLayouts(R[i]) /\ R[i].entries # <<>>
        /\ \A e \in Elements(R[i].entries) : e.key \in Int /\ e.bound \in Int
  <2>1. SUFFICES ASSUME NEW i \in DOMAIN Q
                 PROVE  /\ R[i] \in PolicyLayouts(R[i]) /\ R[i].entries # <<>>
                        /\ \A e \in Elements(R[i].entries) : e.key \in Int /\ e.bound \in Int
    OBVIOUS
  <2> DEFINE s == Q[i].entries
  <2>2. /\ IsList(s) /\ s # <<>> /\ R[i].entries = Reversed(s) /\ R[i].registry = Q[i].registry
        /\ R[i] = [registry |-> Q[i].registry, entries |-> Reversed(s)]
        /\ \A e \in Elements(s) : e.key \in Int /\ e.bound \in Int
    BY <1>4, <1>5
  <2> HIDE DEF s
  <2>3. /\ IsList(Reversed(s)) /\ Len(Reversed(s)) = Len(s) /\ Elements(Reversed(s)) = Elements(s)
    BY <2>2, Reversal
  <2>4. Reversed(s) # <<>>
    BY <2>2, <2>3 DEF IsList
  <2>5. R[i] \in PolicyLayouts(R[i])
    BY <2>2, <2>3 DEF PolicyLayouts, IsList
  <2>6. QED
    BY <2>2, <2>3, <2>4, <2>5
<1>8. IndexTyped'
  <2>1. index' \in [registries : {index'.registries}, policies : Seq(Elements(index'.policies))]
    BY <1>2, <1>6
  <2>2. \A p \in Elements(index'.policies) :
          /\ p \in PolicyLayouts(p) /\ p.entries # <<>>
          /\ \A e \in Elements(p.entries) : e.key \in Int /\ e.bound \in Int
    BY <1>2, <1>6, <1>7 DEF Elements
  <2>3. QED
    BY <1>2, <2>1, <2>2 DEF IndexTyped
<1>9. QED
  BY <1>2, <1>4, <1>5, <1>6, <1>8

\* A step that leaves the ledger and the authorities leaves the verdict.
LEMMA SameInputs ==
  ASSUME index' = index, evidenceSet' = evidenceSet
  PROVE  SameRecords
<1>1. \A p : Matches(p)' = Matches(p)
  BY DEF Matches
<1>2. Policy' = Policy
  BY DEF Policy
<1>3. \A p : RegistryOf(p)' = RegistryOf(p)
  BY <1>1 DEF RegistryOf
<1>4. Registry' = Registry
  BY <1>1, <1>2 DEF Registry, RegistryOf
<1>5. \A e : PhaseOf(e)' = PhaseOf(e)
  BY <1>4 DEF PhaseOf
<1>6. \A e, f : Before(e, f)' <=> Before(e, f)
  BY <1>5 DEF Before
<1>7. Checks' = Checks
  <2>1. \A e : Place(e)' = Place(e)
    BY <1>2, <1>6 DEF Place
  <2>2. QED
    BY <1>2, <2>1 DEF Checks
<1>8. AuthoritiesHold => AuthoritiesHold'
  BY <1>1, <1>3 DEF AuthoritiesHold
<1>9. QED
  BY <1>4, <1>7, <1>8 DEF SameRecords

\* So does one that lays the policy out anew.
LEMMA SamePolicy ==
  ASSUME IndexTyped, AuthoritiesHold, RelistPolicy
  PROVE  SameRecords
<1>0. PICK Q, R : Q = index.policies /\ R = index'.policies
  OBVIOUS
<1>1. /\ index'.registries = index.registries
      /\ Len(R) = Len(Q) /\ DOMAIN R = DOMAIN Q
      /\ \A i \in DOMAIN Q : /\ R[i].registry = Q[i].registry
                             /\ R[i].entries = Reversed(Q[i].entries)
                             /\ IsList(Q[i].entries)
  BY <1>0, PolicyRelisted
<1>2. /\ \A p : Matches(p)' = Matches(p)
      /\ \A p, q : p.registry = q.registry => Matches(p) = Matches(q)
  BY <1>1 DEF Matches
<1>3. /\ \A p : RegistryOf(p)' = RegistryOf(p)
      /\ \A p, q : p.registry = q.registry => RegistryOf(p) = RegistryOf(q)
  BY <1>1, <1>2 DEF RegistryOf
<1>4. /\ \A r \in Elements(index.registries) : WellFormedRegistry(r)
      /\ \A i \in DOMAIN Q :
           /\ WellFormedPolicy(Q[i])
           /\ Cardinality(Matches(Q[i])) = 1
           /\ \A e \in Elements(Q[i].entries) : Binds(RegistryOf(Q[i]), e)
      /\ Len(Q) = 1
  BY <1>0 DEF AuthoritiesHold, Elements
<1>5. 1 \in DOMAIN Q
  <2>1. Q \in Seq(Elements(Q))
    BY <1>0 DEF IndexTyped
  <2>2. QED
    BY <1>4, <2>1
<1>6. \A i \in DOMAIN Q :
        /\ Elements(R[i].entries) = Elements(Q[i].entries)
        /\ Len(R[i].entries) = Len(Q[i].entries)
        /\ WellFormedPolicy(R[i])
        /\ Matches(R[i]) = Matches(Q[i])
        /\ RegistryOf(R[i]) = RegistryOf(Q[i])
  <2>1. SUFFICES ASSUME NEW i \in DOMAIN Q
                 PROVE  /\ Elements(R[i].entries) = Elements(Q[i].entries)
                        /\ Len(R[i].entries) = Len(Q[i].entries)
                        /\ WellFormedPolicy(R[i])
                        /\ Matches(R[i]) = Matches(Q[i])
                        /\ RegistryOf(R[i]) = RegistryOf(Q[i])
    OBVIOUS
  <2> DEFINE s == Q[i].entries
             t == R[i].entries
  <2>2. IsList(s) /\ t = Reversed(s) /\ R[i].registry = Q[i].registry
    BY <1>1
  <2>3. \A j, k \in DOMAIN s : s[j].key = s[k].key => j = k
    BY <1>4 DEF WellFormedPolicy, Distinct
  <2> HIDE DEF s, t
  <2>4. /\ Len(t) = Len(s) /\ DOMAIN t = DOMAIN s /\ Elements(t) = Elements(s)
        /\ DOMAIN s = 1..Len(s) /\ Len(s) \in Nat
        /\ \A j \in DOMAIN s : Len(s) + 1 - j \in DOMAIN s /\ t[j] = s[Len(s) + 1 - j]
    BY <2>2, Reversal
  <2>5. \A j, k \in DOMAIN t : t[j].key = t[k].key => j = k
    <3>1. SUFFICES ASSUME NEW j \in DOMAIN s, NEW k \in DOMAIN s, t[j].key = t[k].key
                   PROVE  j = k
      BY <2>4
    <3>2. Len(s) + 1 - j = Len(s) + 1 - k
      BY <2>3, <2>4, <3>1
    <3>3. QED
      BY <2>4, <3>2
  <2>6. WellFormedPolicy(R[i])
    BY <2>5 DEF WellFormedPolicy, Distinct, t
  <2>7. Matches(R[i]) = Matches(Q[i]) /\ RegistryOf(R[i]) = RegistryOf(Q[i])
    BY <1>2, <1>3, <2>2
  <2>8. QED
    BY <2>4, <2>6, <2>7 DEF s, t
<1>7. /\ Policy' = R[1] /\ Policy = Q[1]
      /\ Elements(Policy'.entries) = Elements(Policy.entries)
      /\ Len(Policy'.entries) = Len(Policy.entries)
  BY <1>0, <1>5, <1>6 DEF Policy
<1>8. Registry' = Registry
  <2>1. RegistryOf(Q[1]) = RegistryOf(R[1]) /\ RegistryOf(R[1])' = RegistryOf(R[1])
    BY <1>3, <1>5, <1>6
  <2>2. Registry = RegistryOf(Q[1])
    BY <1>7 DEF Registry, RegistryOf, Matches
  <2>3. Registry' = RegistryOf(R[1])'
    BY <1>7 DEF Registry, RegistryOf, Matches
  <2>4. QED
    BY <2>1, <2>2, <2>3
<1>9. \A e : PhaseOf(e)' = PhaseOf(e)
  BY <1>8 DEF PhaseOf
<1>10. \A e, f : Before(e, f)' <=> Before(e, f)
  BY <1>9 DEF Before
<1>11. Checks' = Checks
  <2>1. \A e : Place(e)' = Place(e)
    BY <1>7, <1>10 DEF Place
  <2>2. QED
    BY <1>7, <2>1 DEF Checks
<1>12. AuthoritiesHold'
  <2>1. \A i \in DOMAIN Q :
          /\ WellFormedPolicy(R[i])
          /\ Cardinality(Matches(R[i])) = 1
          /\ \A e \in Elements(R[i].entries) : Binds(RegistryOf(R[i]), e)
    BY <1>4, <1>6
  <2>2. \A p \in Elements(R) :
          /\ WellFormedPolicy(p)
          /\ Cardinality(Matches(p)) = 1
          /\ \A e \in Elements(p.entries) : Binds(RegistryOf(p), e)
    BY <1>1, <2>1 DEF Elements
  <2>3. \A p \in Elements(R) :
          /\ WellFormedPolicy(p)
          /\ Cardinality(Matches(p)') = 1
          /\ \A e \in Elements(p.entries) : Binds(RegistryOf(p)', e)
    BY <1>2, <1>3, <2>2
  <2>4. QED
    BY <1>0, <1>1, <1>4, <2>3 DEF AuthoritiesHold
<1>13. evidenceSet' = evidenceSet
  BY DEF RelistPolicy
<1>14. QED
  BY <1>8, <1>11, <1>12, <1>13 DEF SameRecords

-----------------------------------------------------------------------------
(***************************************************************************)
(* The steps of an assembly.                                               *)
(***************************************************************************)

\* A list that is written entry by entry is the list of those entries.
LEMMA AppendNext ==
  ASSUME NEW t, NEW n \in Nat, t = [k \in 1..(n + 1) |-> t[k]]
  PROVE  LET s == [k \in 1..n |-> t[k]] IN
         /\ Len(s) = n /\ Append(s, t[n + 1]) = t /\ Len(t) = n + 1
<1> DEFINE s == [k \in 1..n |-> t[k]]
           T == {t[k] : k \in 1..(n + 1)}
<1>1. t \in [1..(n + 1) -> T] /\ s \in [1..n -> T] /\ t[n + 1] \in T /\ n + 1 \in Nat
  OBVIOUS
<1> HIDE DEF T, s
<1>2. s \in Seq(T) /\ Len(s) = n /\ t \in Seq(T) /\ Len(t) = n + 1
  BY <1>1
<1>3. /\ Append(s, t[n + 1]) \in Seq(T) /\ Len(Append(s, t[n + 1])) = n + 1
      /\ \A k \in 1..n : Append(s, t[n + 1])[k] = s[k]
      /\ Append(s, t[n + 1])[n + 1] = t[n + 1]
  BY <1>1, <1>2, AppendProperties
<1>4. \A k \in 1..(n + 1) : Append(s, t[n + 1])[k] = t[k]
  <2>1. SUFFICES ASSUME NEW k \in 1..(n + 1)
                 PROVE  Append(s, t[n + 1])[k] = t[k]
    OBVIOUS
  <2>2. CASE k \in 1..n
    BY <1>3, <2>2 DEF s
  <2>3. CASE k = n + 1
    BY <1>3, <2>3
  <2>4. k \in 1..n \/ k = n + 1
    OBVIOUS
  <2>5. QED
    BY <2>2, <2>3, <2>4
<1>5. Append(s, t[n + 1]) = t
  BY <1>2, <1>3, <1>4, SeqEqual
<1>6. QED
  BY <1>2, <1>5 DEF s

\* Nothing is gathered yet when the plan has been parsed.
LEMMA PlanParsed ==
  ASSUME Typed, ParsePlan
  PROVE  Gathering'
<1> SUFFICES ASSUME pc' = "gather"
             PROVE  Gathering'
  BY DEF Gathering
<1>1. /\ pc = "idle" /\ plan # None /\ ScheduleAccounted(plan) /\ ChainsHold(plan)
      /\ UNCHANGED <<inputs, locals>>
  BY DEF ParsePlan, Refuse
<1>2. /\ plan' = plan /\ cursor' = 1 /\ agreed' = None /\ statuses' = <<>>
  BY <1>1 DEF Typed, TypeOK, inputs, locals
<1>3. Accounted'
  BY <1>1, <1>2 DEF Accounted
<1>4. Gathered(0)' = {}
  BY DEF Gathered
<1>5. Len(plan'.attempts) \in Nat
  BY <1>1, <1>2, LayoutsList DEF Typed, PlanTyped, IsList
<1>6. statuses' = [n \in 1..(cursor' - 1) |-> StatusOf(Ordered(plan)[n])']
  BY <1>2
<1>7. cursor' <= Len(plan'.attempts) + 1 /\ cursor' - 1 = 0
  BY <1>2, <1>5
<1>8. QED
  BY <1>1, <1>2, <1>3, <1>4, <1>6, <1>7 DEF Gathering

\* One more receipt is gathered, and agrees with those before it.
LEMMA ReceiptGathered ==
  ASSUME Typed, Gathering, Gather
  PROVE  /\ Gathering'
         /\ statuses' \in Seq(Statuses \union {"no_receipt"})
         /\ Len(statuses') = cursor' - 1
<1> DEFINE a == Ordered(plan)[cursor]
           G == Gathered(cursor - 1)
           t == [n \in 1..cursor |-> StatusOf(Ordered(plan)[n])]
<1>1. /\ pc = "gather" /\ cursor <= Len(plan.attempts) /\ cursor' = cursor + 1
      /\ plan' = plan /\ pc' = "gather"
  BY DEF Gather, inputs
<1>2. /\ plan # None /\ Accounted
      /\ statuses = [n \in 1..(cursor - 1) |-> StatusOf(Ordered(plan)[n])]
      /\ G \subseteq Digests
      /\ agreed = None => G = {}
      /\ agreed # None => G # {} /\ \A d \in G : ReceiptOf[d].facts = agreed
  BY <1>1 DEF Gathering
<1>3. /\ cursor \in Nat \ {0} /\ intact \subseteq Digests
      /\ statuses \in Seq(Statuses \union {"no_receipt"})
      /\ Len(statuses) = cursor - 1 /\ Len(plan.attempts) \in Nat
  BY <1>1, <1>2, LayoutsList DEF Typed, TypeOK, PlanTyped, IsList
<1>4. statuses' = Append(statuses, StatusOf(a))
  BY DEF Gather, Planned, StatusOf
<1>5. \/ a.receipt = NoDigest /\ agreed' = agreed
      \/ /\ a.receipt # NoDigest /\ a.receipt \in Digests
         /\ agreed \in {None, ReceiptOf[a.receipt].facts}
         /\ agreed' = ReceiptOf[a.receipt].facts
  BY <1>3 DEF Gather, Planned
<1>6. StatusOf(a) \in Statuses \union {"no_receipt"}
  BY <1>5, SchemaAssumption DEF StatusOf
<1>7. statuses' \in Seq(Statuses \union {"no_receipt"}) /\ Len(statuses') = cursor' - 1
  BY <1>1, <1>3, <1>4, <1>6
<1>8. statuses' = t
  <2>1. (cursor - 1) + 1 = cursor /\ cursor - 1 \in Nat
    BY <1>3
  <2>2. t = [n \in 1..((cursor - 1) + 1) |-> t[n]]
    BY <2>1
  <2>3. statuses = [n \in 1..(cursor - 1) |-> t[n]] /\ t[cursor] = StatusOf(a)
    BY <1>2, <1>3
  <2> HIDE DEF t
  <2>4. Append([n \in 1..(cursor - 1) |-> t[n]], t[(cursor - 1) + 1]) = t
    BY <2>1, <2>2, AppendNext
  <2>5. QED
    BY <1>4, <2>1, <2>3, <2>4
<1>9. Gathered(cursor) = IF a.receipt = NoDigest THEN G ELSE G \union {a.receipt}
  <2>1. 1..cursor = (1..(cursor - 1)) \union {cursor}
    BY <1>3
  <2>2. QED
    BY <2>1 DEF Gathered
<1> HIDE DEF G, t
<1>10. cursor' - 1 = cursor
  BY <1>1, <1>3
<1>11. Gathered(cursor - 1)' = Gathered(cursor)
  <2>1. Ordered(plan)' = Ordered(plan)
    BY <1>1
  <2>2. QED
    BY <1>10, <2>1 DEF Gathered
<1>12. /\ Gathered(cursor) \subseteq Digests
       /\ agreed' = None => Gathered(cursor) = {}
       /\ agreed' # None => /\ Gathered(cursor) # {}
                            /\ \A d \in Gathered(cursor) : ReceiptOf[d].facts = agreed'
  <2>1. CASE a.receipt = NoDigest
    BY <1>2, <1>5, <1>9, <2>1
  <2>2. CASE a.receipt # NoDigest
    <3>1. ReceiptOf[a.receipt].facts # None
      BY <1>5, <2>2, SchemaAssumption
    <3>2. QED
      BY <1>2, <1>5, <1>9, <2>2, <3>1
  <2>3. QED
    BY <2>1, <2>2
<1>13. Accounted'
  BY <1>1, <1>2 DEF Accounted
<1>14. Gathering'
  <2>1. statuses' = [n \in 1..(cursor' - 1) |-> StatusOf(Ordered(plan')[n])]
    BY <1>1, <1>8, <1>10 DEF t
  <2>2. cursor' <= Len(plan'.attempts) + 1
    BY <1>1, <1>3
  <2>3. [n \in 1..(cursor - 1) |-> StatusOf(Ordered(plan)[n])]'
          = [n \in 1..(cursor' - 1) |-> StatusOf(Ordered(plan')[n])]
    BY DEF StatusOf
  <2>4. QED
    BY <1>1, <1>2, <1>11, <1>12, <1>13, <2>1, <2>2, <2>3 DEF Gathering
<1>15. QED
  BY <1>7, <1>14

\* The ledger that is finished is the one the plan has, and no other was there.
LEMMA SetFinished ==
  ASSUME Typed, Gathering, Ledgered, FinishSet
  PROVE  /\ Ledgered'
         /\ plan' = plan /\ index' = index
         /\ evidenceSet # None => evidenceSet' = evidenceSet
         /\ evidenceSet' # None => IsList(evidenceSet'.attempts)
<1> DEFINE N == Len(plan.attempts)
           P == Ordered(plan)
           status == [n \in 1..N |-> StatusOf(P[n])]
<1>1. plan' = plan /\ index' = index /\ pc = "gather" /\ cursor > N
  BY DEF FinishSet, Refuse, inputs
<1>2. /\ plan # None /\ Accounted /\ cursor <= N + 1
      /\ statuses = [n \in 1..(cursor - 1) |-> StatusOf(P[n])]
      /\ Gathered(cursor - 1) \subseteq Digests
      /\ agreed # None => /\ Gathered(cursor - 1) # {}
                          /\ \A d \in Gathered(cursor - 1) : ReceiptOf[d].facts = agreed
  BY <1>1 DEF Gathering
<1>3. cursor - 1 = N /\ N \in Nat
  BY <1>1, <1>2, LayoutsList DEF Typed, TypeOK, PlanTyped, IsList
<1>4. /\ statuses = status
      /\ Gathered(N) \subseteq Digests
      /\ agreed # None => {ReceiptOf[d].facts : d \in Gathered(N)} = {agreed}
  BY <1>2, <1>3
<1>5. \/ agreed = None /\ evidenceSet' = evidenceSet
      \/ agreed # None /\ evidenceSet' = LedgerOf(agreed)
  <2>1. CASE agreed = None
    BY <2>1 DEF FinishSet, Refuse, inputs
  <2>2. CASE agreed # None
    <3>1. evidenceSet' =
            [facts |-> agreed, eligible |-> EligibleOf(P, status),
             attempts |-> [n \in 1..N |->
                             [id |-> P[n].id, status |-> status[n], receipt |-> P[n].receipt]]]
      BY <1>4, <2>2 DEF FinishSet
    <3>2. [n \in 1..N |-> [id |-> P[n].id, status |-> status[n], receipt |-> P[n].receipt]]
            = [n \in 1..N |-> [id |-> P[n].id, status |-> StatusOf(P[n]), receipt |-> P[n].receipt]]
      OBVIOUS
    <3>3. QED
      BY <2>2, <3>1, <3>2 DEF LedgerOf
  <2>3. QED
    BY <2>1, <2>2
<1> HIDE DEF status, N, P
<1>6. evidenceSet # None => evidenceSet' = evidenceSet
  <2>1. SUFFICES ASSUME evidenceSet # None, agreed # None
                 PROVE  evidenceSet' = evidenceSet
    BY <1>5
  <2>2. PICK facts : /\ {ReceiptOf[d].facts : d \in Gathered(N)} = {facts}
                     /\ evidenceSet = LedgerOf(facts)
    BY <1>2, <2>1 DEF Ledgered, N
  <2>3. facts = agreed
    BY <1>4, <2>1, <2>2
  <2>4. QED
    BY <1>5, <2>1, <2>2, <2>3
<1>7. ASSUME evidenceSet' # None
      PROVE  \E facts : /\ {ReceiptOf[d].facts : d \in Gathered(N)} = {facts}
                        /\ evidenceSet' = LedgerOf(facts)
  <2>1. CASE agreed = None
    BY <1>2, <1>5, <1>7, <2>1 DEF Ledgered, N
  <2>2. CASE agreed # None
    BY <1>4, <1>5, <2>2
  <2>3. QED
    BY <2>1, <2>2
<1>8. Gathered(Len(plan.attempts))' = Gathered(N) /\ \A facts : LedgerOf(facts)' = LedgerOf(facts)
  <2>1. Ordered(plan)' = Ordered(plan)
    BY <1>1
  <2>2. QED
    BY <1>1, <2>1 DEF Gathered, LedgerOf, StatusOf, N
<1>9. Accounted'
  BY <1>1, <1>2 DEF Accounted
<1>10. Ledgered'
  BY <1>4, <1>7, <1>8, <1>9 DEF Ledgered
<1>11. ASSUME evidenceSet' # None
       PROVE  IsList(evidenceSet'.attempts)
  <2>1. PICK facts : evidenceSet' = LedgerOf(facts)
    BY <1>7, <1>11
  <2> DEFINE L == evidenceSet'.attempts
  <2>2. L \in [1..N -> Elements(L)]
    BY <2>1 DEF LedgerOf, Elements, N
  <2> HIDE DEF L
  <2>3. QED
    BY <1>3, <2>2 DEF IsList, L
<1>12. QED
  BY <1>1, <1>6, <1>10, <1>11

\* The ledger of a plan is the one of the plan in any other layout.
LEMMA PlanLaidOut ==
  ASSUME Typed, Ledgered, RelistPlan
  PROVE  Ledgered'
<1> SUFFICES ASSUME evidenceSet # None
             PROVE  Ledgered'
  BY DEF Ledgered, RelistPlan
<1>0. PICK p, q : p = plan /\ q = plan'
  OBVIOUS
<1>1. /\ PlanTyped(p) /\ p # None /\ q # None
      /\ q.attemptCount = p.attemptCount /\ q.repetitionCount = p.repetitionCount
      /\ q.attempts = Reversed(p.attempts)
      /\ Elements(q.attempts) = Elements(p.attempts) /\ Len(q.attempts) = Len(p.attempts)
      /\ evidenceSet' = evidenceSet
  BY <1>0, PlanRelisted DEF RelistPlan, Typed
<1>2. ScheduleAccounted(p) /\ ChainsHold(p)
  BY <1>0, <1>1 DEF Ledgered, Accounted
<1>3. /\ Identities(q) = Identities(p)
      /\ Ordered(q) = Ordered(p)
      /\ \A id : Supersedes(q, id) = Supersedes(p, id)
  BY <1>1 DEF Identities, Ordered, Supersedes
<1>4. ChainsHold(q)
  BY <1>2, <1>3 DEF ChainsHold
<1>5. ScheduleAccounted(q)
  <2> DEFINE s == p.attempts
             t == q.attempts
  <2>1. /\ \A i, j \in DOMAIN s : s[i].id = s[j].id => i = j
        /\ \A i, j \in DOMAIN s : s[i].ordinal = s[j].ordinal => i = j
        /\ IsList(s) /\ t = Reversed(s)
    BY <1>1, <1>2, LayoutsList DEF ScheduleAccounted, Distinct, PlanTyped
  <2> HIDE DEF s, t
  <2>2. /\ DOMAIN t = DOMAIN s /\ DOMAIN s = 1..Len(s) /\ Len(s) \in Nat
        /\ \A j \in DOMAIN s : Len(s) + 1 - j \in DOMAIN s /\ t[j] = s[Len(s) + 1 - j]
    BY <2>1, Reversal
  <2>3. ASSUME NEW i \in DOMAIN t, NEW j \in DOMAIN t,
               t[i].id = t[j].id \/ t[i].ordinal = t[j].ordinal
        PROVE  i = j
    <3>1. Len(s) + 1 - i = Len(s) + 1 - j
      BY <2>1, <2>2, <2>3
    <3>2. QED
      BY <2>2, <2>3, <3>1
  <2>4. Distinct(t, LAMBDA a : a.id) /\ Distinct(t, LAMBDA a : a.ordinal)
    BY <2>3 DEF Distinct
  <2>5. QED
    BY <1>1, <1>2, <2>4 DEF ScheduleAccounted, t
<1>6. Accounted'
  BY <1>0, <1>4, <1>5 DEF Accounted
<1>7. Ordered(plan)' = Ordered(plan) /\ Len(plan'.attempts) = Len(plan.attempts)
  BY <1>0, <1>1, <1>3
<1>8. /\ Gathered(Len(plan.attempts))' = Gathered(Len(plan.attempts))
      /\ \A facts : LedgerOf(facts)' = LedgerOf(facts)
  BY <1>7 DEF Gathered, LedgerOf, StatusOf
<1>9. QED
  BY <1>0, <1>1, <1>6, <1>8 DEF Ledgered

-----------------------------------------------------------------------------
(***************************************************************************)
(* The steps of an evaluation.                                             *)
(***************************************************************************)

\* With authorities and an evidence set that hold, the eligible attempts are a
\* list, and the checks as many as the policy has entries.
LEMMA Lists ==
  ASSUME Typed, Authorized
  PROVE  /\ IndexTyped /\ AuthoritiesHold /\ Len(Eligible) \in Nat
         /\ \A n \in DOMAIN Checks : PhaseOf(Checks[n]) \in 1..3
         /\ DOMAIN Checks = DOMAIN Policy.entries
         /\ DOMAIN Checks = 1..Len(Policy.entries)
         /\ Len(Policy.entries) \in Nat
<1>1. IndexTyped /\ AuthoritiesHold
  BY DEF Typed, Authorized
<1>2. Len(Eligible) \in Nat
  BY EligibleList DEF Typed, Authorized, Eligible
<1>3. /\ DOMAIN Checks = DOMAIN Policy.entries
      /\ DOMAIN Checks = 1..Len(Policy.entries)
      /\ Len(Policy.entries) \in Nat
      /\ \A n \in DOMAIN Checks : Checks[n] \in Elements(Policy.entries)
  BY <1>1, ChecksInOrder
<1>4. \A n \in DOMAIN Checks : PhaseOf(Checks[n]) \in 1..3
  BY <1>1, <1>3, OnePolicy
<1>5. QED
  BY <1>1, <1>2, <1>3, <1>4

\* No run is read yet when the evaluation has identified its inputs.
LEMMA InputsIdentified ==
  ASSUME Typed, Identify
  PROVE  Loading'
<1> SUFFICES ASSUME pc' = "load"
             PROVE  Loading'
  BY DEF Loading
<1>1. /\ pc = "idle" /\ Authorized /\ UNCHANGED <<inputs, locals>>
  BY DEF Identify, Refuse, Authorized
<1>2. /\ evidenceSet' = evidenceSet /\ index' = index /\ cursor' = 1 /\ runs' = <<>>
  BY <1>1 DEF Typed, TypeOK, inputs, locals
<1>3. Authorized' /\ Eligible' = Eligible
  BY <1>1, <1>2, SameInputs, SameVerdict
<1>4. Len(Eligible) \in Nat
  BY <1>1, Lists
<1>5. cursor' - 1 = 0 /\ cursor' <= Len(Eligible') + 1
  BY <1>2, <1>3, <1>4
<1>6. runs' = [k \in 1..(cursor' - 1) |-> Run(Eligible[k])']
  BY <1>2
<1>7. QED
  BY <1>3, <1>5, <1>6 DEF Loading

\* One more run is read.
LEMMA RunLoaded ==
  ASSUME Typed, Loading, Load
  PROVE  Loading' /\ Len(runs') = cursor' - 1
<1> DEFINE a == Eligible[cursor]
           t == [k \in 1..cursor |-> Run(Eligible[k])]
<1>1. /\ pc = "load" /\ cursor <= Len(Eligible) /\ cursor' = cursor + 1
      /\ evidenceSet' = evidenceSet /\ index' = index
      /\ a.receipt \in intact /\ Readable(Registry, ReceiptOf[a.receipt].observed)
      /\ runs' = Append(runs, Run(a))
  BY DEF Load, NextRun, Eligible, inputs
<1>2. /\ Authorized
      /\ runs = [k \in 1..(cursor - 1) |-> Run(Eligible[k])]
      /\ \A k \in 1..(cursor - 1) : Read(Eligible[k])
  BY <1>1 DEF Loading
<1>3. cursor \in Nat \ {0} /\ intact \subseteq Digests /\ Len(Eligible) \in Nat
  BY <1>2, Lists DEF Typed, TypeOK
<1>4. runs' = t /\ Len(t) = cursor
  <2>1. (cursor - 1) + 1 = cursor /\ cursor - 1 \in Nat
    BY <1>3
  <2>2. t = [k \in 1..((cursor - 1) + 1) |-> t[k]]
    BY <2>1
  <2>3. runs = [k \in 1..(cursor - 1) |-> t[k]] /\ t[cursor] = Run(a)
    BY <1>2, <1>3
  <2> HIDE DEF t
  <2>4. /\ Append([k \in 1..(cursor - 1) |-> t[k]], t[(cursor - 1) + 1]) = t
        /\ Len(t) = (cursor - 1) + 1
    BY <2>1, <2>2, AppendNext
  <2>5. QED
    BY <1>1, <2>1, <2>3, <2>4
<1>5. \A k \in 1..cursor : Read(Eligible[k])
  <2>1. Read(a)
    BY <1>1, <1>3 DEF Read
  <2>2. \A k \in 1..cursor : k \in 1..(cursor - 1) \/ k = cursor
    BY <1>3
  <2>3. QED
    BY <1>2, <2>1, <2>2
<1>6. /\ Authorized' /\ Eligible' = Eligible
      /\ \A x : Read(x)' <=> Read(x)
      /\ \A x : Run(x)' = Run(x)
  BY <1>1, <1>2, SameInputs, SameVerdict
<1>7. cursor' - 1 = cursor /\ cursor' <= Len(Eligible') + 1
  BY <1>1, <1>3, <1>6
<1>8. [k \in 1..(cursor - 1) |-> Run(Eligible[k])]' = t
  BY <1>6, <1>7 DEF Run
<1>9. \A k \in 1..cursor : Read(Eligible[k])'
  BY <1>5, <1>6 DEF Read
<1> HIDE DEF t
<1>10. Loading'
  BY <1>4, <1>6, <1>7, <1>8, <1>9 DEF Loading
<1>11. QED
  BY <1>4, <1>7, <1>10

\* When all runs are read, the first phase is reached and nothing is decided.
LEMMA RunsLoaded ==
  ASSUME Typed, Loading, LoadEnds
  PROVE  Deciding' /\ outcomes' \in Seq(Failed \union {"passed", "not_run"})
<1>1. /\ pc = "load" /\ cursor > Len(Eligible)
      /\ outcomes' = [n \in DOMAIN Policy.entries |-> "not_run"]
      /\ pc' = "phase" /\ phase' = 1 /\ runs' = runs
      /\ evidenceSet' = evidenceSet /\ index' = index
  BY DEF LoadEnds, Eligible, inputs
<1>2. /\ Authorized /\ cursor <= Len(Eligible) + 1
      /\ runs = [k \in 1..(cursor - 1) |-> Run(Eligible[k])]
      /\ \A k \in 1..(cursor - 1) : Read(Eligible[k])
  BY <1>1 DEF Loading
<1>3. /\ Len(Eligible) \in Nat /\ DOMAIN Checks = DOMAIN Policy.entries
      /\ DOMAIN Checks = 1..Len(Policy.entries) /\ Len(Policy.entries) \in Nat
      /\ \A n \in DOMAIN Checks : PhaseOf(Checks[n]) \in 1..3
  BY <1>2, Lists
<1>4. cursor - 1 = Len(Eligible)
  BY <1>1, <1>2, <1>3 DEF Typed, TypeOK
<1>5. runs' = AllRuns
  BY <1>1, <1>2, <1>4 DEF AllRuns
<1>6. \A n \in DOMAIN Checks : ~(PhaseOf(Checks[n]) < 1)
  BY <1>3
<1>7. outcomes' = Made(1)
  BY <1>1, <1>3, <1>6 DEF Made
<1>8. Reaches(1)
  BY <1>2, <1>4, <1>6 DEF Reaches, ComparableBefore
<1>9. AllRuns' = AllRuns /\ Made(1)' = Made(1) /\ Reaches(1)'
  BY <1>1, <1>8, SameInputs, SameVerdict
<1>10. Deciding'
  <2>1. Made(phase)' = Made(1)' /\ (Reaches(phase)' <=> Reaches(1)')
    BY <1>1 DEF Made, Reaches, ComparableBefore
  <2>2. QED
    BY <1>1, <1>5, <1>7, <1>9, <2>1 DEF Deciding
<1>11. outcomes' \in Seq(Failed \union {"passed", "not_run"})
  BY <1>1, <1>3
<1>12. QED
  BY <1>10, <1>11

\* A phase that is evaluated is the one that the evaluation ends at, or the
\* next one is reached.
LEMMA PhaseEvaluated ==
  ASSUME Typed, Deciding, EvaluatePhase
  PROVE  /\ Deciding'
         /\ outcomes' \in Seq(Failed \union {"passed", "not_run"})
         /\ phase' \in 1..4
<1>0. PICK p, q : p = phase /\ q = phase'
  OBVIOUS
<1>1. /\ pc = "phase" /\ p <= 3
      /\ \A n \in DOMAIN outcomes : InPhase(n) => \A r \in Elements(runs) :
           \A o \in Reports(r, Checks[n]) : Comparable(Checks[n], o)
      /\ outcomes' = [n \in DOMAIN outcomes |->
                        IF InPhase(n) THEN Judged(Checks[n], runs) ELSE outcomes[n]]
      /\ IF \E n \in DOMAIN outcomes : outcomes'[n] \in Failed
         THEN pc' = "verdict" /\ q = p
         ELSE pc' = "phase" /\ q = p + 1
      /\ evidenceSet' = evidenceSet /\ index' = index /\ runs' = runs
  BY <1>0 DEF EvaluatePhase, Phases, inputs
<1>2. runs = AllRuns /\ Reaches(p) /\ outcomes = Made(p)
  BY <1>0, <1>1 DEF Deciding, Reaches, ComparableBefore, Made
<1>3. p \in 1..3
  BY <1>0, <1>1 DEF Typed, TypeOK, Phases
<1>4. /\ Len(Eligible) \in Nat /\ DOMAIN Checks = 1..Len(Policy.entries)
      /\ Len(Policy.entries) \in Nat
      /\ \A n \in DOMAIN Checks : PhaseOf(Checks[n]) \in 1..3
  BY <1>2, Lists DEF Reaches
<1>5. \A n \in DOMAIN Checks : /\ PhaseOf(Checks[n]) < p + 1 <=> PhaseOf(Checks[n]) < p \/ InPhase(n)
                               /\ InPhase(n) <=> PhaseOf(Checks[n]) = p
  BY <1>0, <1>3, <1>4 DEF InPhase
<1>6. outcomes' = Made(p + 1)
  BY <1>1, <1>2, <1>5 DEF Made
<1>7. ComparableBefore(p + 1)
  <2>1. SUFFICES ASSUME NEW n \in DOMAIN Checks, PhaseOf(Checks[n]) < p + 1,
                        NEW k \in 1..Len(Eligible), NEW o \in Reports(AllRuns[k], Checks[n])
                 PROVE  Comparable(Checks[n], o)
    BY DEF ComparableBefore
  <2>2. CASE PhaseOf(Checks[n]) < p
    BY <1>2, <2>2 DEF Reaches, ComparableBefore
  <2>3. CASE InPhase(n)
    <3>1. AllRuns[k] \in Elements(runs)
      BY <1>2 DEF AllRuns, Elements
    <3>2. n \in DOMAIN outcomes
      BY <1>2 DEF Made
    <3>3. QED
      BY <1>1, <2>3, <3>1, <3>2
  <2>4. QED
    BY <1>5, <2>1, <2>2, <2>3
<1>8. (\E n \in DOMAIN outcomes : outcomes'[n] \in Failed) <=> FailsIn(p)
  <2>1. "not_run" \notin Failed
    BY DEF Failed
  <2>2. DOMAIN outcomes = DOMAIN Checks
    BY <1>2 DEF Made
  <2>3. \A n \in DOMAIN Checks :
          outcomes'[n] = IF PhaseOf(Checks[n]) < p + 1 THEN Judged(Checks[n], AllRuns) ELSE "not_run"
    BY <1>6 DEF Made
  <2>4. \A n \in DOMAIN Checks : PhaseOf(Checks[n]) < p => Judged(Checks[n], AllRuns) \notin Failed
    BY <1>2, <1>4 DEF Reaches, FailsIn
  <2>5. \A n \in DOMAIN Checks : outcomes'[n] \in Failed
          <=> PhaseOf(Checks[n]) = p /\ Judged(Checks[n], AllRuns) \in Failed
    BY <1>5, <2>1, <2>3, <2>4
  <2>6. QED
    BY <2>2, <2>5 DEF FailsIn
<1>9. /\ AllRuns' = AllRuns
      /\ \A x : Made(x)' = Made(x)
      /\ \A x : Reaches(x) => Reaches(x)'
      /\ \A x : EndsAt(x) => EndsAt(x)'
  BY <1>1, SameInputs, SameVerdict
<1>10. outcomes' \in Seq(Failed \union {"passed", "not_run"})
  <2>1. outcomes' \in [1..Len(Policy.entries) -> Failed \union {"passed", "not_run"}]
    BY <1>4, <1>6 DEF Made, Judged, Failed
  <2>2. QED
    BY <1>4, <2>1
<1>11. CASE FailsIn(p)
  <2>1. pc' = "verdict" /\ q = p
    BY <1>1, <1>8, <1>11
  <2>2. EndsAt(p) /\ Last(p) = p + 1
    BY <1>2, <1>3, <1>7, <1>11 DEF EndsAt, Last
  <2>3. EndsAt(q)' /\ outcomes' = Made(Last(q))'
    BY <1>6, <1>9, <2>1, <2>2
  <2>4. EndsAt(phase)' /\ outcomes' = Made(Last(phase))'
    BY <1>0, <2>3 DEF EndsAt, Reaches, ComparableBefore, FailsIn, Made, Last
  <2>5. Deciding' /\ phase' \in 1..4
    BY <1>0, <1>1, <1>2, <1>3, <1>9, <2>1, <2>4 DEF Deciding
  <2>6. QED
    BY <1>10, <2>5
<1>12. CASE ~FailsIn(p)
  <2>1. pc' = "phase" /\ q = p + 1
    BY <1>1, <1>8, <1>12
  <2>2. Reaches(q)
    BY <1>2, <1>3, <1>7, <1>12, <2>1 DEF Reaches
  <2>3. Reaches(q)' /\ outcomes' = Made(q)'
    BY <1>6, <1>9, <2>1, <2>2
  <2>4. Reaches(phase)' /\ outcomes' = Made(phase)'
    BY <1>0, <2>3 DEF Reaches, ComparableBefore, FailsIn, Made
  <2>5. Deciding' /\ phase' \in 1..4
    BY <1>0, <1>1, <1>2, <1>3, <1>9, <2>1, <2>4 DEF Deciding
  <2>6. QED
    BY <1>10, <2>5
<1>13. QED
  BY <1>11, <1>12

\* When no phase is left, the evaluation ends past the last one.
LEMMA PhasesEnded ==
  ASSUME Typed, Deciding, PhasesEnd
  PROVE  Deciding'
<1>1. /\ pc = "phase" /\ phase > 3 /\ pc' = "verdict"
      /\ UNCHANGED <<evidenceSet, index, runs, phase, outcomes>>
  BY DEF PhasesEnd, Phases, inputs, locals
<1>2. runs = AllRuns /\ Reaches(phase) /\ outcomes = Made(phase)
  BY <1>1 DEF Deciding
<1>3. phase = 4
  BY <1>1 DEF Typed, TypeOK, Phases
<1>4. Reaches(4) /\ outcomes = Made(4)
  BY <1>2, <1>3
<1>5. AllRuns' = AllRuns /\ Made(4)' = Made(4) /\ Reaches(4)'
  BY <1>1, <1>4, SameInputs, SameVerdict
<1>6. /\ EndsAt(phase)' <=> EndsAt(4)'
      /\ Made(Last(phase))' = Made(4)'
  BY <1>1, <1>3 DEF EndsAt, Reaches, ComparableBefore, FailsIn, Made, Last
<1>7. EndsAt(4)'
  BY <1>5 DEF EndsAt
<1>8. QED
  BY <1>1, <1>2, <1>4, <1>5, <1>6, <1>7 DEF Deciding

\* An evaluation ends at one place.
LEMMA OneEnd ==
  ASSUME NEW p \in 1..4, NEW q \in 1..4, EndsAt(p), EndsAt(q)
  PROVE  p = q
<1>1. \A x, y \in 1..4 : EndsAt(x) /\ EndsAt(y) => ~(x < y)
  <2>1. SUFFICES ASSUME NEW x \in 1..4, NEW y \in 1..4, EndsAt(x), EndsAt(y), x < y
                 PROVE  FALSE
    OBVIOUS
  <2>2. x \in 1..3 /\ FailsIn(x)
    BY <2>1 DEF EndsAt
  <2>3. ~FailsIn(x)
    BY <2>1, <2>2 DEF EndsAt, Reaches
  <2>4. QED
    BY <2>2, <2>3
<1>2. ~(p < q) /\ ~(q < p)
  BY <1>1
<1>3. QED
  BY <1>2

\* The receipt that is emitted is the one the inputs determine, and the one
\* that was there if one was.
LEMMA VerdictEmitted ==
  ASSUME Typed, Deciding, Emitted, EmitVerdict
  PROVE  Emitted' /\ (receipt # None => receipt' = receipt)
<1>0. PICK p, r : p = phase /\ r = receipt'
  OBVIOUS
<1>1. /\ pc = "verdict" /\ r = Decided(runs, outcomes, p)
      /\ evidenceSet' = evidenceSet /\ index' = index
  BY <1>0 DEF EmitVerdict, Decided, inputs
<1>2. runs = AllRuns /\ EndsAt(p) /\ outcomes = Made(Last(p))
  BY <1>0, <1>1 DEF Deciding, EndsAt, Reaches, ComparableBefore, FailsIn, Made, Last
<1>3. p \in 1..4
  BY <1>0 DEF Typed, TypeOK, Phases
<1>4. r = Decided(AllRuns, Made(Last(p)), p)
  <2>1. PICK read, made : read = AllRuns /\ made = Made(Last(p))
    OBVIOUS
  <2>2. QED
    BY <1>1, <1>2
<1>5. receipt # None => r = receipt
  <2>1. SUFFICES ASSUME receipt # None PROVE r = receipt
    OBVIOUS
  <2>2. PICK x \in 1..4 : EndsAt(x) /\ receipt = Decided(AllRuns, Made(Last(x)), x)
    BY <2>1 DEF Emitted
  <2>3. x = p
    BY <1>2, <1>3, <2>2, OneEnd
  <2>4. QED
    BY <1>4, <2>2, <2>3
<1>6. EndsAt(p)' /\ r = Decided(AllRuns, Made(Last(p)), p)'
  BY <1>1, <1>2, <1>4, SameInputs, SameVerdict
<1>7. Emitted'
  BY <1>0, <1>3, <1>6 DEF Emitted
<1>8. QED
  BY <1>0, <1>5, <1>7

-----------------------------------------------------------------------------
(***************************************************************************)
(* Every step.                                                             *)
(***************************************************************************)

\* What Repeats says of one step.
Repeats ==
  /\ evidenceSet # None => evidenceSet' = evidenceSet
  /\ receipt # None => receipt' = receipt

\* A step that leaves the plan and the ledger leaves what relates them.
LEMMA LedgerKept ==
  ASSUME Ledgered, plan' = plan, evidenceSet' = evidenceSet
  PROVE  Ledgered'
<1>1. Accounted' <=> Accounted
  BY DEF Accounted
<1>2. Ordered(plan)' = Ordered(plan) /\ Len(plan.attempts)' = Len(plan.attempts)
  OBVIOUS
<1>3. /\ Gathered(Len(plan.attempts))' = Gathered(Len(plan.attempts))
      /\ \A facts : LedgerOf(facts)' = LedgerOf(facts)
  BY <1>2 DEF Gathered, LedgerOf, StatusOf
<1>4. QED
  BY <1>1, <1>3 DEF Ledgered

\* A step that leaves what a verdict depends on leaves what its receipt says.
LEMMA VerdictKept ==
  ASSUME Emitted, receipt' = receipt, receipt # None => SameRecords
  PROVE  Emitted'
<1> SUFFICES ASSUME receipt # None
             PROVE  Emitted'
  BY DEF Emitted
<1>1. PICK p \in 1..4 : EndsAt(p) /\ receipt = Decided(AllRuns, Made(Last(p)), p)
  BY DEF Emitted
<1>2. EndsAt(p)' /\ receipt = Decided(AllRuns, Made(Last(p)), p)'
  BY <1>1, SameVerdict
<1>3. QED
  BY <1>2 DEF Emitted

\* A receipt was emitted for an evidence set and authorities that hold.
LEMMA EmittedHolds ==
  ASSUME Emitted, receipt # None
  PROVE  Authorized
<1>1. PICK p \in 1..4 : EndsAt(p)
  BY DEF Emitted
<1>2. QED
  BY <1>1 DEF EndsAt, Reaches

\* Away from a command, only what relates the records is to be kept.
LEMMA AtRest ==
  ASSUME pc' = "idle"
  PROVE  Apart' /\ Gathering' /\ Loading' /\ Deciding'
BY DEF Apart, Gathering, Loading, Deciding

\* The inputs keep their types when they are kept.
LEMMA InputsKept ==
  ASSUME Typed, plan' = plan, evidenceSet' = evidenceSet, index' = index
  PROVE  /\ plan' # None => PlanTyped(plan)'
         /\ evidenceSet' # None => IsList(evidenceSet.attempts)'
         /\ IndexTyped'
         /\ plan' # None \/ evidenceSet' # None
<1>1. plan' # None => PlanTyped(plan)'
  BY DEF Typed, PlanTyped
<1>2. evidenceSet' # None => IsList(evidenceSet.attempts)'
  BY DEF Typed, IsList
<1>3. IndexTyped'
  BY DEF Typed, IndexTyped
<1>4. plan' # None \/ evidenceSet' # None
  BY DEF Typed, TypeOK
<1>5. QED
  BY <1>1, <1>2, <1>3, <1>4

\* A command that is refused leaves the records as they were.
LEMMA RefusedStep ==
  ASSUME IInv, Refuse
  PROVE  IInv' /\ Repeats
<1>1. /\ plan' = plan /\ evidenceSet' = evidenceSet /\ index' = index /\ intact' = intact
      /\ receipt' = receipt
  BY DEF Refuse, inputs
<1>2. /\ pc' = "idle" /\ exit' = 3 /\ cursor' = 1 /\ agreed' = None /\ statuses' = <<>>
      /\ runs' = <<>> /\ phase' = 1 /\ outcomes' = <<>>
  BY DEF Refuse
<1>3. TypeOK'
  <2>1. plan' # None \/ evidenceSet' # None
    BY <1>1, InputsKept DEF IInv
  <2>2. intact' \subseteq Digests
    BY <1>1 DEF IInv, Typed, TypeOK
  <2>3. phase' \in 1..(Len(Phases) + 1)
    BY <1>2 DEF Phases
  <2>4. QED
    BY <1>2, <2>1, <2>2, <2>3 DEF TypeOK
<1>4. Typed'
  BY <1>1, <1>3, InputsKept DEF IInv, Typed
<1>5. Ledgered' /\ Emitted'
  BY <1>1, LedgerKept, VerdictKept, SameInputs DEF IInv
<1>6. QED
  BY <1>1, <1>2, <1>4, <1>5, AtRest DEF IInv, Repeats

\* So does a step that only takes receipts away, or nothing.
LEMMA KeptStep ==
  ASSUME IInv, intact' \subseteq Digests,
         UNCHANGED <<plan, evidenceSet, index, pc, locals, receipt, exit>>
  PROVE  IInv' /\ Repeats
<1>1. /\ plan' = plan /\ evidenceSet' = evidenceSet /\ index' = index
      /\ UNCHANGED <<pc, cursor, agreed, statuses, runs, phase, outcomes, receipt, exit>>
  BY DEF locals
<1>2. TypeOK'
  BY <1>1 DEF IInv, Typed, TypeOK
<1>3. Typed'
  BY <1>1, <1>2, InputsKept DEF IInv, Typed
<1>4. Ledgered' /\ Emitted'
  BY <1>1, LedgerKept, VerdictKept, SameInputs DEF IInv
<1>5. Gathering'
  <2>1. Ordered(plan)' = Ordered(plan) /\ (Accounted' <=> Accounted)
    BY <1>1 DEF Accounted
  <2>2. /\ Gathered(cursor - 1)' = Gathered(cursor - 1)
        /\ [n \in 1..(cursor - 1) |-> StatusOf(Ordered(plan)[n])]'
             = [n \in 1..(cursor - 1) |-> StatusOf(Ordered(plan)[n])]
    BY <1>1, <2>1 DEF Gathered, StatusOf
  <2>3. QED
    BY <1>1, <2>1, <2>2 DEF IInv, Gathering
<1>6. Loading' /\ Deciding'
  <2>1. /\ Authorized => Authorized'
        /\ Eligible' = Eligible /\ AllRuns' = AllRuns
        /\ \A a : Read(a)' <=> Read(a)
        /\ \A a : Run(a)' = Run(a)
        /\ \A q : Made(q)' = Made(q)
        /\ \A p : Reaches(p) => Reaches(p)'
        /\ \A p : EndsAt(p) => EndsAt(p)'
    BY <1>1, SameInputs, SameVerdict
  <2>2. Loading'
    <3>1. [k \in 1..(cursor - 1) |-> Run(Eligible[k])]' = [k \in 1..(cursor - 1) |-> Run(Eligible[k])]
      BY <1>1, <2>1
    <3>2. (\A k \in 1..(cursor - 1) : Read(Eligible[k])) => (\A k \in 1..(cursor - 1) : Read(Eligible[k]))'
      BY <1>1, <2>1
    <3>3. QED
      BY <1>1, <2>1, <3>1, <3>2 DEF IInv, Loading
  <2>3. Deciding'
    <3>1. /\ Made(phase)' = Made(phase) /\ Made(Last(phase))' = Made(Last(phase))
          /\ Reaches(phase) => Reaches(phase)'
          /\ EndsAt(phase) => EndsAt(phase)'
      BY <1>1, <2>1 DEF Last
    <3>2. QED
      BY <1>1, <2>1, <3>1 DEF IInv, Deciding
  <2>4. QED
    BY <2>2, <2>3
<1>7. Apart'
  BY <1>1 DEF IInv, Apart
<1>8. QED
  BY <1>1, <1>3, <1>4, <1>5, <1>6, <1>7 DEF IInv, Repeats

\* Every step of an assembly keeps the invariant and the records.
LEMMA AssembleStep ==
  ASSUME IInv, Assemble
  PROVE  IInv' /\ Repeats
<1>1. Typed /\ TypeOK /\ Apart /\ Gathering /\ Ledgered /\ Emitted
  BY DEF IInv, Typed
<1>2. CASE ParsePlan
  <2>1. CASE Refuse
    BY <2>1, RefusedStep
  <2>2. CASE ~Refuse
    <3>1. /\ pc = "idle" /\ pc' = "gather" /\ plan' = plan /\ evidenceSet' = evidenceSet
          /\ index' = index /\ intact' = intact /\ receipt' = receipt /\ exit' = exit
          /\ UNCHANGED <<cursor, agreed, statuses, runs, phase, outcomes>>
      BY <1>2, <2>2 DEF ParsePlan, inputs, locals
    <3>2. TypeOK'
      BY <1>1, <3>1 DEF TypeOK
    <3>3. Typed'
      BY <1>1, <3>1, <3>2, InputsKept DEF Typed
    <3>4. Gathering'
      BY <1>1, <1>2, PlanParsed
    <3>5. Ledgered' /\ Emitted'
      BY <1>1, <3>1, LedgerKept, VerdictKept, SameInputs
    <3>6. Apart' /\ Loading' /\ Deciding'
      BY <1>1, <3>1 DEF Apart, Loading, Deciding, TypeOK
    <3>7. QED
      BY <3>1, <3>3, <3>4, <3>5, <3>6 DEF IInv, Repeats
  <2>3. QED
    BY <2>1, <2>2
<1>3. CASE GatherRefuses
  BY <1>3, RefusedStep DEF GatherRefuses
<1>4. CASE Gather
  <2>1. /\ pc = "gather" /\ pc' = "gather" /\ plan' = plan /\ evidenceSet' = evidenceSet
        /\ index' = index /\ intact' = intact /\ receipt' = receipt /\ exit' = exit
        /\ cursor' = cursor + 1 /\ UNCHANGED <<runs, phase, outcomes>>
    BY <1>4 DEF Gather, inputs
  <2>2. /\ Gathering'
        /\ statuses' \in Seq(Statuses \union {"no_receipt"})
        /\ Len(statuses') = cursor' - 1
    BY <1>1, <1>4, ReceiptGathered
  <2>3. TypeOK'
    BY <1>1, <2>1, <2>2 DEF TypeOK
  <2>4. Typed'
    BY <1>1, <2>1, <2>3, InputsKept DEF Typed
  <2>5. Ledgered' /\ Emitted'
    BY <1>1, <2>1, LedgerKept, VerdictKept, SameInputs
  <2>6. Apart' /\ Loading' /\ Deciding'
    BY <1>1, <2>1 DEF Apart, Loading, Deciding
  <2>7. QED
    BY <2>1, <2>2, <2>4, <2>5, <2>6 DEF IInv, Repeats
<1>5. CASE FinishSet
  <2>1. CASE Refuse
    BY <2>1, RefusedStep
  <2>2. CASE ~Refuse
    <3>1. /\ pc = "gather" /\ pc' = "idle" /\ exit' = 0 /\ cursor' = 1 /\ agreed' = None
          /\ statuses' = <<>> /\ intact' = intact /\ receipt' = receipt
          /\ UNCHANGED <<runs, phase, outcomes>>
      BY <1>5, <2>2 DEF FinishSet
    <3>2. /\ Ledgered' /\ plan' = plan /\ index' = index
          /\ evidenceSet # None => evidenceSet' = evidenceSet
          /\ evidenceSet' # None => IsList(evidenceSet'.attempts)
      BY <1>1, <1>5, SetFinished
    <3>3. plan # None
      BY <1>1, <3>1 DEF Gathering
    <3>4. runs' = <<>> /\ phase' = 1 /\ outcomes' = <<>>
      BY <1>1, <3>1 DEF Apart
    <3>5. TypeOK'
      BY <1>1, <3>1, <3>2, <3>3, <3>4 DEF TypeOK
    <3>6. Typed'
      <4>1. PlanTyped(plan)' /\ IndexTyped'
        BY <1>1, <3>2, <3>3 DEF Typed, PlanTyped, IndexTyped
      <4>2. QED
        BY <3>2, <3>5, <4>1 DEF Typed
    <3>7. Emitted'
      <4>1. receipt # None => SameRecords
        BY <1>1, <3>2, EmittedHolds, SameInputs DEF Authorized
      <4>2. QED
        BY <1>1, <3>1, <4>1, VerdictKept
    <3>8. QED
      BY <3>1, <3>2, <3>6, <3>7, AtRest DEF IInv, Repeats
  <2>3. QED
    BY <2>1, <2>2
<1>6. QED
  BY <1>2, <1>3, <1>4, <1>5 DEF Assemble

\* Every step of an evaluation keeps the invariant and the records.
LEMMA EvaluateStep ==
  ASSUME IInv, Evaluate
  PROVE  IInv' /\ Repeats
<1>1. Typed /\ TypeOK /\ Apart /\ Ledgered /\ Loading /\ Deciding /\ Emitted
  BY DEF IInv, Typed
<1>2. CASE Refuse
  BY <1>2, RefusedStep
<1>3. CASE ~Refuse /\ ~EmitVerdict
  <2>1. /\ plan' = plan /\ evidenceSet' = evidenceSet /\ index' = index /\ intact' = intact
        /\ receipt' = receipt /\ exit' = exit /\ agreed' = agreed /\ statuses' = statuses
        /\ pc' \in {"load", "phase", "verdict"}
        /\ pc \in {"idle", "load", "phase", "verdict"}
    <3>1. CASE Identify
      BY <1>3, <3>1 DEF Identify, inputs, locals
    <3>2. CASE Load
      BY <3>2 DEF Load, inputs
    <3>3. CASE LoadEnds
      BY <3>3 DEF LoadEnds, inputs
    <3>4. CASE EvaluatePhase
      BY <3>4 DEF EvaluatePhase, inputs
    <3>5. CASE PhasesEnd
      BY <3>5 DEF PhasesEnd, inputs, locals
    <3>6. QED
      BY <1>3, <3>1, <3>2, <3>3, <3>4, <3>5 DEF Evaluate, LoadRefuses, PhaseRefuses
  <2>2. Apart' /\ Gathering'
    BY <1>1, <2>1 DEF Apart, TypeOK, Gathering
  <2>3. Ledgered' /\ Emitted'
    BY <1>1, <2>1, LedgerKept, VerdictKept, SameInputs
  <2>4. /\ Loading' /\ Deciding'
        /\ cursor' \in Nat \ {0} /\ phase' \in 1..4 /\ Len(runs') = cursor' - 1
        /\ outcomes' \in Seq(Failed \union {"passed", "not_run"})
    <3>0. Len(Phases) + 1 = 4
      BY DEF Phases
    <3>1. CASE Identify
      <4>1. pc = "idle" /\ pc' = "load" /\ UNCHANGED locals
        BY <1>3, <3>1 DEF Identify
      <4>2. cursor' = 1 /\ runs' = <<>> /\ phase' = 1 /\ outcomes' = <<>>
        BY <1>1, <4>1 DEF TypeOK, locals
      <4>3. Loading'
        BY <1>1, <3>1, InputsIdentified
      <4>4. QED
        BY <4>1, <4>2, <4>3 DEF Deciding
    <3>2. CASE Load
      <4>1. pc = "load" /\ pc' = "load" /\ cursor' = cursor + 1 /\ phase' = phase /\ outcomes' = outcomes
        BY <3>2 DEF Load
      <4>2. Loading' /\ Len(runs') = cursor' - 1
        BY <1>1, <3>2, RunLoaded
      <4>3. QED
        BY <1>1, <3>0, <4>1, <4>2 DEF Deciding, TypeOK
    <3>3. CASE LoadEnds
      <4>1. pc = "load" /\ pc' = "phase" /\ phase' = 1 /\ cursor' = cursor /\ runs' = runs
        BY <3>3 DEF LoadEnds
      <4>2. Deciding' /\ outcomes' \in Seq(Failed \union {"passed", "not_run"})
        BY <1>1, <3>3, RunsLoaded
      <4>3. QED
        BY <1>1, <4>1, <4>2 DEF Loading, TypeOK
    <3>4. CASE EvaluatePhase
      <4>1. pc = "phase" /\ pc' \in {"phase", "verdict"} /\ cursor' = cursor /\ runs' = runs
        BY <3>4 DEF EvaluatePhase
      <4>2. /\ Deciding' /\ phase' \in 1..4
            /\ outcomes' \in Seq(Failed \union {"passed", "not_run"})
        BY <1>1, <3>4, PhaseEvaluated
      <4>3. QED
        BY <1>1, <4>1, <4>2 DEF Loading, TypeOK
    <3>5. CASE PhasesEnd
      <4>1. /\ pc = "phase" /\ pc' = "verdict" /\ cursor' = cursor /\ runs' = runs
            /\ phase' = phase /\ outcomes' = outcomes
        BY <3>5 DEF PhasesEnd, locals
      <4>2. Deciding'
        BY <1>1, <3>5, PhasesEnded
      <4>3. QED
        BY <1>1, <3>0, <4>1, <4>2 DEF Loading, TypeOK
    <3>6. QED
      BY <1>3, <3>1, <3>2, <3>3, <3>4, <3>5 DEF Evaluate, LoadRefuses, PhaseRefuses
  <2>5. TypeOK'
    <3>1. Len(Phases) + 1 = 4
      BY DEF Phases
    <3>2. Len(statuses') = Len(statuses) /\ (plan' # None \/ evidenceSet' # None)
      BY <1>1, <2>1 DEF TypeOK
    <3>3. QED
      BY <1>1, <2>1, <2>4, <3>1, <3>2 DEF TypeOK
  <2>6. Typed'
    BY <1>1, <2>1, <2>5, InputsKept DEF Typed
  <2>7. QED
    BY <2>1, <2>2, <2>3, <2>4, <2>6 DEF IInv, Repeats
<1>4. CASE EmitVerdict
  <2>1. /\ pc = "verdict" /\ pc' = "idle" /\ exit' \in {0, 4} /\ cursor' = 1 /\ runs' = <<>>
        /\ phase' = 1 /\ outcomes' = <<>>
        /\ plan' = plan /\ evidenceSet' = evidenceSet /\ index' = index /\ intact' = intact
        /\ agreed' = agreed /\ statuses' = statuses
    BY <1>4 DEF EmitVerdict, inputs
  <2>2. agreed' = None /\ statuses' = <<>>
    BY <1>1, <2>1 DEF Apart
  <2>3. TypeOK'
    <3>1. phase' \in 1..(Len(Phases) + 1)
      BY <2>1 DEF Phases
    <3>2. QED
      BY <1>1, <2>1, <2>2, <3>1 DEF TypeOK
  <2>4. Typed'
    BY <1>1, <2>1, <2>3, InputsKept DEF Typed
  <2>5. Ledgered'
    BY <1>1, <2>1, LedgerKept
  <2>6. Emitted' /\ (receipt # None => receipt' = receipt)
    BY <1>1, <1>4, VerdictEmitted
  <2>7. QED
    BY <2>1, <2>4, <2>5, <2>6, AtRest DEF IInv, Repeats
<1>5. QED
  BY <1>2, <1>3, <1>4

\* What happens around the commands keeps the invariant and the records.
LEMMA AroundStep ==
  ASSUME IInv, Damage \/ RelistPlan \/ RelistPolicy
  PROVE  IInv' /\ Repeats
<1>1. Typed /\ TypeOK /\ Ledgered /\ Emitted /\ IndexTyped
  BY DEF IInv, Typed
<1>2. CASE Damage
  <2>1. intact' \subseteq Digests
    BY <1>1, <1>2 DEF Damage, TypeOK
  <2>2. UNCHANGED <<plan, evidenceSet, index, pc, locals, receipt, exit>>
    BY <1>2 DEF Damage
  <2>3. QED
    BY <2>1, <2>2, KeptStep
<1>3. CASE RelistPlan
  <2>1. /\ pc = "idle" /\ evidenceSet' = evidenceSet /\ index' = index /\ intact' = intact
        /\ UNCHANGED <<pc, cursor, agreed, statuses, runs, phase, outcomes, receipt, exit>>
    BY <1>3 DEF RelistPlan, locals
  <2>2. plan' # None /\ PlanTyped(plan)'
    BY <1>1, <1>3, PlanRelisted DEF PlanTyped
  <2>3. TypeOK'
    BY <1>1, <2>1, <2>2 DEF TypeOK
  <2>4. Typed'
    BY <1>1, <2>1, <2>2, <2>3 DEF Typed, IndexTyped, IsList
  <2>5. Ledgered' /\ Emitted'
    BY <1>1, <1>3, <2>1, PlanLaidOut, VerdictKept, SameInputs
  <2>6. QED
    BY <2>1, <2>4, <2>5, AtRest DEF IInv, Repeats
<1>4. CASE RelistPolicy
  <2>1. /\ pc = "idle" /\ evidenceSet' = evidenceSet /\ plan' = plan /\ intact' = intact
        /\ UNCHANGED <<pc, cursor, agreed, statuses, runs, phase, outcomes, receipt, exit>>
    BY <1>4 DEF RelistPolicy, locals
  <2>2. IndexTyped'
    BY <1>1, <1>4, PolicyRelisted
  <2>3. TypeOK'
    BY <1>1, <2>1 DEF TypeOK
  <2>4. Typed'
    BY <1>1, <2>1, <2>2, <2>3 DEF Typed, PlanTyped, IsList
  <2>5. Ledgered'
    BY <1>1, <2>1, LedgerKept
  <2>6. Emitted'
    <3>1. receipt # None => SameRecords
      BY <1>1, <1>4, EmittedHolds, SamePolicy DEF Authorized
    <3>2. QED
      BY <1>1, <2>1, <3>1, VerdictKept
  <2>7. QED
    BY <2>1, <2>4, <2>5, <2>6, AtRest DEF IInv, Repeats
<1>5. QED
  BY <1>2, <1>3, <1>4

\* A step, or none, keeps the invariant, and repeats what it writes again.
LEMMA NextInvariant ==
  ASSUME IInv, [Next]_vars
  PROVE  IInv' /\ [Repeats]_vars
<1>1. CASE Assemble
  BY <1>1, AssembleStep
<1>2. CASE Evaluate
  BY <1>2, EvaluateStep
<1>3. CASE Damage \/ RelistPlan \/ RelistPolicy
  BY <1>3, AroundStep
<1>4. CASE UNCHANGED vars
  <2>1. /\ UNCHANGED <<plan, evidenceSet, index, pc, locals, receipt, exit>>
        /\ intact' = intact
    BY <1>4 DEF vars, inputs
  <2>2. intact' \subseteq Digests
    BY <2>1 DEF IInv, Typed, TypeOK
  <2>3. QED
    BY <2>1, <2>2, KeptStep
<1>5. QED
  BY <1>1, <1>2, <1>3, <1>4 DEF Next

-----------------------------------------------------------------------------
(***************************************************************************)
(* The theorems.                                                           *)
(***************************************************************************)

\* The invariant holds, whatever the plans, receipts, ledgers and authorities
\* that the schemas let through.
THEOREM Invariant == Spec => []IInv
<1>1. Init => IInv
  BY InitInvariant
<1>2. IInv /\ [Next]_vars => IInv'
  BY NextInvariant
<1>3. QED
  BY <1>1, <1>2, PTL DEF Spec

\* Type correctness, and no command leaves anything of its own to the next.
THEOREM TypeCorrect == Spec => []TypeOK
<1>1. IInv => TypeOK
  BY DEF IInv, Typed
<1>2. QED
  BY <1>1, Invariant, PTL

\* An assembled ledger accounts for every planned attempt, in whatever order
\* the plan lists them (assembleEvidenceSet).
THEOREM WholeLedger == Spec => []LedgerIsWhole
<1>1. IInv => LedgerIsWhole
  BY LedgersAreWhole DEF IInv
<1>2. QED
  BY <1>1, Invariant, PTL

\* No verdict passes by accident (evaluateEvidenceSet).
THEOREM EarnedPass == Spec => []PassIsEarned
<1>1. IInv => PassIsEarned
  BY PassesAreEarned DEF IInv
<1>2. QED
  BY <1>1, Invariant, PTL

\* No verdict fails without a ground in the raw receipts.
THEOREM GroundedFailure == Spec => []FailureHasGround
<1>1. IInv => FailureHasGround
  BY FailuresHaveGround DEF IInv
<1>2. QED
  BY <1>1, Invariant, PTL

\* A verdict follows the order of the phases and blocks at the first failure.
THEOREM PhasedVerdict == Spec => []VerdictFollowsPhases
<1>1. IInv => VerdictFollowsPhases
  BY VerdictsFollowPhases DEF IInv
<1>2. QED
  BY <1>1, Invariant, PTL

\* A record that is written again is the same record, whatever happened to the
\* layout of the inputs and to the store in between.
THEOREM IdenticalRepeats == Spec => RepeatsAreIdentical
<1>1. IInv /\ [Next]_vars => [Repeats]_vars
  BY NextInvariant
<1>2. QED
  BY <1>1, Invariant, PTL DEF Spec, RepeatsAreIdentical, Repeats
====
