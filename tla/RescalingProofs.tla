---- MODULE RescalingProofs ----
(***************************************************************************)
(* Rescaling, for every safe range, every exponent and every argument: a   *)
(* value that is moved lies where its rounding rule says, and no step of   *)
(* the loops leaves the safe range.                                        *)
(***************************************************************************)
EXTENDS Rescaling, WellFoundedInduction, TLAPS

\* Where a value stands after n digits have been dropped.
Within(n) ==
  /\ rounding = "reject_inexact" => result * Pow[n] = value
  /\ rounding = "toward_negative_infinity" =>
       result * Pow[n] <= value /\ value < (result + 1) * Pow[n]
  /\ rounding = "toward_positive_infinity" =>
       (result - 1) * Pow[n] < value /\ value <= result * Pow[n]

Widening ==
  pc = "widen" =>
    /\ Acceptable
    /\ to <= from => step \in to..from /\ result = value * Pow[step - to]
    /\ to > from => step = to /\ result = value

Narrowing ==
  pc = "narrow" =>
    /\ Acceptable
    /\ to <= from => step = from /\ result = value * Pow[from - to]
    /\ to > from => step \in from..to /\ Within(step - from)

Pending == pc \in {"check", "widen", "narrow"} <=> outcome = "none"

IInv == TypeOK /\ Widening /\ Narrowing /\ Pending /\ ThresholdMovesAsDeclared

USE DEF Exponents, Safe

(***************************************************************************)
(* Powers of ten and rounded division.                                     *)
(***************************************************************************)
\* How far a value can be moved.
Digits == 0..(MaxExponent - MinExponent)

\* The powers are positive numbers.
LEMMA PowerTypes == \A n \in Digits : n \in Nat /\ Pow[n] \in Nat \ {0}
BY ScaleAssumption DEF Digits

\* Each is ten times the one before.
LEMMA NextPower ==
  ASSUME NEW n \in Nat, n + 1 \in Digits
  PROVE  n \in Digits /\ Pow[n + 1] = 10 * Pow[n]
BY ScaleAssumption DEF Digits

\* Induction over the natural numbers, for a set: of the numbers left out, one
\* would be the least.
LEMMA SetInduction ==
  ASSUME NEW S, 0 \in S, \A n \in Nat : n \in S => n + 1 \in S
  PROVE  Nat \subseteq S
<1> DEFINE T == Nat \ S
           R == OpToRel(<, Nat)
<1>1. SUFFICES ASSUME T # {}
               PROVE  FALSE
  OBVIOUS
<1>2. PICK n \in T : \A m \in T : <<m, n>> \notin R
  <2>1. T \subseteq Nat
    OBVIOUS
  <2> HIDE DEF T, R
  <2>2. QED
    BY <1>1, <2>1, NatLessThanWellFounded, WFMin DEF R
<1>3. n # 0 /\ n - 1 \in T
  OBVIOUS
<1>4. <<n - 1, n>> \in R
  BY <1>3 DEF OpToRel
<1> HIDE DEF T, R
<1>5. QED
  BY <1>2, <1>3, <1>4

\* A power of ten is at least any that comes before it.
LEMMA PowersGrow ==
  ASSUME NEW m \in Digits, NEW n \in Digits, m <= n
  PROVE  Pow[m] <= Pow[n]
<1> DEFINE S == {k \in Nat : m + k \in Digits => Pow[m] <= Pow[m + k]}
<1>1. m \in Nat /\ Pow[m] \in Nat
  BY PowerTypes
<1>2. 0 \in S
  BY <1>1
<1>3. ASSUME NEW k \in Nat, k \in S, m + (k + 1) \in Digits
      PROVE  Pow[m] <= Pow[m + (k + 1)]
  <2>1. m + k \in Nat /\ (m + k) + 1 = m + (k + 1)
    BY <1>1
  <2>2. m + k \in Digits /\ Pow[m + (k + 1)] = 10 * Pow[m + k]
    BY <1>3, <2>1, NextPower
  <2>3. Pow[m + k] \in Nat /\ Pow[m] <= Pow[m + k]
    BY <1>3, <2>2, PowerTypes
  <2>4. QED
    BY <1>1, <2>2, <2>3
<1>4. \A k \in Nat : k \in S => k + 1 \in S
  BY <1>3
<1>5. Nat \subseteq S
  <2> HIDE DEF S
  <2>1. QED
    BY <1>2, <1>4, SetInduction
<1>6. n - m \in Nat /\ m + (n - m) = n
  BY <1>1, PowerTypes
<1>7. QED
  BY <1>5, <1>6

\* Moving by m digits and then by n is moving by their sum.
LEMMA PowersMultiply ==
  ASSUME NEW m \in Digits, NEW n \in Nat, m + n \in Digits
  PROVE  n \in Digits /\ Pow[m + n] = Pow[m] * Pow[n]
<1> DEFINE S == {k \in Nat : m + k \in Digits => k \in Digits /\ Pow[m + k] = Pow[m] * Pow[k]}
<1>1. m \in Nat /\ Pow[m] \in Nat
  BY PowerTypes
<1>2. 0 \in S
  <2>1. 0 \in Digits /\ Pow[0] = 1
    BY ScaleAssumption DEF Digits
  <2>2. m + 0 = m /\ Pow[m] = Pow[m] * 1
    BY <1>1
  <2>3. QED
    BY <2>1, <2>2
<1>3. ASSUME NEW k \in Nat, k \in S, m + (k + 1) \in Digits
      PROVE  k + 1 \in Digits /\ Pow[m + (k + 1)] = Pow[m] * Pow[k + 1]
  <2>1. m + k \in Nat /\ (m + k) + 1 = m + (k + 1)
    BY <1>1
  <2>2. m + k \in Digits /\ Pow[m + (k + 1)] = 10 * Pow[m + k]
    BY <1>3, <2>1, NextPower
  <2>3. k \in Digits /\ Pow[m + k] = Pow[m] * Pow[k]
    BY <1>3, <2>2
  <2>4. k + 1 \in Digits
    BY <1>1, <1>3, ScaleAssumption DEF Digits
  <2>5. Pow[k + 1] = 10 * Pow[k] /\ Pow[k] \in Nat
    BY <2>3, <2>4, NextPower, PowerTypes
  <2>6. 10 * (Pow[m] * Pow[k]) = Pow[m] * (10 * Pow[k])
    BY <1>1, <2>5
  <2>7. QED
    BY <2>2, <2>3, <2>4, <2>5, <2>6
<1>4. \A k \in Nat : k \in S => k + 1 \in S
  BY <1>3
<1>5. Nat \subseteq S
  <2> HIDE DEF S
  <2>1. QED
    BY <1>2, <1>4, SetInduction
<1>6. QED
  BY <1>5

\* A floor and its remainder make the value up.
LEMMA Floor ==
  ASSUME NEW v \in Int, NEW p \in Nat \ {0}
  PROVE  /\ v \div p \in Int /\ v % p \in 0..(p - 1)
         /\ v = p * (v \div p) + (v % p)
OBVIOUS

\* Whatever lies as close below a value as its floor does is its floor.
LEMMA FloorUnique ==
  ASSUME NEW v \in Int, NEW p \in Nat \ {0}, NEW r \in Int,
         r * p <= v, v < (r + 1) * p
  PROVE  r = v \div p
BY Floor

(***************************************************************************)
(* Arithmetic.                                                             *)
(***************************************************************************)
LEMMA Product == \A a, b \in Int, p \in Nat : a <= b => a * p <= b * p
  OBVIOUS

\* Powers in the range grow tenfold.
LEMMA Tenfold ==
  ASSUME NEW n \in Nat, n < MaxExponent - MinExponent
  PROVE  Pow[n] \in Nat \ {0} /\ Pow[n + 1] \in Nat \ {0} /\ Pow[n + 1] = 10 * Pow[n]
  <1>1. n \in 0..(MaxExponent - MinExponent - 1)
    BY ScaleAssumption
  <1>2. n \in 0..(MaxExponent - MinExponent) /\ n + 1 \in 0..(MaxExponent - MinExponent)
    BY ScaleAssumption
  <1> QED
    BY <1>1, <1>2, ScaleAssumption

\* One digit of C++ division, by remainder.
LEMMA Digit ==
  ASSUME NEW r \in Int
  PROVE  /\ Quotient(r) \in Int /\ Remainder(r) \in Int
         /\ r = 10 * Quotient(r) + Remainder(r)
         /\ -9 <= Remainder(r) /\ Remainder(r) <= 9
  BY DEF Quotient, Remainder

\* What one step of the narrowing loop makes of a value.
LEMMA RoundedDigit ==
  ASSUME result \in Int, rounding \in Roundings
  PROVE  /\ Narrowed \in Int
         /\ Remainder(result) = 0 => 10 * Narrowed = result
         /\ rounding = "toward_negative_infinity" =>
              10 * Narrowed <= result /\ result <= 10 * Narrowed + 9
         /\ rounding = "toward_positive_infinity" =>
              10 * Narrowed - 9 <= result /\ result <= 10 * Narrowed
         /\ result >= 0 => 0 <= Narrowed /\ Narrowed <= result
         /\ result <= 0 => result <= Narrowed /\ Narrowed <= 0
  <1> DEFINE d == Quotient(result)
             m == Remainder(result)
             c == Correction
  <1>1. d \in Int /\ m \in Int /\ result = 10 * d + m /\ -9 <= m /\ m <= 9
    BY Digit
  <1>2. /\ c \in {-1, 0, 1}
        /\ m = 0 => c = 0
        /\ rounding = "reject_inexact" => c = 0
        /\ rounding = "toward_negative_infinity" => c = IF m < 0 THEN -1 ELSE 0
        /\ rounding = "toward_positive_infinity" => c = IF m > 0 THEN 1 ELSE 0
    BY <1>1 DEF Correction, Roundings
  <1> HIDE DEF d, m, c
  <1>3. /\ d + c \in Int
        /\ m = 0 => 10 * (d + c) = result
        /\ rounding = "toward_negative_infinity" =>
             10 * (d + c) <= result /\ result <= 10 * (d + c) + 9
        /\ rounding = "toward_positive_infinity" =>
             10 * (d + c) - 9 <= result /\ result <= 10 * (d + c)
        /\ result >= 0 => 0 <= d + c /\ d + c <= result
        /\ result <= 0 => result <= d + c /\ d + c <= 0
    BY <1>1, <1>2 DEF Roundings
  <1>4. Narrowed = d + c /\ Remainder(result) = m
    BY DEF Narrowed, d, m, c
  <1> QED
    BY <1>3, <1>4

(***************************************************************************)
(* The invariant.                                                          *)
(***************************************************************************)
LEMMA InvInit == Init => IInv
  BY RescalingAssumption, ScaleAssumption
     DEF Init, IInv, TypeOK, Widening, Narrowing, Pending, ThresholdMovesAsDeclared, Outcomes

\* A step of widening keeps the invariant.
LEMMA WidenStep == IInv /\ Widen => IInv'
  <1> SUFFICES ASSUME IInv, Widen PROVE IInv'
    OBVIOUS
  <1> DEFINE n == step - to
  <1>1. /\ from \in Exponents /\ to \in Exponents /\ value \in Int
        /\ to <= from /\ step \in to..from /\ step < from /\ result = value * Pow[n]
    BY ScaleAssumption DEF IInv, TypeOK, Widening, Widen, Acceptable
  <1>2. Pow[n] \in Nat /\ Pow[n + 1] = 10 * Pow[n]
    BY <1>1, Tenfold, ScaleAssumption
  <1>3. result * 10 = value * Pow[n + 1]
    BY <1>1, <1>2
  <1>4. step + 1 - to = n + 1
    BY <1>1, ScaleAssumption
  <1>5. (step' \in to..from) /\ result' = value * Pow[step' - to]
    BY <1>1, <1>3, <1>4, ScaleAssumption DEF Widen
  <1>6. result' \in Safe
    BY ScaleAssumption DEF IInv, TypeOK, Widen, RoomForDigit
  <1>9. TypeOK'
    BY <1>1, <1>5, <1>6, ScaleAssumption DEF IInv, TypeOK, Widen, arguments
  <1>7. Widening'
    BY <1>1, <1>5, ScaleAssumption DEF IInv, TypeOK, Widening, Widen, arguments, Acceptable
  <1>8. Narrowing' /\ Pending' /\ ThresholdMovesAsDeclared'
    BY DEF IInv, Pending, Narrowing, ThresholdMovesAsDeclared, Widen, arguments
  <1> QED
    BY <1>7, <1>8, <1>9 DEF IInv

\* A step of narrowing keeps the invariant.
LEMMA NarrowStep == IInv /\ Narrow => IInv'
  <1> SUFFICES ASSUME IInv, Narrow PROVE IInv'
    OBVIOUS
  <1> DEFINE n == step - from
             p == Pow[n]
             r == result
             q == Narrowed
  <1>1. /\ from \in Exponents /\ to \in Exponents /\ value \in Int /\ r \in Int
        /\ rounding \in Roundings
        /\ to > from /\ step \in from..to /\ step < to /\ Within(n)
    BY ScaleAssumption DEF IInv, TypeOK, Narrowing, Narrow, Acceptable
  <1>2. p \in Nat \ {0} /\ Pow[n + 1] = 10 * p
    BY <1>1, Tenfold, ScaleAssumption
  <1>3. /\ q \in Int
        /\ rounding = "reject_inexact" => 10 * q = r
        /\ rounding = "toward_negative_infinity" => 10 * q <= r /\ r <= 10 * q + 9
        /\ rounding = "toward_positive_infinity" => 10 * q - 9 <= r /\ r <= 10 * q
    BY <1>1, RoundedDigit DEF Narrow
  <1>0. q \in Safe
    BY <1>1, RoundedDigit, ScaleAssumption DEF IInv, TypeOK
  <1>4. /\ rounding = "reject_inexact" => r * p = value
        /\ rounding = "toward_negative_infinity" => r * p <= value /\ value < (r + 1) * p
        /\ rounding = "toward_positive_infinity" => (r - 1) * p < value /\ value <= r * p
    BY <1>1 DEF Within
  <1>5. result' = q /\ step' - from = n + 1 /\ (step' \in from..to)
    BY <1>1, ScaleAssumption DEF Narrow
  <1> HIDE DEF n, p, r, q
  <1>6. rounding = "reject_inexact" => q * (10 * p) = value
    BY <1>1, <1>2, <1>3, <1>4
  <1>7. ASSUME rounding = "toward_negative_infinity"
        PROVE  q * (10 * p) <= value /\ value < (q + 1) * (10 * p)
    <2>1. (10 * q) * p <= r * p /\ (r + 1) * p <= (10 * q + 10) * p
      BY <1>1, <1>2, <1>3, <1>7, Product
    <2>2. q * (10 * p) = (10 * q) * p /\ (q + 1) * (10 * p) = (10 * q + 10) * p
      BY <1>2, <1>3
    <2> QED
      BY <1>1, <1>2, <1>3, <1>4, <1>7, <2>1, <2>2
  <1>8. ASSUME rounding = "toward_positive_infinity"
        PROVE  (q - 1) * (10 * p) < value /\ value <= q * (10 * p)
    <2>1. (10 * q - 10) * p <= (r - 1) * p /\ r * p <= (10 * q) * p
      BY <1>1, <1>2, <1>3, <1>8, Product
    <2>2. q * (10 * p) = (10 * q) * p /\ (q - 1) * (10 * p) = (10 * q - 10) * p
      BY <1>2, <1>3
    <2> QED
      BY <1>1, <1>2, <1>3, <1>4, <1>8, <2>1, <2>2
  <1>9. UNCHANGED <<arguments, pc, outcome>>
    BY DEF Narrow
  <1>10. Within(step - from)'
    BY <1>2, <1>5, <1>6, <1>7, <1>8, <1>9 DEF Within, arguments
  <1>11. TypeOK'
    BY <1>0, <1>1, <1>3, <1>5, <1>9, ScaleAssumption DEF IInv, TypeOK, arguments
  <1>12. Narrowing'
    BY <1>1, <1>5, <1>9, <1>10 DEF IInv, Narrowing, Narrow, arguments, Acceptable
  <1>13. Widening' /\ Pending' /\ ThresholdMovesAsDeclared'
    BY <1>9 DEF IInv, Widening, Pending, ThresholdMovesAsDeclared, Narrow, arguments
  <1> QED
    BY <1>11, <1>12, <1>13 DEF IInv

\* An accepted request begins with the value itself.
LEMMA CheckStep == IInv /\ CheckAccepts => IInv'
  <1> SUFFICES ASSUME IInv, CheckAccepts PROVE IInv'
    OBVIOUS
  <1>1. from \in Exponents /\ to \in Exponents /\ value \in Int
    BY DEF IInv, TypeOK, CheckAccepts, Acceptable
  <1>2. to <= from => (step' \in to..from) /\ result' = value * Pow[step' - to]
    BY <1>1, ScaleAssumption DEF CheckAccepts
  <1>3. Widening'
    BY <1>1, <1>2 DEF Widening, CheckAccepts, arguments, Acceptable
  <1>4. TypeOK'
    BY <1>1, ScaleAssumption DEF IInv, TypeOK, CheckAccepts, arguments, Acceptable
  <1> QED
    BY <1>1, <1>3, <1>4, ScaleAssumption
       DEF IInv, Narrowing, Pending, ThresholdMovesAsDeclared, CheckAccepts, arguments

\* The end of widening keeps the invariant.
LEMMA WidenEndsStep == IInv /\ WidenEnds => IInv'
  <1> SUFFICES ASSUME IInv, WidenEnds PROVE IInv'
    OBVIOUS
  <1>1. /\ from \in Exponents /\ to \in Exponents /\ value \in Int
        /\ Acceptable /\ rounding \in Roundings /\ step >= from
        /\ to <= from => step \in to..from /\ result = value * Pow[step - to]
        /\ to > from => step = to /\ result = value
    BY DEF IInv, TypeOK, Widening, WidenEnds, Acceptable
  <1>2. ASSUME to <= from PROVE result = value * Pow[from - to]
    <2>1. from \in Int /\ to \in Int /\ step \in to..from /\ step >= from
      BY <1>1, <1>2, ScaleAssumption
    <2>2. step = from
      BY <2>1
    <2> QED
      BY <1>1, <1>2, <2>2
  <1>3. to > from => (step' \in from..to) /\ Within(step - from)'
    BY <1>1, ScaleAssumption DEF Within, WidenEnds, arguments, Roundings
  <1>4. Narrowing'
    BY <1>1, <1>2, <1>3 DEF Narrowing, WidenEnds, arguments, Acceptable
  <1> QED
    BY <1>1, <1>4, ScaleAssumption
       DEF IInv, TypeOK, Widening, Pending, ThresholdMovesAsDeclared, WidenEnds, arguments

\* The end of narrowing keeps the invariant.
LEMMA NarrowEndsStep == IInv /\ NarrowEnds => IInv'
  <1> SUFFICES ASSUME IInv, NarrowEnds PROVE IInv'
    OBVIOUS
  <1>1. /\ from \in Int /\ to \in Int /\ step \in Int /\ rounding \in Roundings /\ step >= to
        /\ to <= from => result = value * Pow[from - to]
        /\ to > from => step \in from..to /\ Within(step - from)
    BY ScaleAssumption DEF IInv, TypeOK, Narrowing, NarrowEnds, Acceptable
  <1>2. to > from => Within(to - from)
    BY <1>1
  <1>3. ThresholdMovesAsDeclared'
    BY <1>1, <1>2 DEF ThresholdMovesAsDeclared, Within, NarrowEnds, Return, arguments, Roundings
  <1> QED
    BY <1>3 DEF IInv, TypeOK, Widening, Narrowing, Pending, NarrowEnds, Return, arguments, Outcomes

\* A refusal keeps the invariant.
LEMMA RefusalStep == IInv /\ (CheckRefuses \/ WidenRefuses \/ NarrowRefuses) => IInv'
  BY DEF IInv, TypeOK, Widening, Narrowing, Pending, ThresholdMovesAsDeclared,
         CheckRefuses, WidenRefuses, NarrowRefuses, Return, arguments, Outcomes

\* Every step keeps the invariant.
LEMMA InvStep == IInv /\ [Next]_vars => IInv'
  <1> SUFFICES ASSUME IInv, [Next]_vars PROVE IInv'
    OBVIOUS
  <1>1. CASE CheckRefuses \/ WidenRefuses \/ NarrowRefuses
    BY <1>1, RefusalStep
  <1>2. CASE CheckAccepts
    BY <1>2, CheckStep
  <1>3. CASE Widen
    BY <1>3, WidenStep
  <1>4. CASE WidenEnds
    BY <1>4, WidenEndsStep
  <1>5. CASE Narrow
    BY <1>5, NarrowStep
  <1>6. CASE NarrowEnds
    BY <1>6, NarrowEndsStep
  <1>7. CASE UNCHANGED vars
    BY <1>7 DEF IInv, TypeOK, Widening, Narrowing, Within, Acceptable, Pending,
               ThresholdMovesAsDeclared, vars, arguments
  <1> QED
    BY <1>1, <1>2, <1>3, <1>4, <1>5, <1>6, <1>7 DEF Next

\* The invariant holds of every reachable state.
LEMMA Invariant == Spec => []IInv
  BY InvInit, InvStep, PTL DEF Spec

(***************************************************************************)
(* The theorems.                                                           *)
(***************************************************************************)
\* The variables of rescaleExact keep their types at every step.
THEOREM TypeCorrect == Spec => []TypeOK
  <1>1. IInv => TypeOK
    BY DEF IInv
  <1> QED
    BY Invariant, <1>1, PTL

\* A value that rescaleExact moves lies on the side of the original that its
\* rounding rule names, less than one unit of the new scale away, for every
\* value and every two exponents.
THEOREM ThresholdIsKept == Spec => []ThresholdMovesAsDeclared
  <1>1. IInv => ThresholdMovesAsDeclared
    BY DEF IInv
  <1> QED
    BY Invariant, <1>1, PTL

-----------------------------------------------------------------------------
(***************************************************************************)
(* Refusals: the loops give up exactly when one move is not to be had.     *)
(* Once a product would be too large, every later one would be; once a     *)
(* digit would be lost, the whole division does not come out even.         *)
(***************************************************************************)
Grounds ==
  /\ outcome = "moved" => Acceptable
  /\ outcome = "exceeded" => ~Acceptable \/ (to <= from /\ value * Pow[from - to] \notin Safe)
  /\ outcome = "inexact" =>
       /\ Acceptable /\ to > from /\ rounding = "reject_inexact"
       /\ value % Pow[to - from] # 0

\* A product of numbers with one factor larger is further from zero.
LEMMA FurtherOut ==
  ASSUME NEW v \in Int, NEW p \in Nat, NEW q \in Nat, p <= q, MaxSafe \in Nat,
         v * p \notin Safe
  PROVE  v * q \notin Safe
<1>1. CASE v >= 0
  <2>1. v * p <= v * q /\ v * p >= 0
    BY <1>1
  <2>2. v * p \in Int /\ v * q \in Int
    OBVIOUS
  <2>3. QED
    BY <2>1, <2>2
<1>2. CASE v < 0
  <2>1. v * q <= v * p /\ v * p <= 0
    BY <1>2
  <2>2. v * p \in Int /\ v * q \in Int
    OBVIOUS
  <2>3. QED
    BY <2>1, <2>2
<1>3. QED
  BY <1>1, <1>2

\* Ten times a value that has no room left is out of range.
LEMMA NoRoom ==
  ASSUME NEW r \in Int, MaxSafe \in Nat, r \notin -(MaxSafe \div 10)..(MaxSafe \div 10)
  PROVE  10 * r \notin Safe
OBVIOUS

\* Widening refuses only what would not fit in one move either.
LEMMA WidenRefusal ==
  ASSUME IInv, WidenRefuses
  PROVE  to <= from /\ value * Pow[from - to] \notin Safe
<1>1. /\ from \in Exponents /\ to \in Exponents /\ value \in Int /\ result \in Int
      /\ to <= from /\ step \in to..from /\ step < from /\ result = value * Pow[step - to]
  BY ScaleAssumption DEF IInv, TypeOK, Widening, WidenRefuses, Acceptable
<1>2. /\ (step - to) \in Nat /\ (step - to) + 1 \in Digits /\ from - to \in Digits
      /\ (step - to) + 1 <= from - to
  BY <1>1, ScaleAssumption DEF Digits
<1> DEFINE n == step - to
<1>3. /\ n \in Digits /\ Pow[n + 1] = 10 * Pow[n]
      /\ Pow[n] \in Nat /\ Pow[n + 1] \in Nat /\ Pow[from - to] \in Nat
  BY <1>2, NextPower, PowerTypes
<1>4. Pow[n + 1] <= Pow[from - to]
  BY <1>2, PowersGrow
<1>5. 10 * result \notin Safe
  BY <1>1, NoRoom, ScaleAssumption DEF WidenRefuses, RoomForDigit
<1>6. 10 * result = value * Pow[n + 1]
  BY <1>1, <1>3
<1> HIDE DEF n
<1>7. value * Pow[n + 1] \notin Safe
  BY <1>5, <1>6
<1>8. value * Pow[from - to] \notin Safe
  BY <1>1, <1>3, <1>4, <1>7, FurtherOut, ScaleAssumption
<1> QED
  BY <1>1, <1>8

\* A number that a power divides evenly still has no remainder after any of the
\* digits before.
LEMMA EvenDigits ==
  ASSUME NEW r \in Int, NEW p \in Nat \ {0}, NEW k \in Nat, NEW c \in Int,
         r * p = (p * (10 * k)) * c
  PROVE  Remainder(r) = 0
<1>1. k * c \in Int /\ 10 * (k * c) \in Int
  OBVIOUS
<1>2. (p * (10 * k)) * c = (10 * (k * c)) * p
  OBVIOUS
<1>3. r * p = (10 * (k * c)) * p
  BY <1>2
<1> DEFINE s == 10 * (k * c)
<1>4. r = s
  <2> HIDE DEF s
  <2>1. s \in Int /\ r * p = s * p
    BY <1>1, <1>3 DEF s
  <2>2. (r - s) * p = 0
    BY <2>1
  <2> QED
    BY <2>1, <2>2
<1> DEFINE d == k * c
<1>5. d \in Int /\ r = 10 * d
  BY <1>1, <1>4
<1> HIDE DEF d, s
<1> QED
  BY <1>5 DEF Remainder, Quotient

\* Narrowing refuses only what would lose digits it was told to keep.
LEMMA NarrowRefusal ==
  ASSUME IInv, NarrowRefuses
  PROVE  /\ Acceptable /\ to > from /\ rounding = "reject_inexact"
         /\ value % Pow[to - from] # 0
<1>1. /\ Acceptable /\ from \in Exponents /\ to \in Exponents /\ value \in Int /\ result \in Int
      /\ to > from /\ step \in from..to /\ step < to /\ rounding = "reject_inexact"
      /\ result * Pow[step - from] = value /\ Remainder(result) # 0
  BY ScaleAssumption DEF IInv, TypeOK, Narrowing, Within, NarrowRefuses, Acceptable
<1> DEFINE n == step - from
           k == to - (step + 1)
<1>2. /\ n \in Nat /\ k \in Nat /\ n + 1 \in Digits /\ to - from \in Digits
      /\ (n + 1) + k = to - from
  BY <1>1, ScaleAssumption DEF Digits
<1>3. n \in Digits /\ Pow[n + 1] = 10 * Pow[n] /\ Pow[n] \in Nat \ {0}
  BY <1>2, NextPower, PowerTypes
<1>4. k \in Digits /\ Pow[to - from] = Pow[n + 1] * Pow[k] /\ Pow[k] \in Nat
  BY <1>2, PowersMultiply, PowerTypes
<1>5. Pow[to - from] \in Nat \ {0}
  BY <1>2, PowerTypes
<1> HIDE DEF n, k
<1>6. ASSUME value % Pow[to - from] = 0
      PROVE  FALSE
  <2> DEFINE c == value \div Pow[to - from]
             p == Pow[n]
             q == Pow[k]
  <2>1. c \in Int /\ value = Pow[to - from] * c
    <3>1. /\ c \in Int
          /\ value = Pow[to - from] * c + (value % Pow[to - from])
      BY <1>1, <1>5, Floor
    <3>2. Pow[to - from] * c \in Int
      BY <1>5, <3>1
    <3> QED
      BY <1>6, <3>1, <3>2
  <2>2. p \in Nat \ {0} /\ q \in Nat /\ Pow[to - from] = (10 * p) * q
    BY <1>3, <1>4
  <2>3. result * p = value
    BY <1>1 DEF n
  <2> HIDE DEF c, p, q
  <2>4. (10 * p) * q = p * (10 * q)
    BY <2>2
  <2>5. result * p = (p * (10 * q)) * c
    BY <2>1, <2>2, <2>3, <2>4
  <2> QED
    BY <1>1, <2>1, <2>2, <2>5, EvenDigits
<1> QED
  BY <1>1, <1>6

\* Every step keeps a ground for each refusal.
LEMMA GroundsStep == IInv /\ IInv' /\ Grounds /\ [Next]_vars => Grounds'
<1> SUFFICES ASSUME IInv, IInv', Grounds, [Next]_vars PROVE Grounds'
  OBVIOUS
<1>1. CASE UNCHANGED <<arguments, outcome>>
  BY <1>1 DEF Grounds, Acceptable, arguments
<1>2. CASE CheckRefuses
  BY <1>2 DEF CheckRefuses, Return, Grounds, Acceptable, arguments
<1>3. CASE WidenRefuses
  BY <1>3, WidenRefusal DEF WidenRefuses, Return, Grounds, arguments
<1>4. CASE NarrowRefuses
  BY <1>4, NarrowRefusal DEF NarrowRefuses, Return, Grounds, Acceptable, arguments
<1>5. CASE NarrowEnds
  BY <1>5 DEF NarrowEnds, Return, Grounds, Acceptable, IInv, Narrowing, arguments
<1> QED
  BY <1>1, <1>2, <1>3, <1>4, <1>5
     DEF Next, CheckAccepts, Widen, WidenEnds, Narrow, vars, arguments

\* Where a value ends that is moved to a coarser scale: at the rounded quotient.
LEMMA Quotients ==
  ASSUME NEW v \in Int, NEW p \in Nat \ {0}, NEW r \in Int
  PROVE  /\ r * p = v => v \div p = r /\ v % p = 0
         /\ r * p <= v /\ v < (r + 1) * p => v \div p = r
         /\ (r - 1) * p < v /\ v <= r * p => -((-v) \div p) = r
<1>1. r * p = v => v \div p = r /\ v % p = 0
  <2> SUFFICES ASSUME r * p = v PROVE v \div p = r /\ v % p = 0
    OBVIOUS
  <2>1. (r + 1) * p = r * p + p /\ r * p \in Int
    OBVIOUS
  <2>2. v \div p = r
    BY <2>1, FloorUnique
  <2> QED
    BY <2>2, Floor
<1>2. r * p <= v /\ v < (r + 1) * p => v \div p = r
  BY FloorUnique
<1>3. (r - 1) * p < v /\ v <= r * p => -((-v) \div p) = r
  <2> SUFFICES ASSUME (r - 1) * p < v, v <= r * p PROVE -((-v) \div p) = r
    OBVIOUS
  <2>1. (-r) * p = -(r * p) /\ ((-r) + 1) * p = -((r - 1) * p) /\ -v \in Int /\ -r \in Int
    OBVIOUS
  <2>2. r * p \in Int /\ (r - 1) * p \in Int
    OBVIOUS
  <2>3. (-r) * p <= -v /\ -v < ((-r) + 1) * p
    BY <2>1, <2>2
  <2>4. (-v) \div p = -r
    BY <2>1, <2>3, FloorUnique
  <2> QED
    BY <2>4
<1> QED
  BY <1>1, <1>2, <1>3

\* A value that was moved is where one move would have put it.
LEMMA MovedAsOne ==
  ASSUME IInv, Grounds, outcome = "moved"
  PROVE  /\ Movable(value, from, to, rounding)
         /\ result = Rescaled(value, from, to, rounding)
<1>1. /\ from \in Exponents /\ to \in Exponents /\ value \in Safe /\ value \in Int
      /\ result \in Safe /\ result \in Int /\ rounding \in Roundings
  BY DEF Grounds, Acceptable, IInv, TypeOK
<1>2. CASE to <= from
  BY <1>1, <1>2, ScaleAssumption
     DEF IInv, ThresholdMovesAsDeclared, Movable, Rescaled
<1>3. CASE to > from
  <2> DEFINE p == Pow[to - from]
  <2>1. to - from \in Digits
    BY <1>1, <1>3, ScaleAssumption DEF Digits
  <2>2. p \in Nat \ {0}
    BY <2>1, PowerTypes
  <2>3. /\ rounding = "reject_inexact" => result * p = value
        /\ rounding = "toward_negative_infinity" =>
             result * p <= value /\ value < (result + 1) * p
        /\ rounding = "toward_positive_infinity" =>
             (result - 1) * p < value /\ value <= result * p
    BY <1>3 DEF IInv, ThresholdMovesAsDeclared
  <2>4. ~(to <= from)
    BY <1>1, <1>3, ScaleAssumption
  <2> HIDE DEF p
  <2>5. /\ rounding = "reject_inexact" => value \div p = result /\ value % p = 0
        /\ rounding = "toward_negative_infinity" => value \div p = result
        /\ rounding = "toward_positive_infinity" => -((-value) \div p) = result
    BY <1>1, <2>2, <2>3, Quotients
  <2> QED
    BY <1>1, <2>4, <2>5 DEF Movable, Rescaled, Roundings, p
<1> QED
  BY <1>1, <1>2, <1>3, ScaleAssumption

\* Rescaling digit by digit is one multiplication or one rounded division, and is
\* refused exactly when that leaves the safe range or does not come out even: for
\* every value, every two exponents and every rule.
THEOREM MovesAsOne == Spec => []SameAsOneMove
<1>1. IInv /\ Grounds => SameAsOneMove
  <2> SUFFICES ASSUME IInv, Grounds, outcome # "none" PROVE SameAsOneMove
    BY DEF SameAsOneMove
  <2>1. CASE outcome = "moved"
    BY <2>1, MovedAsOne DEF SameAsOneMove
  <2>2. CASE outcome = "exceeded"
    BY <2>2 DEF Grounds, SameAsOneMove, Movable, Acceptable
  <2>3. CASE outcome = "inexact"
    BY <2>3 DEF Grounds, SameAsOneMove, Movable
  <2> QED
    BY <2>1, <2>2, <2>3 DEF IInv, TypeOK, Outcomes
<1>2. Init => Grounds
  BY DEF Init, Grounds
<1> QED
  BY <1>1, <1>2, Invariant, InvInit, InvStep, GroundsStep, PTL DEF Spec
====
