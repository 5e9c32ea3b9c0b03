---- MODULE Scale ----
(***************************************************************************)
(* Fixed-point quantities of the evidence records: an integer and an       *)
(* exponent of ten, and what rescaleExact of metric_registry.cpp makes of  *)
(* one when it moves it to another exponent.  Rescaling shows that the     *)
(* loop in the code computes this; Evaluation uses it.                     *)
(***************************************************************************)
EXTENDS Integers

CONSTANTS
  Pow,              \* the powers of ten
  MaxSafe,          \* kMaximumSafeInteger
  MinExponent,      \* kMinimumScaleExponent
  MaxExponent       \* kMaximumScaleExponent

ASSUME ScaleAssumption ==
  /\ MaxSafe \in Nat
  /\ MinExponent \in Int /\ MaxExponent \in Int /\ MinExponent <= MaxExponent
  /\ Pow \in [0..(MaxExponent - MinExponent) -> Nat \ {0}]
  /\ Pow[0] = 1
  /\ \A n \in 0..(MaxExponent - MinExponent - 1) : Pow[n + 1] = 10 * Pow[n]

Exponents == MinExponent..MaxExponent
Safe == -MaxSafe..MaxSafe

Roundings == {"reject_inexact", "toward_negative_infinity", "toward_positive_infinity"}

(***************************************************************************)
(* Whether a value can be moved at all, and where it ends: a finer scale   *)
(* multiplies, a coarser one divides and rounds as the metric declares.    *)
(***************************************************************************)
Movable(value, from, to, rounding) ==
  /\ from \in Exponents /\ to \in Exponents /\ value \in Safe
  /\ to <= from => value * Pow[from - to] \in Safe
  /\ to > from /\ rounding = "reject_inexact" => value % Pow[to - from] = 0

Rescaled(value, from, to, rounding) ==
  IF to <= from THEN value * Pow[from - to]
  ELSE IF rounding = "toward_positive_infinity" THEN -((-value) \div Pow[to - from])
  ELSE value \div Pow[to - from]
====
