---- MODULE Rescaling ----
(***************************************************************************)
(* rescaleExact of metric_registry.cpp as the loops it is made of: one     *)
(* digit at a time, guarded before each multiplication and rounded after   *)
(* each division, on C++ integers whose division truncates.  A behaviour   *)
(* is one call: the function keeps nothing between calls.                  *)
(***************************************************************************)
EXTENDS Scale

CONSTANTS
  Values,           \* bound: the values callers pass
  Scales            \* bound: the exponents callers pass

ASSUME RescalingAssumption == Values \subseteq Int /\ Scales \subseteq Int

VARIABLES
  value, from, to, rounding,    \* the arguments
  result,                       \* the value as moved so far
  step,                         \* the loop counter of both loops
  pc,
  outcome                       \* how the call ended

vars == <<value, from, to, rounding, result, step, pc, outcome>>
arguments == <<value, from, to, rounding>>

Outcomes == {"none", "moved", "exceeded", "inexact"}

\* No product leaves the range a record may carry, let alone 64 bits.
TypeOK ==
  /\ value \in Int /\ from \in Int /\ to \in Int
  /\ rounding \in Roundings
  /\ result \in Safe /\ step \in Int
  /\ pc \in {"check", "widen", "narrow", "returned"}
  /\ outcome \in Outcomes

Init ==
  /\ value \in Values /\ from \in Scales /\ to \in Scales /\ rounding \in Roundings
  /\ result = 0 /\ step = 0
  /\ pc = "check" /\ outcome = "none"

\* C++ division and remainder by ten.
Quotient(n) == IF n >= 0 THEN n \div 10 ELSE -((-n) \div 10)
Remainder(n) == n - 10 * Quotient(n)

Return(how) ==
  /\ pc' = "returned" /\ outcome' = how
  /\ UNCHANGED <<arguments, result, step>>

Acceptable == from \in Exponents /\ to \in Exponents /\ value \in Safe

CheckRefuses == pc = "check" /\ ~Acceptable /\ Return("exceeded")

CheckAccepts ==
  /\ pc = "check" /\ Acceptable
  /\ result' = value /\ step' = to /\ pc' = "widen"
  /\ UNCHANGED <<arguments, outcome>>

\* Mutant: only the range itself is looked at before the product is made.
RoomForNothing == result \in Safe

\* A finer scale: ten times the value, unless that leaves the safe range.
RoomForDigit == result \in -(MaxSafe \div 10)..(MaxSafe \div 10)

WidenRefuses == pc = "widen" /\ step < from /\ ~RoomForDigit /\ Return("exceeded")

Widen ==
  /\ pc = "widen" /\ step < from /\ RoomForDigit
  /\ result' = result * 10 /\ step' = step + 1
  /\ UNCHANGED <<arguments, pc, outcome>>

WidenEnds ==
  /\ pc = "widen" /\ step >= from
  /\ step' = from /\ pc' = "narrow"
  /\ UNCHANGED <<arguments, result, outcome>>

\* Mutant: a negative remainder is dropped, as the division drops it.
CorrectionTruncates ==
  IF rounding = "toward_positive_infinity" /\ Remainder(result) > 0 THEN 1 ELSE 0

\* A coarser scale: a tenth of the value, and the rule for what is dropped.
Correction ==
  CASE rounding = "toward_negative_infinity" /\ Remainder(result) < 0 -> -1
    [] rounding = "toward_positive_infinity" /\ Remainder(result) > 0 -> 1
    [] OTHER -> 0

Narrowed == Quotient(result) + Correction

NarrowRefuses ==
  /\ pc = "narrow" /\ step < to
  /\ Remainder(result) # 0 /\ rounding = "reject_inexact"
  /\ Return("inexact")

Narrow ==
  /\ pc = "narrow" /\ step < to
  /\ Remainder(result) = 0 \/ rounding # "reject_inexact"
  /\ result' = Narrowed /\ step' = step + 1
  /\ UNCHANGED <<arguments, pc, outcome>>

NarrowEnds == pc = "narrow" /\ step >= to /\ Return("moved")

Next ==
  \/ CheckRefuses \/ CheckAccepts
  \/ WidenRefuses \/ Widen \/ WidenEnds
  \/ NarrowRefuses \/ Narrow \/ NarrowEnds

Spec == Init /\ [][Next]_vars
----
(***************************************************************************)
(* Properties.                                                             *)
(***************************************************************************)
\* Rescaling digit by digit gives exactly what one multiplication or one
\* rounded division gives, and is refused exactly when that is not to be had
\* (the claim of metric_registry.cpp:313-315).
SameAsOneMove ==
  outcome # "none" =>
    /\ (outcome = "moved") = Movable(value, from, to, rounding)
    /\ outcome = "moved" => result = Rescaled(value, from, to, rounding)

\* A value that was moved lies on the side of the original that its rounding
\* rule names and less than one unit of the new scale away from it: a
\* threshold moves in the declared direction or not at all.
ThresholdMovesAsDeclared ==
  outcome = "moved" =>
    /\ to <= from => result = value * Pow[from - to]
    /\ to > from =>
         /\ rounding = "reject_inexact" => result * Pow[to - from] = value
         /\ rounding = "toward_negative_infinity" =>
              result * Pow[to - from] <= value /\ value < (result + 1) * Pow[to - from]
         /\ rounding = "toward_positive_infinity" =>
              (result - 1) * Pow[to - from] < value /\ value <= result * Pow[to - from]
====
