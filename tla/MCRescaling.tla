---- MODULE MCRescaling ----
(***************************************************************************)
(* Rescaling over a safe range of three digits and exponents of both       *)
(* signs; the arguments reach one past every limit.                        *)
(***************************************************************************)
EXTENDS Rescaling

MCPow == [n \in 0..4 |-> 10^n]
MCMinExponent == -2
MCValues == -121..121
MCScales == -3..3
====
