---- MODULE MCProcessRunner ----
(***************************************************************************)
(* ProcessRunner with two tools that have different process numbers.       *)
(***************************************************************************)
EXTENDS ProcessRunner

CONSTANTS r1, r2, n1, n2

MCPidOf == [r \in Runners |-> IF r = r1 THEN n1 ELSE n2]
MCRunsOf == [r \in Runners |-> IF r = r1 THEN 2 ELSE 1]
MCOnce == [r \in Runners |-> 1]
====
