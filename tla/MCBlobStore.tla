---- MODULE MCBlobStore ----
(***************************************************************************)
(* BlobStore with processes that all have the same process number, as in   *)
(* containers over one checkout.  The first two versions of the source     *)
(* share no chunk in the same place, so an edit inside a pass yields bytes *)
(* nobody wrote; the third is longer than the limit.                       *)
(***************************************************************************)
EXTENDS BlobStore, TLC

CONSTANTS p1, p2, n1, a, b

MCProcesses == {p1, p2}
MCPidOf == [p \in Processes |-> n1]
MCVersions == {<<a, b>>, <<b, a>>, <<a, b, a>>}
MCDamages == {<<a>>, <<b, b>>, <<a, b, a>>}
MCAsked == {<<a, b>>}
MCSymmetry == Permutations(Processes)
====
