---- MODULE MCPreparedTree ----
(***************************************************************************)
(* PreparedTree over three generations of one tool.  The markers of seven  *)
(* zip, gnupg and cosign name no version, so g1 and g2 share one; the      *)
(* marker of CMake names its version and archive, so g3 has its own.       *)
(***************************************************************************)
EXTENDS PreparedTree

CONSTANTS g1, g2, g3, sameTool, newTool

MCGenerations == {g1, g2, g3}
MCMarkers == {sameTool, newTool}
MCMarkerOf == [g \in MCGenerations |-> IF g = g3 THEN newTool ELSE sameTool]
====
