---- MODULE ToolRun ----
(***************************************************************************)
(* What the invocations of the repository's tools have in common: a tool   *)
(* is given arguments and a tree, reads its inputs one after another,      *)
(* gathers what it finds and ends with an exit class.  No tool keeps       *)
(* anything between invocations.                                           *)
(***************************************************************************)
EXTENDS Sequences, Functions

CONSTANTS
  None,              \* an absent document, member or exit
  Trees,             \* checkouts by name, with the inputs the tool is given
  Invocations        \* what is run: [tool, request, tree], the tree by name

VARIABLES
  input,             \* the invocation: [request, tree]
  stage,             \* the step it is at; the first has the tool's name
  found,             \* what has been read and concluded so far
  exit               \* the exit class, None while it runs

vars == <<input, stage, found, exit>>

IsList(s) == s \in Seq(Range(s))

tree    == input.tree
request == input.request

Begin(tool, nothing) ==
  /\ \E i \in Invocations :
       i.tool = tool /\ input = [request |-> i.request, tree |-> Trees[i.tree]]
  /\ stage = tool
  /\ found = nothing
  /\ exit = None

End(class) == stage' = "ended" /\ exit' = class /\ UNCHANGED <<input, found>>

Go(next) == stage' = next /\ UNCHANGED <<input, found, exit>>

Learn(next, what) == stage' = next /\ found' = what /\ UNCHANGED <<input, exit>>
====
