---- MODULE MCTools ----
(***************************************************************************)
(* The repository's tools, one invocation of one of them per behaviour,    *)
(* over the trees made for each.                                           *)
(***************************************************************************)
EXTENDS Archcheck, ArchcheckTrees, VerifyTool, VerifyTrees, EvidenceTool, EvidenceTrees, RecordTrees

MCOf == PathFacts
MCUnit == UnitFacts
MCSpelt == Spelling
MCFold == Folded
MCRank == ByteOrder
MCAdmits == Admission

MCTrees ==
  [t \in DOMAIN MCArchcheckTrees \union DOMAIN MCVerifyTrees \union DOMAIN MCEvidenceTrees
         \union DOMAIN MCRecordTrees |->
     IF t \in DOMAIN MCArchcheckTrees THEN MCArchcheckTrees[t]
     ELSE IF t \in DOMAIN MCVerifyTrees THEN MCVerifyTrees[t]
     ELSE IF t \in DOMAIN MCRecordTrees THEN MCRecordTrees[t]
     ELSE MCEvidenceTrees[t]]

MCInvocations == MCArchcheckInvocations \union MCVerifyRuns \union MCEvidenceInvocations \union MCRecordInvocations

Starts ==
  {<<"rf-archcheck", NothingFound>>, <<"rf-verify", Nothing>>, <<"rf-evidence", NothingRead>>}

Init == \E start \in Starts : Begin(start[1], start[2])

Next == ArchcheckNext \/ VerifyNext \/ EvidenceNext

Spec == Init /\ [][Next]_vars
====
