\* Every fault, four of them over any number of runs.
CONSTANTS
  g1 = g1
  g2 = g2
  g3 = g3
  sameTool = sameTool
  newTool = newTool
  Generations <- MCGenerations
  Markers <- MCMarkers
  MarkerOf <- MCMarkerOf
  Nothing = Nothing
  NoMarker = NoMarker
  RecoveryRoot = TRUE
  FaultKinds = {"crash", "rename", "remove", "upgrade"}
  MaxFaults = 4
SPECIFICATION FairSpec
INVARIANTS
  TypeOK
  DestinationVerified
  CompletedRunDelivers
PROPERTIES
  VerifiedCopySurvives
  OnlyRenameWindowStrands
  RerunPublishes
