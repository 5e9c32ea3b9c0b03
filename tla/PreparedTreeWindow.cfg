\* One crash between the two renames of a republish.
CONSTANTS
  g1 = g1
  g2 = g2
  g3 = g3
  sameTool = sameTool
  newTool = newTool
  Generations <- MCGenerations
  Markers <- MCMarkers
  MarkerOf <- MCMarkerOf
  Nothing = Nothing
  NoMarker = NoMarker
  RecoveryRoot = TRUE
  FaultKinds = {"crash"}
  MaxFaults = 1
SPECIFICATION Spec
PROPERTIES
  StagedTreeIsRestored
