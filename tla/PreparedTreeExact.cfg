\* A crash, a lock upgrade and a removal that a locked file stops.
CONSTANTS
  g1 = g1
  g2 = g2
  g3 = g3
  sameTool = sameTool
  newTool = newTool
  Generations <- MCGenerations
  Markers <- MCMarkers
  MarkerOf <- MCMarkerOf
  Nothing = Nothing
  NoMarker = NoMarker
  RecoveryRoot = TRUE
  FaultKinds = {"crash", "remove", "upgrade"}
  MaxFaults = 3
SPECIFICATION Spec
INVARIANTS
  PublishedTreeIsExact
