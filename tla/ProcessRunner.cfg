\* Two tools, two runs of one and one of the other, either of which may die.
CONSTANTS
  r1 = r1
  r2 = r2
  n1 = n1
  n2 = n2
  Runners = {r1, r2}
  Pids = {n1, n2}
  PidOf <- MCPidOf
  Streams = {"out"}
  Limit = 0
  MaxOutput = 1
  MaxRuns = 2
  RunsOf <- MCRunsOf
  MaxCrashes = 1
  NoFile = NoFile
SPECIFICATION FairSpec
INVARIANTS
  TypeOK
  ExitIsTheChilds
  CaptureIsOwn
  OutputIsBounded
  ResidueIsHarmless
  NothingLeftBehind
PROPERTIES
  RunReturns
CHECK_DEADLOCK FALSE
