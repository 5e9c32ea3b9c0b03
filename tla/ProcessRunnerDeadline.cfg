\* One tool, one run, both streams.
CONSTANTS
  r1 = r1
  r2 = r2
  n1 = n1
  n2 = n2
  Runners = {r1}
  Pids = {n1}
  PidOf <- MCPidOf
  Streams = {"out", "err"}
  Limit = 1
  MaxOutput = 2
  MaxRuns = 1
  RunsOf <- MCOnce
  MaxCrashes = 0
  NoFile = NoFile
SPECIFICATION FairSpec
PROPERTY
  DeadlineEndsRun
CHECK_DEADLOCK FALSE
