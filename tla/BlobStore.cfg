\* Two processes, two faults of any kind.
CONSTANTS
  p1 = p1
  p2 = p2
  n1 = n1
  a = a
  b = b
  Processes <- MCProcesses
  Pids = {n1}
  PidOf <- MCPidOf
  Chunks = {a, b}
  MaxLen = 3
  Limit = 2
  Retries = 1
  MaxOrdinal = 1
  Versions <- MCVersions
  Asked <- MCAsked
  Damages <- MCDamages
  NoFile = NoFile
  FaultKinds = {"crash", "io", "edit", "rot"}
  MaxFaults = 2
SYMMETRY MCSymmetry
SPECIFICATION Spec
INVARIANTS
  TypeOK
  ExclusiveStaging
  GetReturnsAddressedBytes
  RacingNeverFails
  NoLitter
PROPERTIES
  KeepsPromise

