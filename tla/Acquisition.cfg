SPECIFICATION Spec
CHECK_DEADLOCK FALSE
CONSTANTS
  Folded <- MCFolded
  Oversized = {"long"}
  MaxEntries = 9
  MaxPathDepth = 3
  Syncs = {s1, s2}
  Stages = {"bootstrap", "sync"}
  Machines <- MCMachines
  Prestaged = {"absent", "right", "wrong"}
  Worlds <- MCWorlds
  Targets <- MCTargets
  OriginHosts = {"github", "vendor"}
  RedirectHosts = {"github", "assets"}
  ReleaseHost = "github"
  AssetHost = "assets"
  MaxRedirects = 3
  MaxStarts = 3
PROPERTY ImplementsStore
INVARIANT RefusalHasCause
INVARIANT RequestsAreAdmitted
SYMMETRY MCSymmetry
