\* One invocation of every tool on every tree made for it.
CONSTANTS
  None = None
  Of <- MCOf
  Unit <- MCUnit
  Trees <- MCTrees
  Invocations <- MCInvocations
  MaxDepth = 4
  MaxFiles = 30
  MaxRules = 40
  MaxFindings = 9
  MaxCount = 3
  MaxListed = 2
  Spelt <- MCSpelt
  Fold <- MCFold
  Rank <- MCRank
  Admits <- MCAdmits
  MaxEvidence = 3
  MaxManifests = 2
  MaxAudited = 39
SPECIFICATION Spec
CHECK_DEADLOCK FALSE
INVARIANTS
  CleanIsEarned
  VerdictIsExact
  OkIsEarned
