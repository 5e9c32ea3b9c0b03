\* Every plan and every foreign ledger, against every set of authorities.
CONSTANTS
  Pow <- MCPow
  MaxSafe = 120
  MinExponent <- MCMinExponent
  MaxExponent = 1
  ReceiptOf <- MCReceiptOf
  NoDigest = NoDigest
  NoAttempt = NoAttempt
  None = None
  Plans <- MCPlans
  Ledgers <- MCLedgers
  Indexes <- MCIndexes
  MaxDepth = 3
  MaxDamage = 1
SPECIFICATION Spec
INVARIANTS
  TypeOK
  LedgerIsWhole
  PassIsEarned
  FailureHasGround
  VerdictFollowsPhases
PROPERTIES
  RepeatsAreIdentical
