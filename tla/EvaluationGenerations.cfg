\* One ledger, and a metric defined in two units.
CONSTANTS
  Pow <- MCPow
  MaxSafe = 120
  MinExponent <- MCMinExponent
  MaxExponent = 1
  ReceiptOf <- MCReceiptOf
  NoDigest = NoDigest
  NoAttempt = NoAttempt
  None = None
  Plans = {}
  Ledgers <- MCClean
  Indexes <- MCRenewed
  MaxDepth = 3
  MaxDamage = 0
SPECIFICATION Spec
INVARIANTS
  ObservedAsBound
