\* Every value of three digits between every two of five exponents.
CONSTANTS
  Pow <- MCPow
  MaxSafe = 120
  MinExponent <- MCMinExponent
  MaxExponent = 2
  Values <- MCValues
  Scales <- MCScales
SPECIFICATION Spec
INVARIANTS
  TypeOK
  SameAsOneMove
  ThresholdMovesAsDeclared
CHECK_DEADLOCK FALSE
