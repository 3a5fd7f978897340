SPECIFICATION MappingSpec
CONSTANTS
  NaN = NaN
  Inf = Inf
  NegInf = NegInf
  Unset = Unset
  Environments <- MCEnvironments
  Parameters <- MCFloats
INVARIANTS
  CancelledStatementIs500
