SPECIFICATION FairMetricsSpec
CONSTANTS
  Requests = {r1, r2, r3}
  Tokens = 2
  Capacity = 1
INVARIANTS
  MetricsTypeOK
  ConnectionsAccounted
  RequestsConserved
  ErrorsKeepUp
PROPERTIES
  Answered
  ConnectionsAreLeased
