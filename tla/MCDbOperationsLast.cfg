SPECIFICATION Spec
CONSTANTS
  Togglers = {t1}
  Modes <- MCModes
  NoMode = NoMode
  BadMode = BadMode
  Controls = TRUE
  Workers = {w1}
  Probers = {}
  QueryTypes <- MCQueryTypes
  FailureDelay = 2
INVARIANTS
  DbUpShowsUnavailable
