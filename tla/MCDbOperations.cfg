SPECIFICATION FairSpec
CONSTANTS
  Togglers = {t1}
  Modes <- MCModes
  NoMode = NoMode
  BadMode = BadMode
  Controls = TRUE
  Workers = {w1, w2}
  Probers = {w1}
  QueryTypes = {"pool_timeout"}
  FailureDelay = 2
INVARIANTS
  TypeOK
  SwitchIsDecisive
PROPERTIES
  HealthRefined
  Recovers
  GoesDark
