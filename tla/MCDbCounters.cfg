SPECIFICATION CountersSpec
CONSTANTS
  Togglers = {t1}
  Modes = {"query_error"}
  NoMode = NoMode
  BadMode = BadMode
  Controls = TRUE
  Workers = {w1, w2}
  Probers = {}
  QueryTypes = {"pool_timeout"}
  FailureDelay = 2
  MaxOps = 3
  MaxArmings = 1
SYMMETRY WorkerSymmetry
INVARIANTS
  CountersTypeOK
  OperationsConserved
  ErrorsAgree
  SimulatedAreErrors
  ArmedBeforeFailing
