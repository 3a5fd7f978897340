SPECIFICATION FairStressSpec
CONSTANTS
  Requests = {r1, r2, r3}
  Slots = 2
  Tokens = 3
  FailingWork = TRUE
  MaxRuns = 4
INVARIANTS
  StressTypeOK
  SlotsAccounted
  WorkBounded
  RunsConserved
PROPERTIES
  SlotsReturn
  SlotsAreLeased
