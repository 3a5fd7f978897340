SPECIFICATION FairBudgetSpec
CONSTANTS
  Concurrency = 5
  PoolSize = 2
  MaxOverflow = 1
  MaxConnections = 9
  MaxOrphans = 3
INVARIANTS
  BudgetTypeOK
  BackendsAccounted
  WithinBudget
PROPERTIES
  DrillPasses
