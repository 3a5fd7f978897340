SPECIFICATION FairLifespanSpec
CONSTANTS
  p1 = p1
  p2 = p2
  Processes = {p1, p2}
  AutoInit = {TRUE, FALSE}
  Seed = TRUE
  SeedUsers = 2
  StartArmed = {TRUE, FALSE}
  ThreadsOf <- MCThreadsOf
  Traffic = {p2}
  BadTarget = TRUE
INVARIANTS
  LifespanTypeOK
  SeedAllOrNothing
  OneEngine
  EnginesBounded
  ShutdownCloses
PROPERTIES
  ServesEventually
  ShutsDown
