SPECIFICATION StartupSpec
CONSTANTS
  Processes = {p1}
  AutoInit = {TRUE}
  Seed = TRUE
  SeedUsers = 2
  StartArmed = {FALSE}
INVARIANTS
  OutageAnswers503
