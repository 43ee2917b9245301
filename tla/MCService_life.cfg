CONSTANTS
  Launches <- MCLaunches
  WriteActions = {"create"}
  DefaultAPIRate = 1
  MaxRestarts = 1
  Callers = {c1, c2}
  Actions = {"list", "create"}
  Second = 5
  Horizon = 7
SPECIFICATION FairServiceSpec
CHECK_DEADLOCK FALSE
INVARIANTS
  ServiceTypeOK
  KeysMatch
  HealthyIsConfigured
  RateKept
  SleepIsBounded
PROPERTIES
  HealthySoonServes
