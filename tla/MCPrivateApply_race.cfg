CONSTANTS
  Zones <- MCZones
  ZoneFilter <- NestedOnly
  Heritage <- MCHeritage
  BaseText = "tencent_provider_record"
  ParseInt <- MCParseInt
  Handlers = {h1, h2}
  Requests <- RacingRequests
  InitialLive <- StandingOrBased
  ConsoleRecords <- Note
  RetryDefault = 3
  MaxRequests = 2
  MaxFaults = 1
  MaxConsole = 1
  MaxCrashes = 0
  MaxTrouble = 2
SPECIFICATION Spec
CHECK_DEADLOCK FALSE
INVARIANTS
  NeverLast
PROPERTIES
  SuccessIsOutcome
  FailsOnlyForACause
SYMMETRY HandlerSymmetry
