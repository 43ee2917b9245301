CONSTANTS
  Zones <- MCZones
  ZoneFilter <- BothZones
  Heritage <- MCHeritage
  BaseText = "tencent_provider_record"
  ParseInt <- MCParseInt
  Handlers = {h1}
  Requests <- AllRequests
  InitialLive <- AnyStart
  ConsoleRecords <- NoRecords
  RetryDefault = 3
  MaxRequests = 2
  MaxFaults = 3
  MaxConsole = 0
  MaxCrashes = 1
  MaxTrouble = 4
SPECIFICATION Spec
CHECK_DEADLOCK FALSE
INVARIANTS
  TypeOK
  NothingElseChanges
  OldGoneBeforeNew
  NeverLast
PROPERTIES
  DeletesOnlyPlanned
  SuccessIsOutcome
  FailsOnlyForACause
