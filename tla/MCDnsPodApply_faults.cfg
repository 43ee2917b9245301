CONSTANTS
  Zones <- MCZones
  DomainFilter <- BothZones
  DefaultLine = "default"
  Line <- MCLine
  Heritage <- MCHeritage
  ParseUint <- MCParseUint
  Handlers = {h1}
  Requests <- AllRequests
  InitialLive <- FreshOrStanding
  ConsoleRecords <- NoRecords
  MaxEdits = 0
  RetryDefault = 3
  MaxRequests = 2
  MaxFaults = 3
  MaxConsole = 0
  MaxCrashes = 1
  MaxTrouble = 4
SPECIFICATION FairSpec
CHECK_DEADLOCK FALSE
INVARIANTS
  TypeOK
  OldGoneBeforeNew
PROPERTIES
  DeletesOnlyPlanned
  FailsOnlyForACause
  EveryRequestEnds
