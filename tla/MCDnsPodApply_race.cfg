CONSTANTS
  Zones <- MCZones
  DomainFilter <- NestedOnly
  DefaultLine = "default"
  Line <- MCLine
  Heritage <- MCHeritage
  ParseUint <- MCParseUint
  Handlers = {h1, h2}
  Requests <- RacingRequests
  InitialLive <- Standing
  ConsoleRecords <- MCConsoleRecords
  MaxEdits = 1
  RetryDefault = 2
  MaxRequests = 2
  MaxFaults = 1
  MaxConsole = 1
  MaxCrashes = 0
  MaxTrouble = 1
SPECIFICATION Spec
CHECK_DEADLOCK FALSE
INVARIANTS
  RepostConverges
  OneDoneSuffices
PROPERTIES
  EveryHandlerEdits
  FailsOnlyForACause
SYMMETRY HandlerSymmetry
