CONSTANTS
  Zones <- MCZones
  DomainFilter <- BothZones
  DefaultLine = "default"
  Line <- MCLine
  Heritage <- MCHeritage
  ParseUint <- MCParseUint
  FormatUint <- MCFormatUint
  OurMark = "mark"
  Handlers = {h1}
  Requests <- NoRequests
  InitialLive <- Shadowed
  ConsoleRecords <- NoRecords
  MaxEdits = 0
  RetryDefault = 3
  Wishes <- RestlessWishes
  MaxRequests = 0
  MaxFaults = 0
  MaxConsole = 0
  MaxCrashes = 0
  MaxTrouble = 2
  MaxWishes = 0
  MaxGiveUps = 0
SPECIFICATION SyncSpec
INVARIANTS
  NoSpuriousUpdates
