CONSTANTS
  Zones <- MCZones
  DomainFilter <- BothZones
  DefaultLine = "default"
  Line <- MCLine
  Heritage <- MCHeritage
  ParseUint <- MCParseUint
  FormatUint <- MCFormatUint
  OurMark = "mark"
  Handlers = {h1, h2}
  Requests <- NoRequests
  InitialLive <- Started
  ConsoleRecords <- ManualRecords
  MaxEdits = 0
  RetryDefault = 3
  Wishes <- SomeWishes
  MaxRequests = 0
  MaxFaults = 0
  MaxConsole = 0
  MaxCrashes = 1
  MaxTrouble = 2
  MaxWishes = 1
  MaxGiveUps = 1
SPECIFICATION FairSyncSpec
PROPERTIES
  Converges
