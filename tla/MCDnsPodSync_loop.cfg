CONSTANTS
  Zones <- MCZones
  DomainFilter <- BothZones
  DefaultLine = "default"
  Line <- MCLine
  Heritage <- MCHeritage
  ParseUint <- MCParseUint
  FormatUint <- MCFormatUint
  OurMark = "mark"
  Handlers = {h1}
  Requests <- NoRequests
  InitialLive <- Started
  ConsoleRecords <- ManualRecords
  MaxEdits = 0
  RetryDefault = 3
  Wishes <- AllWishes
  MaxRequests = 0
  MaxFaults = 1
  MaxConsole = 1
  MaxCrashes = 0
  MaxTrouble = 2
  MaxWishes = 1
  MaxGiveUps = 0
SPECIFICATION FairSyncSpec
INVARIANTS
  SyncTypeOK
  NoSpuriousUpdates
PROPERTIES
  OthersUntouched
  Converges
