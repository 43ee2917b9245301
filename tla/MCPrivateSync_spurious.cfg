CONSTANTS
  Zones <- MCZones
  ZoneFilter <- BothZones
  Heritage <- MCHeritage
  BaseText = "tencent_provider_record"
  ParseInt <- MCParseInt
  FormatInt <- MCFormatInt
  OurMark = "mark"
  Handlers = {h1}
  Requests <- NoRequests
  InitialLive <- Started
  ConsoleRecords <- NoRecords
  RetryDefault = 3
  Wishes <- RestlessWishes
  MaxRequests = 0
  MaxFaults = 0
  MaxConsole = 0
  MaxCrashes = 0
  MaxTrouble = 1
  MaxWishes = 0
  MaxGiveUps = 0
SPECIFICATION SyncSpec
INVARIANTS
  NoSpuriousUpdates
