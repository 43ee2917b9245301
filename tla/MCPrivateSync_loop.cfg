CONSTANTS
  Zones <- MCZones
  ZoneFilter <- BothZones
  Heritage <- MCHeritage
  BaseText = "tencent_provider_record"
  ParseInt <- MCParseInt
  FormatInt <- MCFormatInt
  OurMark = "mark"
  Handlers = {h1, h2}
  Requests <- NoRequests
  InitialLive <- Started
  ConsoleRecords <- ManualRecords
  RetryDefault = 3
  Wishes <- AllWishes
  MaxRequests = 0
  MaxFaults = 1
  MaxConsole = 1
  MaxCrashes = 0
  MaxTrouble = 1
  MaxWishes = 1
  MaxGiveUps = 1
SPECIFICATION FairSyncSpec
INVARIANTS
  SyncTypeOK
  NoSpuriousUpdates
PROPERTIES
  OthersUntouched
  Converges
ACTION_CONSTRAINT Hasty
