CONSTANTS
  Labels <- MCLabels
  ZoneMaps <- MCZoneMaps
  Hosts <- MCHosts
  NoZone = NoZone
SPECIFICATION Spec
INVARIANTS
  TypeOK
  ReturnsTheMostSpecific
CHECK_DEADLOCK FALSE
