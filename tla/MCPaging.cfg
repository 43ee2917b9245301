CONSTANTS
  Kinds <- AllKinds
  Places <- MCPlaces
  Limit = 2
  FirstTotal = 100
  Unwanted <- MCUnwanted
  InitialItems <- SomeStarts
  MaxInserts = 2
  MaxRemovals = 2
SPECIFICATION FairSpec
CHECK_DEADLOCK FALSE
INVARIANTS
  TypeOK
  MissesAreRemovals
  RepeatsAreInserts
PROPERTIES
  ListingEnds
