SPECIFICATION FairSpec
CONSTANTS
  Worlds <- SomeWorlds
  Offers <- SomeOffers
  u1 = u1
  u2 = u2
  Units = {u1, u2}
  PlaceOf <- AtFirst
  UserOf <- TwoUsers
  DiskFaults = TRUE
  Second = 2
  WordSize = 256
  MaxNodes = 2
  MaxEdits = 1
  MaxStops = 1
INVARIANTS
  TypeOK
  Durable
  ExitFlushes
  PeriodsAsChosen
PROPERTY Recovers
