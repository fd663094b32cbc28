SPECIFICATION Spec
CONSTANTS
  Worlds <- PlainOnly
  Offers <- SomeOffers
  u1 = u1
  u2 = u2
  Units = {u1, u2}
  PlaceOf <- AtFirst
  UserOf <- TwoUsers
  DiskFaults = FALSE
  Second = 2
  WordSize = 256
  MaxNodes = 2
  MaxEdits = 0
  MaxStops = 0
INVARIANT PanelIntervalsPreferred
