SPECIFICATION Spec
CONSTANTS
  c1 = c1
  c2 = c2
  Conns = {c1, c2}
  ticker = ticker
  shutdown = shutdown
  Nobody = Nobody
INVARIANTS
  TypeOK
  NoCircle
  NoRace
PROPERTY CallsReturn
