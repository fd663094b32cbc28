SPECIFICATION Spec
CONSTANTS
  l1 = l1
  l2 = l2
  l3 = l3
  g1 = g1
  g2 = g2
  g3 = g3
  g4 = g4
  bad = bad
  Nil = Nil
  UserLists = {l1}
  Configs = {g1, g4}
  ListOf <- Lists
  BodyOf <- Bodies
  LocalSettings <- Local
  RoutesSent <- SomeRoutes
  Conn <- SomeConns
  AliveBodies <- SomeBodies
  UserHash <- HashOfList
  ConfigHash <- HashOfConfig
  Buildable <- Built
  Boxes = {b1, b2, b3}
  MaxEdits = 1
  MaxFaults = 0
  MaxStops = 0
PROPERTY NoticesChanges
