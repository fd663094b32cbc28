SPECIFICATION FairSpec
CONSTANTS
  l1 = l1
  l2 = l2
  l3 = l3
  g1 = g1
  g2 = g2
  g3 = g3
  g4 = g4
  bad = bad
  Nil = Nil
  UserLists = {l1, l2, l3}
  Configs = {g1, g2, g3, g4, bad}
  ListOf <- Lists
  BodyOf <- Bodies
  LocalSettings <- Local
  RoutesSent <- SomeRoutes
  Conn <- SomeConns
  AliveBodies <- SomeBodies
  UserHash <- HashOfList
  ConfigHash <- HashOfConfig
  Buildable <- Built
  Boxes = {b1, b2, b3}
  MaxEdits = 2
  MaxFaults = 2
  MaxStops = 1
INVARIANTS
  TypeOK
  SyncerKnowsEngine
  CacheIsTagged
  LimiterCurrent
  OneListener
  NoOrphan
  DownAfterTwoFailures
  SafetyFirst
  PanelDecides
  DevicesCounted
PROPERTIES
  Settles
  NoticesAllButShortIDs
  NoNeedlessReload
