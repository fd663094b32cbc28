SPECIFICATION RunSpec
CONSTANTS
  k1 = k1
  k2 = k2
  k3 = k3
  c1 = c1
  c2 = c2
  Chunks = {k1, k2, k3}
  Conns = {c1}
  Users = {1}
  ConnOf <- OneConn
  DirOf <- TwoUpOneDown
  UserOf <- OneUser
  Threshold = 2
  maxPendingUsers = 1
  requestMaxAttempts = 3
  StateFile = TRUE
  DiskFaults = FALSE
  MaxStops = 1
  MaxCount = 2
INVARIANTS
  TypeOK
  OnePlace
PROPERTIES
  Delivered
  ReportEnds
