SPECIFICATION Spec
CONSTANTS
  k1 = k1
  k2 = k2
  k3 = k3
  c1 = c1
  c2 = c2
  Chunks = {k1, k2}
  Conns = {c1, c2}
  Users = {1, 2}
  ConnOf <- PairConns
  DirOf <- AllUp
  UserOf <- TwoUsers
  Threshold = 1
  maxPendingUsers = 1
  requestMaxAttempts = 2
  StateFile = TRUE
  DiskFaults = TRUE
  MaxStops = 2
  MaxCount = 2
VIEW ButAtShutdown
INVARIANTS
  Conserved
  AtMostOnce
  FileIsBacklog
PROPERTY KeepsBooks
