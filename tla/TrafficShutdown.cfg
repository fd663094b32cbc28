SPECIFICATION Spec
CONSTANTS
  k1 = k1
  k2 = k2
  k3 = k3
  c1 = c1
  c2 = c2
  Chunks = {k1, k2}
  Conns = {c1, c2}
  Users = {1, 2}
  ConnOf <- PairConns
  DirOf <- AllUp
  UserOf <- TwoUsers
  Threshold = 2
  maxPendingUsers = 1
  requestMaxAttempts = 1
  StateFile = TRUE
  DiskFaults = FALSE
  MaxStops = 1
  MaxCount = 2
INVARIANT ShutdownFlushes
