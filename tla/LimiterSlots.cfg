SPECIFICATION Spec
CONSTANTS
  u1 = u1
  u2 = u2
  p1 = p1
  p2 = p2
  r1 = r1
  NoUser = NoUser
  NoIP = NoIP
  Blank = Blank
  Conns = {c1, c2}
  Users = {u1, u2}
  IPs = {p1, p2}
  RemoteIPs = {p1, p2, r1}
  Kinds = {"tcp","udp"}
  UserLists <- LimitLists
  AliveLists <- BothAlive
  MaxConnPerUser = 2
  MaxConnPerIP = 1
  MaxNewConnPerUser = 4
  MaxNewConnPerIP = 0
  Window = 1
  MaxLag = 0
  MaxTime = 0
  MaxGen = 2
SYMMETRY Conn2Symmetry
INVARIANTS
  TypeOK
  NoLostSlot
  DeviceOvershootNeedsOverlap
  RefCountExact
  NoGhostSlot
  PayloadExact
PROPERTY SharedBucket
