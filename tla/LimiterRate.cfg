SPECIFICATION Spec
CONSTANTS
  u1 = u1
  u2 = u2
  p1 = p1
  p2 = p2
  r1 = r1
  NoUser = NoUser
  NoIP = NoIP
  Blank = Blank
  Conns = {c1, c2, c3, c4}
  Users = {u1}
  IPs = {}
  RemoteIPs = {}
  Kinds = {"udp"}
  UserLists <- OneUserList
  AliveLists <- NoneAlive
  MaxConnPerUser = 2
  MaxConnPerIP = 0
  MaxNewConnPerUser = 2
  MaxNewConnPerIP = 2
  Window = 2
  MaxLag = 1
  MaxTime = 5
  MaxGen = 1
SYMMETRY Conn2Symmetry
INVARIANTS
  OvershootNeedsOverlap
  TwoWindowsAtMost
PROPERTY PruneInvisible
