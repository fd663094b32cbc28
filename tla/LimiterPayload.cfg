SPECIFICATION Spec
CONSTANTS
  u1 = u1
  u2 = u2
  p1 = p1
  p2 = p2
  r1 = r1
  NoUser = NoUser
  NoIP = NoIP
  Blank = Blank
  Conns = {c1, c2, c3}
  Users = {u1}
  IPs = {p1, p2}
  RemoteIPs = {p1, p2, r1}
  Kinds = {"udp"}
  UserLists <- ReloadLists
  AliveLists <- NoneAlive
  MaxConnPerUser = 2
  MaxConnPerIP = 0
  MaxNewConnPerUser = 4
  MaxNewConnPerIP = 0
  Window = 1
  MaxLag = 0
  MaxTime = 0
  MaxGen = 2
INVARIANT PayloadComplete
SYMMETRY Conn2Symmetry
