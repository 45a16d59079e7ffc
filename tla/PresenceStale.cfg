CONSTANTS
  c1 = c1
  c2 = c2
  c3 = c3
  u = u
  NoConn = NoConn
  Conns = {c1, c2}
  Users = {c1, c2}
  UserOf <- OwnName
  Groups <- AllUsersGroup
  RegisterCap = 2
  UnregisterCap = 2
  RouteCap = 1
  SendCap = 3
  Requests = {}
  MaxFrames <- NoFrames
  Endless = {}
SPECIFICATION PServingSpec
INVARIANT OfflineIsAnnounced
