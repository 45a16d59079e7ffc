CONSTANTS
  c1 = c1
  c2 = c2
  c3 = c3
  u = u
  NoConn = NoConn
  Conns = {c1, c2}
  Users = {c1, c2}
  UserOf <- OwnName
  Groups <- AllUsersGroup
  RegisterCap = 1
  UnregisterCap = 1
  RouteCap = 1
  SendCap = 1
  Requests = {}
  MaxFrames <- NoFrames
  Endless = {}
SPECIFICATION SSpec
INVARIANT ExitsCleanly
