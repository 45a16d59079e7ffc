CONSTANTS
  c1 = c1
  c2 = c2
  c3 = c3
  u = u
  NoConn = NoConn
  Conns = {c1, c2}
  Users = {u}
  UserOf <- SharedUser
  Groups <- AllUsersGroup
  RegisterCap = 2
  UnregisterCap = 2
  RouteCap = 1
  SendCap = 2
  Requests = {}
  MaxFrames <- NoFrames
  Endless = {}
SPECIFICATION Spec
INVARIANT ConnectedUserOnline
