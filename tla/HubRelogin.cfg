CONSTANTS
  c1 = c1
  c2 = c2
  c3 = c3
  u = u
  NoConn = NoConn
  Conns = {c1, c2, c3}
  Users = {u, c3}
  UserOf <- SharedUser
  Groups <- AllUsersGroup
  RegisterCap = 1
  UnregisterCap = 2
  RouteCap = 1
  SendCap = 1
  Requests = {"typing"}
  MaxFrames <- NoFrames
  Endless = {c1, c2, c3}
SPECIFICATION OrderlySpec
INVARIANTS NoSendOnClosed FanoutTargetsLive OneCleanup
SYMMETRY Twins
