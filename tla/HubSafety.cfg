CONSTANTS
  c1 = c1
  c2 = c2
  c3 = c3
  u = u
  NoConn = NoConn
  Conns = {c1, c2}
  Users = {c1, c2}
  UserOf <- OwnName
  Groups <- AllUsersGroup
  RegisterCap = 1
  UnregisterCap = 2
  RouteCap = 2
  SendCap = 2
  Requests = {"dm", "group", "typing", "list"}
  MaxFrames <- TwoFromC1
  Endless = {}
SPECIFICATION ServingSpec
INVARIANTS NoSendOnClosed FanoutTargetsLive OneCleanup
PROPERTY Delivered
