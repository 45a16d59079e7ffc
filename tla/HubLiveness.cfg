CONSTANTS
  c1 = c1
  c2 = c2
  c3 = c3
  u = u
  NoConn = NoConn
  Conns = {c1, c2}
  Users = {c1, c2}
  UserOf <- OwnName
  Groups <- AllUsersGroup
  RegisterCap = 1
  UnregisterCap = 1
  RouteCap = 1
  SendCap = 1
  Requests = {"dm", "answer"}
  MaxFrames <- NoFrames
  Endless = {c1, c2}
SPECIFICATION FairSpec
INVARIANTS TypeOK NoSendOnClosed FanoutTargetsLive SoleSessionOnline
PROPERTIES HandlerNeverWedged EventuallyOnline
