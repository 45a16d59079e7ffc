SPECIFICATION Spec
CONSTANTS
  Chats = {bob, team}
  Groups = {team}
  NoChat = NoChat
  HistoryLimit = 2
  CacheLimit = 2
  SendCap = 2
  MaxActs = 3
  MaxNews = 2
PROPERTY PendingIsApplied
CHECK_DEADLOCK FALSE
