CONSTANTS
  OutgoingCap = 1
  IncomingCap = 1
  WireCap = 1
  MaxCalls = 4
  MaxPushed = 4
SPECIFICATION FairSpec
INVARIANT TypeOK
PROPERTIES UpIsStream DownIsStream SendReturns LossIsReported CloseStopsAll
