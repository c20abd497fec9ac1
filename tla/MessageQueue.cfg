SPECIFICATION FairSpec
CONSTANTS
  publisher = publisher
  control = control
  None = None
  Caller <- MCCaller
  Messages <- MCMessages
  Pipelined = {publisher}
  MaxRetries = 2
  MaxConnections = 3
CHECK_DEADLOCK FALSE
INVARIANTS
  OkMeansDelivered
  BroadcastTriesAll
  LiveChannelIsOwned
PROPERTIES
  NoRacingReconnect
  EveryCallReturns
