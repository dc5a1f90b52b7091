SPECIFICATION FairSpec
CONSTANTS
  PingPeriod = 10
  NetworkTimeout = 15
  HandshakeWait = 5
  Backoff = 1
  OtaDelay = 3
  ConnectTime = 4
  MaxClients = 1
  MaxFaults = 2
  MaxRequests = 1
  PromptServer = TRUE
  MaxInFlight = 3
INVARIANT NeverGivesUp
PROPERTIES RequestServed LossNoticed Converges ConvergesOrStrands
