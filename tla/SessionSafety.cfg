SPECIFICATION Spec
CONSTANTS
  PingPeriod = 10
  NetworkTimeout = 15
  HandshakeWait = 5
  Backoff = 1
  OtaDelay = 3
  ConnectTime = 4
  MaxClients = 1
  MaxFaults = 3
  MaxRequests = 1
  PromptServer = FALSE
  MaxInFlight = 3
CONSTRAINT FewInFlight
INVARIANTS IInv SilenceBound RequestServable AppWatched SessionAgreed
PROPERTIES NoLiveClientLeaked KeepsPresence
