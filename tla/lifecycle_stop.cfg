SPECIFICATION Spec
CONSTANTS
  Requests = {r1}
  Callers = {c1}
  MaxCalls = 2
  Addresses = {"p1", "p2"}
  PeerAddresses <- SomePeers
  Undialable = {"p2"}
  MaxRetries = 2
CHECK_DEADLOCK FALSE
PROPERTIES StopReturns
