SPECIFICATION Spec
CONSTANTS
  Requests = {r1}
  Callers = {c1, c2}
  MaxCalls = 3
  Addresses = {"p1", "p2"}
  PeerAddresses <- SomePeers
  Undialable = {"p2"}
  MaxRetries = 2
CHECK_DEADLOCK FALSE
INVARIANTS TypeOK NoDoubleClose QuietAfterStop ConnectionsTracked SendsOverOpen AnsweredTruly
PROPERTIES StopReturnsUnlessWedged EveryPeerConnected
