SPECIFICATION Spec
CONSTANTS
  Handlers = {h1}
  Background = bg
  Threads <- AllThreads
  NoThread = nobody
  Servers = {s1}
  Global = pool
  Costs = {2}
  Releases = {2}
  Capacity = 2
  BaseLoads = {0}
  PeerAmounts <- NoPeers
  MaxRequests = 1
PROPERTIES RequestsAnswered
CHECK_DEADLOCK FALSE
