SPECIFICATION SafeSpec
CONSTANTS
  Handlers = {h1, h2}
  Background = bg
  Threads <- AllThreads
  NoThread = nobody
  Servers = {s1}
  Global = pool
  Costs = {2}
  Releases <- SmallReleases
  Capacity = 2
  BaseLoads = {0, 1}
  PeerAmounts <- SmallPeers
  MaxRequests = 3
SYMMETRY HandlerSymmetry
INVARIANTS TypeOK PoolNotOversold PoolWithinCapacity ServerOvershootBound LoadCoversAllocations
CHECK_DEADLOCK FALSE
