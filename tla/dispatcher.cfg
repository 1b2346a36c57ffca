SPECIFICATION SafeSpec
CONSTANTS
  Callers = {c1, c2}
  Peers = {p1}
  QueueCap = 4
  MaxQueueSize = 1
  Levels <- OffAndTight
  InitialCL <- Tight
  MaxUpdates = 4
INVARIANTS TypeOK QueueBound StalenessBound Accounting
