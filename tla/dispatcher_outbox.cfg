SPECIFICATION Spec
CONSTANTS
  Callers = {c1}
  Peers = {p1}
  QueueCap = 2
  MaxQueueSize = 3
  Levels <- LooseAndLooser
  InitialCL <- Looser
  MaxUpdates = 4
INVARIANTS Accounting StopLosesOnlyTheQueue
PROPERTIES ImplementsOutbox StopCompletes
