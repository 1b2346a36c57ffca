SPECIFICATION Spec
CONSTANTS
  Nodes = {n1, n2, n3}
  Deltas <- SmallDeltas
  MaxUpdates = 1
  Reliable = TRUE
  Connected = TRUE
INVARIANTS AgreeWhenQuiet
PROPERTIES EventuallyConsistent
