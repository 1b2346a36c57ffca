SPECIFICATION Spec
CONSTANTS
  Nodes = {n1, n2}
  Deltas <- OneDelta
  MaxUpdates = 2
  Reliable = TRUE
  Connected = TRUE
PROPERTIES EventuallyConsistent
