SPECIFICATION SafeSpec
CONSTANTS
  Nodes = {n1, n2}
  Deltas <- SmallDeltas
  MaxUpdates = 2
  Reliable = FALSE
  Connected = FALSE
SYMMETRY NodeSymmetry
INVARIANTS TypeOK NeverAhead OwnValueExact ReportedIsApplied
