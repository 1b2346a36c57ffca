SPECIFICATION Spec
CONSTANTS
  Nodes = {n1, n2}
  MaxOps = 2
INVARIANTS TypeOK NeverAhead
PROPERTIES NeverForgets Converges
