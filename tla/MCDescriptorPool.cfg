SPECIFICATION Spec
CONSTANTS
  NumThreads = 2
  Elems = {e1, e2, e3, e4}
  MIN_NODES = 1
  MAX_NODES = 2
  Null = Null
SYMMETRY Symmetry
INVARIANTS TypeOK CountsMatch InOnePlace
PROPERTIES RefinesReclamation
CHECK_DEADLOCK FALSE
