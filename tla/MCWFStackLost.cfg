SPECIFICATION Spec
CONSTANTS
  NumThreads = 2
  END = 3
  Elems = {n1, n2, o1, o2, o3, h1, h2, h3, h4}
  Nodes = {n1, n2}
  Ops = {o1, o2, o3}
  Helpers = {h1, h2, h3, h4}
  Null = Null
  Fail = Fail
  LIMIT = 0
  HELP_DELAY = 0
  MaxCalls = 3
SYMMETRY Symmetry
INVARIANTS LiveIsReachable
