SPECIFICATION Spec
CONSTANTS
  NumThreads = 3
  END = 3
  Elems = {n1, o1, o2, o3, h1, h2, h3}
  Nodes = {n1}
  Ops = {o1, o2, o3}
  Helpers = {h1, h2, h3}
  Null = Null
  Fail = Fail
  LIMIT = 0
  HELP_DELAY = 0
  MaxCalls = 3
SYMMETRY Symmetry
INVARIANTS WatchedIsNeverFreed
