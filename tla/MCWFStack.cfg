SPECIFICATION Spec
CONSTANTS
  NumThreads = 2
  END = 3
  Elems = {n1, n2, o1, o2, h1, h2, h3}
  Nodes = {n1, n2}
  Ops = {o1, o2}
  Helpers = {h1, h2, h3}
  Null = Null
  Fail = Fail
  LIMIT = 1
  HELP_DELAY = 1
  MaxCalls = 3
INVARIANTS RecordsOutliveHelp DoneWhenWithdrawn HelperLeaves
PROPERTIES DecidedOnce NobodyWaits
