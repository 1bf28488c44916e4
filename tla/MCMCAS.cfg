SPECIFICATION Spec
CONSTANTS
  Threads = {t1, t2}
  Addrs = {1, 2}
  v0 = v0
  v1 = v1
  Values = {v0, v1}
  Requests <- AllRequests
  ReadAddrs = {1}
  Null = Null
  FAIL_CONST = FAIL_CONST
  LIMIT = 1
  MaxOps = 3
  ReadsBefore = 2
SYMMETRY Symmetry
INVARIANTS HelpGoesDown AssociatedStays AnswerIsOutcome NothingLeft NoUseAfterFree
PROPERTIES RefinesMCAS
CHECK_DEADLOCK FALSE
