CONSTANTS
  t1 = t1
  t2 = t2
  t3 = t3
  r1 = r1
  r2 = r2
  Threads = {t1, t2}
  Resources = {r1}
  Requests <- AllRequests
  CellCount = 2
  Word = 8
  Starts = {0}
  MaxLocks = 4
SPECIFICATION Spec
INVARIANTS MutualExclusion
