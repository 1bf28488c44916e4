CONSTANTS
  t1 = t1
  t2 = t2
  t3 = t3
  r1 = r1
  r2 = r2
  Threads = {t1, t2, t3}
  Resources = {r1}
  Requests <- AllRequests
  CellCount = 2
  Word = 8
  Starts = {6}
  MaxLocks = 4
SPECIFICATION Spec
PROPERTIES Granted UnlockReturns
INVARIANTS TypeOK InOrder
