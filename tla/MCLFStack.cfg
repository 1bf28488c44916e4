SPECIFICATION FairSpec
CONSTANTS
  NumThreads = 2
  END = 1
  Elems = {e1, e2, e3}
  Null = Null
  Values = {v1, v2}
INVARIANTS NoUseAfterFree LiveIsReachable
PROPERTIES RefinesStack LockFree
