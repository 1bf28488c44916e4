SPECIFICATION FairSpec
CONSTANTS
  NumThreads = 2
  END = 2
  Elems = {e1, e2}
  Null = Null
  Cells = {c1}
INVARIANTS TypeOK WatchedIsNeverFreed RetiredOnce NoStaleWatch
PROPERTIES RefinesReclamation CallsReturn
