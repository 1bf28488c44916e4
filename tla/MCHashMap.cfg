SPECIFICATION Spec
CONSTANTS
  Threads = {t1, t2}
  KEY_BITS = 4
  Keys = {0, 1}
  Values = {v1}
  PRIMARY_POW = 1
  SECONDARY_POW = 2
  Nodes = {n1, n2, n3}
  LIMIT = 1
  InitialSizes = {0}
  Null = Null
SYMMETRY Symmetry
INVARIANTS TypeOK OnItsPath NoUseAfterFree DeadStaysDead SizeAddsUp
PROPERTIES RefinesMap
