SPECIFICATION Spec
CONSTANTS
  Threads = {t1, t2, t3}
  Values = {a, b, c}
  capacity_ = 2
  LoadOrders = {"head"}
  NoValue = NoValue
  MaxTicket = 4
SYMMETRY Symmetry
INVARIANTS TypeOK NothingStranded
PROPERTIES PositionsMoveOn RefusedWhenEmpty FIFO
CHECK_DEADLOCK FALSE
