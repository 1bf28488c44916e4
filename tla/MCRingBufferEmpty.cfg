SPECIFICATION Spec
CONSTANTS
  Threads = {t1, t2}
  Values = {a, b, c}
  capacity_ = 2
  LoadOrders = {"tail"}
  NoValue = NoValue
  MaxTicket = 5
SYMMETRY Symmetry
PROPERTIES RefusedWhenEmpty
CHECK_DEADLOCK FALSE
