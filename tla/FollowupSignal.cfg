CONSTANTS
  None = None
  d1 = d1
  d2 = d2
  a1 = a1
  t1 = t1
  t2 = t2
  Deliveries = {d1, d2}
  Alerts = {a1}
  Trades = {t1, t2}
  StopIds = {s1}
  MaxTakes = 1
  AlertOf <- TwoDeliveries
  TradeOf <- OneTrade
SPECIFICATION Spec
SYMMETRY DuplicateSymmetry
INVARIANTS TypeOK ActsOnce
PROPERTY PositionHeld
CHECK_DEADLOCK FALSE
