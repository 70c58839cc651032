SPECIFICATION Spec
CONSTANTS
  d1 = d1 d2 = d2 d3 = d3
  s1 = s1 s2 = s2
  c1 = c1
  t1 = t1 t2 = t2
  o1 = o1 o2 = o2 o3 = o3
  None = None
  Override = Override
  Deliveries = {d1, d2, d3}
  Signals = {s1}
  Coins = {c1}
  Traders = {t1}
  OrderIds = {o1, o2}
  SignalOf <- DuplicateSignalOf
  CoinOf <- DuplicateCoinOf
  TraderOf <- DuplicateTraderOf
  MaxRetries = 2
SYMMETRY DuplicateSymmetry
CHECK_DEADLOCK FALSE
INVARIANTS
  TypeOK
  RowsConsistent
  SingleEntry
  OrdersTracked
  FailedMeansNoOrder
PROPERTIES
  ExecutedRowStable
  ContractHolds
