SPECIFICATION FairSpec
CONSTANTS
  d1 = d1 d2 = d2 d3 = d3
  s1 = s1 s2 = s2
  c1 = c1
  t1 = t1 t2 = t2
  o1 = o1 o2 = o2 o3 = o3
  None = None
  Override = Override
  Deliveries = {d1, d2}
  Signals = {s1, s2}
  Coins = {c1}
  Traders = {t1, t2}
  OrderIds = {o1}
  SignalOf <- RivalSignalOf
  CoinOf <- RivalCoinOf
  TraderOf <- RivalTraderOf
  MaxRetries = 2
CHECK_DEADLOCK FALSE
PROPERTIES
  TasksEnd
