CONSTANTS
  None = None
  d1 = d1
  d2 = d2
  a1 = a1
  t1 = t1
  t2 = t2
  Deliveries = {d1}
  Alerts = {a1}
  Trades = {t1}
  StopIds = {s1, s2}
  MaxTakes = 1
  AlertOf <- OneDelivery
  TradeOf <- OneTrade
SPECIFICATION FairSpec
PROPERTIES Reprotected FollowupsEnd
CHECK_DEADLOCK FALSE
