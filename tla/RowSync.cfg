SPECIFICATION FairSpec
CONSTANTS
  None = None
  MaxFaults = 1
  MaxOpen = 1
  b1 = b1
  k1 = k1
  btc = btc
  BinanceTrades = {b1}
  KucoinTrades = {k1}
  Coins = {btc}
  CoinOf <- OneCoin
INVARIANTS
  TypeOK
  HistoryCorrects
PROPERTIES
  KucoinKeepsLive
  StaleRowEnds
