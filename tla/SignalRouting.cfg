SPECIFICATION Spec
CONSTANTS
  None = None
  s1 = s1
  f1 = f1
  bin = bin
  kuc = kuc
  Signals = {s1}
  Followups = {f1}
  TradeOf <- OneTrade
  Configs = {bin, kuc}
  MayHold <- Contents
  ExchangeOf <- BothExchanges
  Names = {"@-Tareeq", "@-tareeq"}
  OtherTraders = {"@-tareeq"}
  Given = "@-Tareeq"
  Lower <- Lowered
  Finds <- Tareeq
  Legacy = "binance"
  TTL = 2
  RuntimeTTL = 1
INVARIANTS
  TypeOK
  QuietTradesAgree
  QuietFollowupsReach
PROPERTY FreshReads
CHECK_DEADLOCK FALSE
