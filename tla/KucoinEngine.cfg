SPECIFICATION FairSpec
CONSTANTS
  s1 = s1
  s2 = s2
  f1 = f1
  f2 = f2
  Signals = {s1, s2}
  Followups = {f1, f2}
  TradeOf <- BothOnFirst
  SideOf <- OppositeSides
  Contracts = 2
  Assets = 1
  SameName = TRUE
  MaxAttempts = 2
INVARIANTS
  TypeOK
  AnswersTrue
  OneStopPerUpdate
  ClosedIsFlat
PROPERTIES
  PositionHeld
  TasksEnd
CHECK_DEADLOCK FALSE
