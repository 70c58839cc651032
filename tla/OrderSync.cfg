SPECIFICATION Spec
CONSTANTS
  r1 = r1
  s1 = s1
  s2 = s2
  s3 = s3
  Readers = {r1}
  Audit = Audit
  Entry = Entry
  Tp = Tp
  Stops = {s1, s2}
  First = s1
  None = None
  EndKinds = {"REJECTED", "EXPIRE_MAKER"}
  Heard = {"PARTIALLY_FILLED", "FILLED", "CANCELED", "REJECTED", "EXPIRED", "EXPIRE_MAKER"}
  MaxQueue = 2
INVARIANTS
  TypeOK
  PairsLegal
  RowNotAhead
  OneStop
