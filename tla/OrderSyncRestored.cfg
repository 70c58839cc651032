SPECIFICATION FairSpec
CONSTANTS
  r1 = r1
  s1 = s1
  s2 = s2
  s3 = s3
  Readers = {r1}
  Audit = Audit
  Entry = Entry
  Tp = Tp
  Stops = {s1, s2, s3}
  First = s1
  None = None
  EndKinds = {"EXPIRE_MAKER"}
  Heard = {"EXPIRE_MAKER"}
  MaxQueue = 1
PROPERTIES
  StopRestored
