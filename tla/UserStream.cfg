SPECIFICATION FairSpec
CONSTANTS
  MaxAttempts = 2
  MaxOrphans = 2
CHECK_DEADLOCK FALSE
INVARIANTS
  TypeOK
  ConnectedHasReader
PROPERTIES
  NoSocketAfterStop
  LossIsRepaired
