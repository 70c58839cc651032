CONSTANTS
  backfill = backfill
  stop_loss_audit = stop_loss_audit
  take_profit_audit = take_profit_audit
  order_monitor = order_monitor
  Order <- FourJobs
  Interval <- Intervals
  Raising = {backfill, order_monitor}
  StopAudit = stop_loss_audit
  TakeAudit = take_profit_audit
  Gap = 1
  Horizon = 7
  PassBound = 4
SPECIFICATION FairSpec
INVARIANTS TypeOK AuditsApart
PROPERTIES JobsRun TakeAuditRuns
