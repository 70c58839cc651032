----------------------- MODULE MaintenanceSchedulerMC -----------------------
(***************************************************************************)
(* Four of the fourteen jobs, in the order of the loop: the backfill and   *)
(* the monitor stand for those whose failures reach the loop.  The         *)
(* intervals of the audits and of the monitor are the code's.              *)
(***************************************************************************)
EXTENDS MaintenanceScheduler

CONSTANTS backfill, stop_loss_audit, take_profit_audit, order_monitor

FourJobs == <<backfill, stop_loss_audit, take_profit_audit, order_monitor>>

Intervals ==
  [j \in {backfill, stop_loss_audit, take_profit_audit, order_monitor} |->
     CASE j = backfill -> 2
       [] j = order_monitor -> 7
       [] OTHER -> 6]
=============================================================================
