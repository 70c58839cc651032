--------------------------- MODULE FollowupSignal ---------------------------
(***************************************************************************)
(* Follow-up alerts on Binance ("closed", "stops moved to BE", "TP1",      *)
(* "limit order cancelled") about trades on one coin, whose entries share  *)
(* the one position the exchange keeps per symbol.                         *)
(*                                                                         *)
(* A delivery runs process_update_signal (discord_bot/discord_bot.py) as a *)
(* task of its own; beside the tasks runs the audit that creates missing   *)
(* stop losses.  As in InitialSignal an action is the code from one        *)
(* network await to the next.                                              *)
(***************************************************************************)
EXTENDS Integers, FiniteSets

CONSTANTS
  Deliveries,   \* deliveries of alerts, duplicates included
  Alerts,       \* distinct contents: one alert_hash each
  Trades,       \* the trades on the coin
  StopIds,      \* stop losses the exchange can create: the bound on them
  None,
  MaxTakes,     \* resting take profits: the bound on them
  AlertOf,      \* the alert of a delivery
  TradeOf       \* the trade an alert refers to

ASSUME AlertAssumption ==
  /\ AlertOf \in [Deliveries -> Alerts]
  /\ TradeOf \in [Alerts -> Trades]
ASSUME FiniteAssumption == IsFiniteSet(Trades)
ASSUME StopAssumption == None \notin StopIds /\ MaxTakes \in Nat

\* A position is counted in units, two per entry, so that half of one exists.
Unit == 2
MaxPosition == Unit * Cardinality(Trades)

\* The canonical actions of ActionNormalizer; those with the same path
\* through the code share a name.
Closes == {"position_closed", "take_profit"}
Takes == {"take_profit_1", "take_profit_2"}
Actions == Closes \cup Takes \cup
           {"stop_loss_update", "limit_order_cancelled", "order_filled"}

VARIABLES
  pc,        \* where each delivery's task waits
  task,      \* the locals of each task
  seen,      \* alert hashes in the alerts table
  entry,     \* the entry order of each trade at the exchange
  pos,       \* the position of the coin; below zero it would be reversed
  stops,     \* live stop losses of the coin
  limits,    \* resting reduce-only LIMIT orders of take profits
  stopId,    \* stop_loss_order_id of each row
  closed,    \* rows with status CLOSED
  audit,     \* the stop loss audit
  unsure     \* history: alerts whose hash was not stored or not found

vars == <<pc, task, seen, entry, pos, stops, limits, stopId, closed, audit,
          unsure>>

Waiting == {"received", "parsing", "moving", "listing", "cancelling",
            "replacing", "creating", "taking", "withdrawing"}
\* withdrawn: a "limit order cancelled" that was processed.
Ended == {"processed", "withdrawn", "failed", "skipped", "lost"}

\* Labels at which a task is about to change something at the exchange.
Acting == {"listing", "cancelling", "replacing", "creating", "taking",
           "withdrawing"}

\* thenStop: the first part of tp1_and_break_even; size: the amount to close;
\* todo: the stops still to be cancelled.
Tasks == [thenStop : BOOLEAN, size : 0..MaxPosition, todo : SUBSET StopIds]
FreshTask == [thenStop |-> FALSE, size |-> 0, todo |-> {}]

Audits == [at : {"idle", "looking", "listing", "cancelling", "creating"},
           todo : SUBSET StopIds]
Idle == [at |-> "idle", todo |-> {}]

Trade(d) == TradeOf[AlertOf[d]]
Stored == {stopId[t] : t \in Trades} \ {None}

TypeOK ==
  /\ pc \in [Deliveries -> Waiting \cup Ended]
  /\ task \in [Deliveries -> Tasks]
  /\ seen \subseteq Alerts
  /\ entry \in [Trades -> {"resting", "filled", "canceled"}]
  /\ pos \in Int
  /\ stops \subseteq StopIds
  /\ limits \in 0..MaxTakes
  /\ stopId \in [Trades -> StopIds \cup {None}]
  /\ closed \subseteq Trades
  /\ audit \in Audits
  /\ unsure \subseteq Alerts

\* Trades as process_initial_signal leaves them: entry placed, a stop loss
\* created and its id stored, or neither.
Init ==
  /\ pc = [d \in Deliveries |-> "received"]
  /\ task = [d \in Deliveries |-> FreshTask]
  /\ seen = {}
  /\ entry \in [Trades -> {"resting", "filled"}]
  /\ pos = Unit * Cardinality({t \in Trades : entry[t] = "filled"})
  /\ stopId \in [Trades -> StopIds \cup {None}]
  /\ \A t, u \in Trades : t # u /\ stopId[t] = stopId[u] => stopId[t] = None
  /\ stops = Stored
  /\ limits = 0
  /\ closed = {}
  /\ audit = Idle
  /\ unsure = {}

-----------------------------------------------------------------------------
(* Shared steps *)

exchange == <<entry, pos, stops, limits>>
tables == <<seen, stopId, closed, unsure>>

GoTo(d, label) == pc' = [pc EXCEPT ![d] = label]
Set(d, t) == task' = [task EXCEPT ![d] = t]

End(d, label) == GoTo(d, label) /\ Set(d, FreshTask)

\* Faulty variant: the alert is taken up anew after its first part.
SucceedAgain(d) ==
  IF task[d].thenStop THEN GoTo(d, "parsing") /\ Set(d, FreshTask)
                      ELSE End(d, "processed")

\* One processed part: tp1_and_break_even goes on with the stop loss.
Succeed(d) ==
  IF task[d].thenStop
  THEN GoTo(d, "moving") /\ Set(d, FreshTask)
  ELSE End(d, "processed")

\* Ids the exchange may give to a new stop loss: never one still referred to.
Unused ==
  StopIds \ (stops \cup Stored \cup audit.todo \cup
             UNION {task[d].todo : d \in Deliveries})

\* Faulty variant: an order without reduce_only turns the position around.
Crossed(amount) == pos - amount

\* What a reduce-only order of this amount leaves of the position.
Reduced(amount) == IF amount >= pos THEN 0 ELSE pos - amount

-----------------------------------------------------------------------------
(* process_update_signal up to the first network await *)

\* Faulty variant: the hash is only looked up.
RememberLater(a) == UNCHANGED seen

\* store_alert_hash, before anything is done about the alert.
Remember(a) == seen' = seen \cup {a}

\* The hash is found, or the trader has no configuration that can be read.
Skip(d) ==
  /\ pc[d] = "received"
  /\ End(d, "skipped")
  /\ UNCHANGED <<exchange, tables, audit>>

\* The hash is not found, or its lookup failed and reads as "no duplicate".
Accept(d) ==
  LET a == AlertOf[d]
  IN /\ pc[d] = "received"
     /\ \/ /\ Remember(a)
           /\ unsure' = IF a \in seen THEN unsure \cup {a} ELSE unsure
        \/ UNCHANGED seen /\ unsure' = unsure \cup {a}
     /\ \/ GoTo(d, "parsing") /\ UNCHANGED task
        \/ Trade(d) \in closed /\ End(d, "skipped")
     /\ UNCHANGED <<exchange, stopId, closed, audit>>

-----------------------------------------------------------------------------
(* process_followup_signal and process_trade_update.  From the parsed alert *)
(* to the first call that changes something there are only reads, of the   *)
(* row and of the positions; the two that matter are the row's status and  *)
(* the size, and they are made in one step.                                *)

\* Actions validate_trade_for_followup wants a position for.
NeedPosition == {"position_closed", "take_profit_1"}

\* Faulty variant: the row's size is added to the position's.
SizesAdded(t, act) == {pos + Unit}

\* The sizes a valid update may go on with: the position's, or else the
\* row's.  A read of the positions that fails finds none.
Sizes(t, act) ==
  IF t \in closed \/ act \notin NeedPosition THEN {Unit}
  ELSE ({pos} \ {0}) \cup (IF act = "take_profit_1" THEN {Unit} ELSE {})

\* The parts of a parsed alert: the action, whether close_percentage is 50,
\* whether it is the first part of tp1_and_break_even.
Parts == {p \in [act : Actions, half : BOOLEAN, thenStop : BOOLEAN] :
            /\ p.thenStop => p.act = "take_profit_1"
            /\ p.half => p.act \in Closes}

\* What is left to do once the update is found valid.
Begin(d, p, size) ==
  LET amount == IF p.half THEN size \div 2 ELSE size
      go(label) == /\ GoTo(d, label)
                   /\ Set(d, [FreshTask EXCEPT !.thenStop = p.thenStop])
  IN \/ /\ p.act \in Closes
        /\ GoTo(d, "listing")
        /\ Set(d, [FreshTask EXCEPT !.size = amount])
     \/ p.act \in Takes /\ go("taking")
     \/ p.act = "limit_order_cancelled" /\ go("withdrawing")
     \/ /\ p.act = "stop_loss_update"
        /\ go(IF stopId[Trade(d)] = None THEN "creating" ELSE "replacing")
     \/ p.act = "order_filled" /\ End(d, "processed")

\* is_position_open looks at every symbol of the account and reads a failure
\* as "closed": both answers are possible whatever the coin's position.
Acknowledge(d, p) ==
  IF p.thenStop THEN GoTo(d, "moving") /\ Set(d, FreshTask)
  ELSE End(d, IF p.act = "limit_order_cancelled" THEN "withdrawn" ELSE "processed")

\* The alert is parsed by a language model: any action may come out.
Update(d, p) ==
  /\ pc[d] \in {"parsing", "moving"}
  /\ pc[d] = "moving" => p.act = "stop_loss_update"
  /\ Acknowledge(d, p) \/ \E size \in Sizes(Trade(d), p.act) : Begin(d, p, size)
  /\ UNCHANGED <<exchange, tables, audit>>

\* No such trade, no order id in its row, no known action, no position found,
\* no price.
Refuse(d) ==
  /\ pc[d] \in {"parsing", "moving"}
  /\ End(d, "failed")
  /\ UNCHANGED <<exchange, tables, audit>>

-----------------------------------------------------------------------------
(* _process_position_close *)

\* cancel_tp_sl_orders is given no ids, so it looks for every stop of the
\* coin; a failed listing is an empty one.
ListStops(d) ==
  /\ pc[d] = "listing"
  /\ \E found \in {stops, {}} : task' = [task EXCEPT ![d].todo = found]
  /\ GoTo(d, "cancelling")
  /\ UNCHANGED <<exchange, tables, audit>>

\* A cancellation that fails is logged, and the next one follows.
CancelStop(d) ==
  /\ pc[d] = "cancelling"
  /\ \E s \in task[d].todo :
       /\ task' = [task EXCEPT ![d].todo = @ \ {s}]
       /\ stops' \in {stops, stops \ {s}}
  /\ UNCHANGED <<pc, entry, pos, limits, tables, audit>>

\* The MARKET order for the size read at validation.  A failed call may have
\* been executed.
SellPosition(d) ==
  /\ pc[d] = "cancelling"
  /\ task[d].todo = {}
  /\ \/ /\ task[d].size > 0 /\ pos > 0
        /\ pos' = Reduced(task[d].size)
        /\ Succeed(d) \/ End(d, "failed")
     \/ UNCHANGED pos /\ End(d, "failed")
  /\ UNCHANGED <<entry, stops, limits, tables, audit>>

-----------------------------------------------------------------------------
(* The other actions of process_trade_update *)

\* _process_stop_loss_update cancels the stop its row names, whatever the
\* answer ...
ReplaceStop(d) ==
  /\ pc[d] = "replacing"
  /\ stops' \in {stops, stops \ {stopId[Trade(d)]}}
  /\ GoTo(d, "creating")
  /\ UNCHANGED <<task, entry, pos, limits, tables, audit>>

\* ... and creates another, whose id nobody stores.
CreateStop(d) ==
  /\ pc[d] = "creating"
  /\ \/ /\ \E s \in Unused : stops' = stops \cup {s}
        /\ Succeed(d) \/ End(d, "failed")
     \/ UNCHANGED stops /\ End(d, "failed")
  /\ UNCHANGED <<entry, pos, limits, tables, audit>>

PlaceTake(d) ==
  /\ pc[d] = "taking"
  /\ \/ limits < MaxTakes /\ limits' = limits + 1 /\ (Succeed(d) \/ End(d, "failed"))
     \/ UNCHANGED limits /\ End(d, "failed")
  /\ UNCHANGED <<entry, pos, stops, tables, audit>>

\* _process_limit_order_cancellation
WithdrawEntry(d) ==
  LET t == Trade(d)
  IN /\ pc[d] = "withdrawing"
     /\ \/ /\ entry[t] = "resting"
           /\ entry' = [entry EXCEPT ![t] = "canceled"]
           /\ End(d, "withdrawn") \/ End(d, "failed")
        \/ UNCHANGED entry /\ End(d, "failed")
     /\ UNCHANGED <<pos, stops, limits, tables, audit>>

-----------------------------------------------------------------------------
(* audit_open_positions_for_stop_loss; a failed read ends it for this time *)

tasks == <<pc, task>>

AuditStarts ==
  /\ audit.at = "idle"
  /\ pos # 0
  /\ audit' = [audit EXCEPT !.at = "looking"]
  /\ UNCHANGED <<tasks, exchange, tables>>

\* Faulty variant: any open order passes for a stop loss.
NeverMissing(found) == FALSE

\* _check_position_has_stop_loss answers no; a failed read finds nothing.
Missing(found) == found = {}

AuditLooks(found) ==
  /\ audit.at = "looking"
  /\ audit' = IF Missing(found) THEN [Idle EXCEPT !.at = "listing"] ELSE Idle
  /\ UNCHANGED <<tasks, exchange, tables>>

\* ensure_stop_loss_for_position: cancel what there is, one by one, ...
AuditLists ==
  /\ audit.at = "listing"
  /\ \E found \in {stops, {}} :
       audit' = [audit EXCEPT !.at = "cancelling", !.todo = found]
  /\ UNCHANGED <<tasks, exchange, tables>>

AuditCancels ==
  /\ audit.at = "cancelling"
  /\ \E s \in audit.todo :
       /\ audit' = [audit EXCEPT !.todo = @ \ {s}]
       /\ stops' \in {stops, stops \ {s}}
  /\ UNCHANGED <<tasks, entry, pos, limits, tables>>

AuditCancelled ==
  /\ audit.at = "cancelling"
  /\ audit.todo = {}
  /\ audit' = [audit EXCEPT !.at = "creating"]
  /\ UNCHANGED <<tasks, exchange, tables>>

\* ... and create one.
AuditCreates ==
  /\ audit.at = "creating"
  /\ \E s \in Unused : stops' = stops \cup {s}
  /\ audit' = Idle
  /\ UNCHANGED <<tasks, entry, pos, limits, tables>>

AuditFails ==
  /\ audit.at = "creating"
  /\ audit' = Idle
  /\ UNCHANGED <<tasks, exchange, tables>>

-----------------------------------------------------------------------------
(* The environment *)

EntryFills(t) ==
  /\ entry[t] = "resting"
  /\ entry' = [entry EXCEPT ![t] = "filled"]
  /\ pos' = pos + Unit
  /\ UNCHANGED <<tasks, stops, limits, tables, audit>>

\* Stops and take profits are reduce-only: with no position they expire.
StopTriggers ==
  /\ \E s \in stops, amount \in 1..MaxPosition :
       /\ stops' = stops \ {s}
       /\ pos' = Reduced(amount)
  /\ UNCHANGED <<tasks, entry, limits, tables, audit>>

TakeFills ==
  /\ limits > 0
  /\ limits' = limits - 1
  /\ \E amount \in 1..MaxPosition : pos' = Reduced(amount)
  /\ UNCHANGED <<tasks, entry, stops, tables, audit>>

\* Some other part of the program writes CLOSED.
RowCloses(t) ==
  /\ t \notin closed
  /\ closed' = closed \cup {t}
  /\ UNCHANGED <<tasks, exchange, seen, stopId, unsure, audit>>

\* The tasks of a process that ends are not resumed.
Restart ==
  /\ pc' = [d \in Deliveries |-> IF pc[d] \in Waiting \ {"received"}
                                 THEN "lost" ELSE pc[d]]
  /\ task' = [d \in Deliveries |-> FreshTask]
  /\ audit' = Idle
  /\ UNCHANGED <<exchange, tables>>

-----------------------------------------------------------------------------
Step(d) ==
  \/ Skip(d) \/ Accept(d)
  \/ (\E p \in Parts : Update(d, p)) \/ Refuse(d)
  \/ ListStops(d) \/ CancelStop(d) \/ SellPosition(d)
  \/ ReplaceStop(d) \/ CreateStop(d) \/ PlaceTake(d) \/ WithdrawEntry(d)

Audit ==
  \/ AuditStarts \/ (\E found \in {stops, {}} : AuditLooks(found)) \/ AuditLists
  \/ AuditCancels \/ AuditCancelled \/ AuditCreates \/ AuditFails

Environment ==
  \/ \E t \in Trades : EntryFills(t) \/ RowCloses(t)
  \/ StopTriggers \/ TakeFills \/ Restart

Next == (\E d \in Deliveries : Step(d)) \/ Audit \/ Environment

Spec == Init /\ [][Next]_vars

-----------------------------------------------------------------------------
(* Properties *)

\* Of the deliveries of one alert at most one gets past the duplicate check,
\* as long as the hash could be stored and read: the hash is written before
\* the alert is worked on, so an alert that failed, or whose task a restart
\* ended, is not worked on a second time either.
ActsOnce ==
  \A d, e \in Deliveries :
    d # e /\ AlertOf[d] = AlertOf[e] /\ AlertOf[d] \notin unsure =>
      pc[d] \in {"received", "skipped"} \/ pc[e] \in {"received", "skipped"}

\* Orders for a size read some awaits ago, sent by several tasks and racing
\* stop losses and take profits, never turn the position around, and nothing
\* but an entry adds to it.
Filled == {t \in Trades : entry[t] = "filled"}
WithinEntries == pos >= 0 /\ pos <= Unit * Cardinality(Filled)

\* The position of the coin as PositionContract has it, for entries that all go
\* the same way: whatever tasks, audit, stop losses and restarts do, each entry
\* adds its own contracts once, and nothing else adds to them.
Withdrawn == {t \in Trades : entry[t] = "canceled"}
Contract == INSTANCE PositionContract WITH
  Longs <- Trades, Shorts <- {}, Amount <- Unit, position <- pos,
  entered <- Filled, withdrawn <- Withdrawn
PositionHeld == Contract!Spec

\* A position without a stop loss does not stay so: the audit creates one, or
\* the position ends.
Reprotected == (pos > 0 /\ stops = {}) ~> (pos <= 0 \/ stops # {})

\* Every alert that is delivered is answered.
FollowupsEnd == <>(\A d \in Deliveries : pc[d] \in Ended)

\* Tasks are scheduled; the audit is started again and again, and a call to
\* the exchange that is made again and again succeeds again and again.
FairSpec ==
  /\ Spec
  /\ \A d \in Deliveries : WF_vars(Step(d))
  /\ WF_vars(Audit)
  /\ SF_vars(AuditStarts) /\ SF_vars(AuditLooks(stops)) /\ SF_vars(AuditLists)
  /\ SF_vars(AuditCancels) /\ SF_vars(AuditCancelled) /\ SF_vars(AuditCreates)
=============================================================================
