# A TLA+ verification of BuyBot

BuyBot receives trading signals that a Discord service forwards over HTTP,
parses them with an AI model, opens futures positions on Binance (or KuCoin),
and keeps a Supabase table `trades` in step with the exchange through a user
data stream, periodic audits and reconciliation jobs.  All of it is one asyncio
process.  The database client is synchronous, so the points at which two pieces
of work can interleave are the awaits of the network (exchange, AI, Telegram),
of timers and of tasks; an action of a module is the code between two of them.

Paths below are relative to the repository: `src/bot` is the package `src`,
`discord_bot` the service around it.

## 1. Inventory

| Component | State it keeps | Operations | What is hard about it | Module |
|---|---|---|---|---|
| Status vocabulary and validation (`src/core/status_manager.py`, `src/database/validators/status_validator.py`) | none; the rules for the columns `order_status` and `status` | map a status of the exchange, check a pair, fix a pair, validate an update | updates that carry one of the two columns, NULL columns | `TradeStatus` |
| Initial signals (`discord_bot/discord_bot.py`, `src/bot/signal_router.py`, `src/bot/signal_processor/initial_signal_processor.py`, `src/exchange/binance/binance_exchange.py`, `discord_bot/database/operations/trade_operations.py`) | a row per `discord_id`, the shared engine's trader, leverage per symbol, cooldown per coin, the orders at the exchange | save, parse, route, check, size, submit, retry, store the response or the failure | redelivery, overlapping tasks, lost answers, lost writes, shared context read after awaits, unbounded retry | `InitialSignal` |
| User data stream (`src/websocket/core`) | running flag, connection table, one state record per connection, reconnect tasks, heartbeat task | start, heartbeat, reconnect, read, stop | three tasks open the same connection, replaced state records, graceful closes, attempts used up | `UserStream` |
| Order synchronisation (`src/websocket/sync/database_sync.py`, `src/websocket/handlers/user_data_handler.py`) | the row's statuses, `exchange_order_id`, `stop_loss_order_id`, the two JSON responses | match an execution report to a row, update the row, recreate an expired stop loss | which order of a trade a report is about, reports before the id is stored, awaits with a stale row | `OrderSync`; `InitialSignal` (fills before the id is stored) |
| Order monitor (`src/bot/order_management/order_monitor.py`) | the rows of open trades; a task per entry | poll every order, watch an entry for an hour, write its status | writes a vocabulary the validator refuses | `OrderSync` |
| Stop losses (`src/bot/risk_management/stop_loss_manager.py`) | stop orders at the exchange, `stop_loss_order_id` | create, cancel then create, audit | the window without a stop, duplicates, restarts | `OrderSync` (recreation and audit), `FollowupSignal` (audit beside follow-ups) |
| Creation of take profits and stop losses (`take_profit_manager.py`, `order_creator.py`) | reduce-only orders | create beside the entry, audit | shares of the position | not modelled: numbers `FollowupSignal` abstracts |
| Follow-up signals (`src/bot/signal_processor/followup_signal_processor.py`, `process_update_signal`, `src/bot/trading_engine.py`) | alert hashes, the row an alert refers to, the position of the coin | close, partly close, move the stop, withdraw the entry | alerts twice, on a closed row, sizes read before awaits, a cancelled stop not replaced | `FollowupSignal` |
| Row synchronisation (`discord_bot/utils/trade_retry_utils.py`, `src/core/unified_status_updater.py`, `src/services/reconciliation_service.py`) | none; snapshots of orders, positions and rows for one job | adopt open orders, activate, close, correct from the history, mend closed rows | stale snapshots, failed reads that look empty, windows of days and hours, names of coins and pairs | `RowSync` |
| Scheduler (`discord_bot/main.py`) | last start of each job | run the jobs that are due, in order, one at a time | a slow or failing job delays the others, two audits that must keep apart | `MaintenanceScheduler` |
| KuCoin execution (`src/bot/kucoin_trading_engine.py`, `src/exchange/kucoin/kucoin_exchange.py`) | cooldowns, `position_size` of rows, the one position of a contract | entry, close, partial close, stop loss with retries | units of sizes, stale sizes, lost answers, stops it does not recognise | `KucoinEngine` |
| Trader configuration (`src/services/trader_config_service.py`, `src/config/runtime_config.py`, its endpoints, `signal_router.py`) | the table `trader_exchange_config`, two caches, the trader each engine was told last | look up, fall back, create, delete, clear | the same question asked three times with awaits between, engines shared by all traders, two caches, spellings | `SignalRouting` |
| Closing (`position_close_service.py`, `transaction_manager.py`) | none in the service | ordered steps with rollback | - | not modelled: only testing scripts call the one, nothing the other |
| Position conflicts and merging (`src/bot/position_management`) | - | detect, merge, reject | - | not modelled: unreachable |
| Active futures sync (`src/services/active_futures_sync_service.py`) | a table another program writes | match, close | - | not modelled: its close always raises |
| Position reconciliation (`src/services/position_reconciliation.py`) | - | compare | - | not modelled: imported by nothing |
| Alert parser, alert deduplication, prices, market data, PnL, fees, analytics | caches of texts and numbers | read, compute | floating point, wording | not modelled: values the modules abstract |
| Notifications, Telegram, event dispatch, database wrappers, endpoints, scripts | none another part reads | send, receive | none | not modelled: output, input, manual tools |

How the parts interact.  The endpoint `POST /api/v1/discord/signal` starts a background
task per delivery.  The task writes the row, calls the router, which sets
the trader on the one engine of the process, and the engine's
processor talks to the exchange.  The exchange reports what happens to orders on
the user data stream; the stream's reader dispatches a report to
`DatabaseSync`, which looks for a row that stores the order id and updates its
statuses.  The rows are the only thing both sides share, and every writer of the
status columns goes through `StatusValidator`, except one write of
`DatabaseSync`.  The scheduler's jobs read the rows and the exchange and correct
either.

What makes each component correct:

- Status rules: every mapped status is a legal pair, and no accepted update
  leaves an illegal pair, whichever of the two columns it carries.
- Initial signals: at most one entry per signal, every live entry known to its
  row or to the task about to store it, a failed row without an order, an
  executed row never set back, every task ends; in short the contract of an
  entry, `EntryContract`.
- Stream: connected means somebody reads, a lost stream comes back, a stopped
  manager is quiet.
- Order synchronisation: the row is never ahead of the exchange, an expired stop
  loss is replaced and only one lives.
- Follow-ups: one delivery of an alert acts; whatever size it read, the position
  is not turned around; a position that lost its stop loss gets one again.
- Row jobs: what a job leaves agrees with the exchange if nothing disturbed it; a
  row that outlived its position is corrected in the end.
- Scheduler: the two audits never in one pass, every job again and again.
- KuCoin: an answer tells the truth about the order, closes only reduce, retries
  place one stop loss, done means flat.
- Trader configuration: nothing is sized or levered by a configuration that left
  the table a lifetime ago; row, order and follow-up name one exchange.

## 2. Plan

All modules of the plan are written: `TradeStatus`, `InitialSignal`,
`UserStream`, `OrderSync`, then `EntryContract` with the refinement
`InitialSignalContract`, `FollowupSignal`, `MaintenanceScheduler`, `RowSync`,
`KucoinEngine`, `SignalRouting`, and `PositionContract`, which two of them
implement.  Every module with state has a module of proofs.  No module declares a
RECURSIVE operator: counters and folds suffice.

`TradeStatus` is extended by every module that writes the two status columns
(`InitialSignal`, `OrderSync`, `RowSync`); the other modules meet through what
they share with the code: the row and the orders.  What is a whole module in one
place is an environment action in another: the fill that `OrderSync` handles is
`RowCloses` in `FollowupSignal` and `Reports` in `RowSync`, the audit of
`OrderSync` runs beside the follow-ups in `FollowupSignal`, and the jobs of
`RowSync` are jobs of the loop of `MaintenanceScheduler` and `JobStoresSize` in
`KucoinEngine`.

What is left: the restart between an order and the write of its id composed
with `RowSync`; two symbols in the cancellation of stop losses.

## 3. Modules

### TradeStatus

Operators only.  `MapExchangeToInternal` is `map_exchange_to_internal`,
`ValidPairs` the set `valid_combinations`, `FixPosition` the corrections of
`fix_inconsistent_status`.  `UpdateRefused` and `UpdatedPair` are the two outcomes of
`validate_trade_update`: an absent key is taken from the row, a pair is checked
when both columns are known, a correction is tried, and an update that carries
an order status for a row whose position status is NULL gets the mapped one.
`Unset` is both NULL and an absent key.

### InitialSignal

| Code | Model |
|---|---|
| a background task of `process_initial_signal` | `pc[d]`, `task[d]` |
| row of `trades` by `discord_id` (unique) | `row[s]`; status `Unset` means no row |
| locals size, leverage, retry_count, entry order id, retried | the fields of `task[d]` |
| `trading_engine.trader_id` | `engineTrader` |
| leverage of the symbol at the exchange | `leverage[c]` |
| `trade_cooldowns` and the clock | `cooling[c]`, ended by `CooldownEnds` |
| orders at the exchange, and whether a fill's report is on its way | `ord[o]` |

Labels are the awaits: `received` (the task is scheduled), `parsing` (the AI),
`checking` (symbol, price, filters, balance), `sized` (position limits),
`leverage`, `market` / `limit` / `converting` (an order is being submitted),
`protecting` (TP and SL orders).  The row is inserted without an order status,
so `Unset` and PENDING are the first pair.  The `asyncio.Lock` around the
cooldown check contains no await and so never makes a task wait; it is left out.
`client_order_id` is accepted by `create_futures_order` and not passed on by
`_execute_trade`, so the exchange creates a second order for a second
submission: `SubmitAnswerLost` followed by a retry is that case.

The history variable `clean[s]` becomes FALSE when two deliveries of `s`
overlap, when an answer of the exchange is lost after the order was created, or
when the final write of the order id is lost.  It is read by properties only.
Properties that say `clean[s] =>` hold exactly up to those three events, and
each of the three alone breaks them.

### EntryContract and InitialSignalContract

`EntryContract` is what the rest of the program may rely on about a signal's entry,
without tasks, awaits or writes: `Enter` (an order at the exchange, the only one),
`Store` (its id is kept), `Learn` (the row says executed, after the fill), `FailSignal`
(only without an order), `TryAgain`, and `Void`, after which nothing is promised.
`InitialSignalContract` maps the state of `InitialSignal` to it: `Held` are the
signal's orders, `Kept` the id in its row, `Outcome` what the row says when nobody
works on it.  `Void` is the step in which `clean[s]` becomes FALSE.
`ContractHolds` is the refinement; TLC checks it, and it is proved.

### PositionContract

What both engines promise about the one position an exchange keeps per coin: a
trade enters once, with its whole amount and in its direction (`Enter`), or never
(`Withdraw`), and whatever else is sent takes the position nearer to zero and no
further (`Reduce`).  Nothing of tasks, reads, retries and racing orders is in it.
`FollowupSignal` implements it with its trades as `Longs` and two units each; entered are
the trades whose entry was filled, withdrawn those whose entry was cancelled.
`KucoinEngine` implements it with its signals on both sides and one contract
each; an entry that KuCoin ended without a fill is withdrawn.  `PositionHeld` is the refinement in both:
TLC checks it, and it is proved.

### UserStream

| Code | Model |
|---|---|
| `WebSocketManager.running`, `ConnectionManager.running` | `running` (they change together) |
| `start()` and later `stop()` | `pc` |
| `_heartbeat_monitor` | `hb` |
| `connections["user_data"]` and its reader | `cur` |
| `connection_states["user_data"]` | `st` |
| `reconnect_tasks["user_data"]`, with the record it read | `rt` |
| sockets that were replaced while open, each with its reader | `orphans`, a count |

`create_connection` stores a fresh state record before it awaits the connect;
a reconnection under way keeps the one it read (`rt.stale`).  The manager is
started once and stopped once by the service's lifespan (`discord_bot/main.py`),
which is why `Init` is before `start()` and nothing follows `stopped`.  Closing
a socket is assumed not to raise.  Listen keys are a step that succeeds or
fails.

### OrderSync

| Code | Model |
|---|---|
| `order_status`, `status`, `stop_loss_order_id` of the row | `row` |
| order ids that occur in `exchange_response` and `sync_order_response` | `mentioned` |
| the entry order, exit orders and position at the exchange | `entry`, `live`, `position` |
| messages of the stream a reader has not handled | `queue[r]` |
| a recreation (in a reader) or the audit | `guard[a]` |

`Init` is the moment after `update_trade_with_original_response`: the row mentions
the entry, the take profit and the stop loss placed with it.  A reader handles one message
at a time (`Drop`, `Apply`, `BeginRecreation`), and only the recreation of a stop
loss contains awaits; while it waits, the messages behind it queue.  The
write of a report replaces both responses by the report, so after it `mentioned` holds
one order.  `find_trade_by_order_id` looks for the id inside the two texts;
`Found` treats an id that is contained in another one as a different id.

`StopLossManager` is written once and run by a reader and by the audit: the
position is looked up (`FindsOpen`, `FindsClosed`), the audit looks for a stop
loss (`Looks`, `LookFails`), the open stop losses are listed (`Lists`,
`ListFails`) and cancelled one by one (`Cancels`, `CancelFails`), and one is created (`Creates`,
`CreateFails`).  A failed query is an empty list in the code, a failed cancellation a
non-empty pair that counts as success; both make the history variable `calm` FALSE,
and so does a list taken while another guard is between its list and its creation.
`OneStop` says that nothing else leads to a second stop loss.  The monitor's
poll is the write of its result: a fill is written as FILLED / OPEN, a cancellation as
CANCELED / FAILED, both of which the validator refuses, so only a rejected
entry changes the row.  `MonitorsEntry` is the same write by `monitor_order`, a
task of its own that the entry starts, beside all the others.

### FollowupSignal

| Code | Model |
|---|---|
| a background task of `process_update_signal` on Binance | `pc[d]`, `task[d]` (action, sizes and ids it has read) |
| alert hashes of the table `alerts` | `seen` |
| entry order, position, stop losses and take profits of the coin at the exchange | `entry`, `pos`, `stops`, `limits` |
| `stop_loss_order_id` of the row, `status` CLOSED | `stopId`, `closed` |
| `audit_open_positions_for_stop_loss` | `audit` |

The trades are all on one coin, because Binance keeps one position per symbol and
what one trade's follow-up does to another trade's contracts is the question.  The
labels are the awaits of `process_trade_update` and of the processors it calls.
`Sizes` are the amounts the code may take from the row or the exchange at validation; the order
is sent some awaits later, reduce-only, and `Reduced` is what the exchange makes of
it.  A failed list of stop losses is an empty one; a failed cancellation does not
stop the update.  The duplicate check stores the hash before the work
(`Remember`), and a lookup that fails counts as "not seen"; both failures
put the alert into `unsure`.

### RowSync

| Code | Model |
|---|---|
| `order_status`, `status`, `closed_at`, `exchange_order_id` of the rows | `row`, `closedAt`, `linked` |
| entry orders and positions at the exchanges | `order`, `live` |
| what the stream's handler is about to write | `report` |
| the job that runs, and the snapshots and rows it has read | `at`, `job` |
| calls and writes that fail, jobs cut off | `faults`, up to `MaxFaults` |
| rows created within the last seven days | `recent`, left by `Ages` |

Three jobs, which read the rows of the last seven days only.  `sync_trade_statuses_with_binance` takes open orders and positions
(`Starts`, `Fetches`), closes rows without a position (`Gone`, `MustClose`, `Asks`,
`Closes`) and then looks up the history of each closed row (`LooksUp` to
`StoresHistory`).  `sync_trade_statuses_with_kucoin` adopts open orders, activates
rows of positions, closes and fails others.  `reconcile_closed_trades`, every six
hours, repairs CLOSED rows with an illegal pair (`Reconciles`): NEW asks the exchange
(`Mends`), anything else is rewritten from the pair the job has read at its start
(`Rewrites`), however old that is.  `ForcedPair` is `update_trade_status_safely`
with `force_closed`.  Adoption of an order by symbol and time supposes that there is
at most one KuCoin trade of a coin within the ten minutes of the window.

`Gone` compares coins on KuCoin, and on Binance coins with pairs; so on Binance
every ACTIVE or PENDING row counts as one without a position.  The history step undoes it
for orders it is shown as new or filled (`job.found`, `HistoryCorrects`), where the fault
remains in `closed_at` only, which nothing clears.  It does not undo it for an order that
is filled in part, which the step passes over, nor for one that is not among the ten the
call answers of the last 48 hours: such a row says CLOSED while its position is open,
after every daily job until it is seven days old, and then for good.  Both are behaviours of
the module (`LooksUp` may find nothing), and no disturbance: `steady` stays TRUE.
A row older than seven days is read by no job, so `StaleRowEnds` excepts it.

### MaintenanceScheduler

`age[j]` is `current_time - last_<job>`, `at` the job the pass has come to, `took`
the time since the pass read the clock.  Jobs run one after the other inside the
pass; a timer is set to the time the pass *began* with.  A job of `Raising` may raise
into the loop's own handler, which leaves its timer as it was.  The take profit audit waits for `Gap`
after the stop loss audit in addition to its interval.

### KucoinEngine

| Code | Model |
|---|---|
| `process_signal`, its cooldown | `pc[s]`, `cooling` |
| the entry order, the position of the contract, stop losses | `order`, `pos`, `stops` |
| `position_size` of the row | `size` |
| `process_followup_signal`, `close_position_at_market` | `fc[f]`, `task[f]` |

Orders of the SDK are submitted without an await, so submission and its evaluation are one action, and
a lost answer is `SubmitAnswerLost`.  `Contracts` and `Assets` are the multiplier as a fraction:
the size of a close goes through `Rounded`, `AtLeastOne`, `FromRow`, `FromPosition` the way the
code converts it, including the division of a number that is in contracts already.  KuCoin's
reduce-only (`Reduced`) stops at zero.  `JobStoresSize` writes the whole position of
the coin into the row of a trade, as the job does.  `SameName` says whether the contract is called
after the coin; Bitcoin's (XBTUSDTM) is not, and is never found.  Stop losses
are listed with type `market` and looked for as STOP or STOP_MARKET, hence `Recognised` is
FALSE and none is cancelled; the module says so rather than assume that a
stop is replaced.

### SignalRouting

| Code | Model |
|---|---|
| `trader_exchange_config` | `db`, rows by spelling of the name |
| `TraderConfigService._config_cache`, `RuntimeConfig`'s cache | `cache`, `runtime`, each with its age |
| `trader_id` of the two engines | `engine` |
| `process_initial_signal` from the gate to the order | `pc`, `trade` (exchange of the row, engine, size, leverage) |
| `process_update_signal` | `fc` |

The signals and follow-ups of one trader, `Given`, among those of any others.  A signal asks
for the exchange in the bot (row) and in the router, which tells the engine of that exchange the
trader (`HandTo`); the engine then asks for size and leverage of whomever it was told last, with
awaits between.  An edit, a clock tick or another trader's signal (`RouteOther`) may fall
into each; `overtaken` are the signals to whose engine that happened.  The others' own orders are not
followed: their reads fill the caches (`ReadByOthers`).  When Binance's engine suggests another size, the
signal is routed once more with it (`RouteAgain`) and asks for no size.  `Read` is `get_trader_config` with its cache: no row
and a failed read are both answered with nothing, which is not cached, and
`get_exchange_for_trader` then falls back to a fixed exchange (`Legacy`).  An edit through the endpoint clears one spelling's
entry, a deletion removes the rows of all, an edit by hand none.  KuCoin asks for
leverage with the name in lower case (`Lower`), which a row called `@-Tareeq`
is not found by.  `FreshReads` is about the moment of a read; the order is submitted some awaits later.

## 4. Runs

| Run | Shows |
|---|---|
| `signal_redelivered` | one signal, three deliveries, overlapping or one after the other: types, legal pairs, at most one entry, tracked orders, failed rows without orders, executed rows stable, the contract of an entry |
| `signal_ends` | two signals of two traders on one coin: every task ends, or the exchange keeps expiring the LIMIT order and refusing its conversion |
| `followup` | one alert delivered twice beside another trade's entry on the coin, with stops, take profits, the audit, restarts and failing calls: it acts once, and the position keeps its contract, so that it is never turned around |
| `followup_fair` | an update that cancels stop losses and fails half way leaves a position without one until the audit creates it; every delivery is answered |
| `stream` | the stream under fairness: types, connected means read, quiet after stop, a known loss is repaired |
| `sync` | the reports but NEW, recreations, audits, both kinds of polls and restarts of one trade: types, legal pairs, a row that is not ahead of the exchange, one stop loss |
| `sync_restored` | stop losses expire, recreations and audits replace them at the same time: an open position gets its stop loss again |
| `scheduler` | the two audits are never in one pass; every job runs again and again, also beside jobs that raise or take long |
| `rows` | the three jobs over one Binance and one KuCoin row of a coin, the exchanges and other writers going on, rows getting old, one fault: what undisturbed jobs leave agrees with the exchange, on Binance as far as its history shows the order; a row that outlived its position is corrected while a job reads it |
| `rows_closed` (violation) | the Binance job closes the row of a position that is open, although trade_retry_utils.py:1035 says it closes those whose position is no longer active |
| `kucoin` | two trades of opposite sides on one contract and two follow-ups about the first: answers are true, retries leave one stop, the position keeps its contract, so that closes only reduce, done is flat, all is answered |
| `routing` | a signal and a follow-up while the trader's configuration is created, deleted and edited under two spellings, among signals that come with the other one: no configuration is read longer than the caches allow; row, order and follow-up agree while nothing is edited, size and leverage while no other trader's signal overtakes the order |

Bounds.  Three deliveries of one signal: two are every overlap of two
tasks, the third comes after any outcome of both; the deliveries are symmetric.
Two order ids are what a violation of `SingleEntry` needs; `MaxRetries = 2` is the
code's own `max_retries`.  `signal_ends` keeps
one order id: a second would add orders, not ways for a task to wait.
`MaxAttempts = 2` of the stream stands for 10 and has a first, a middle and a last attempt;
the count of replaced sockets saturates at `MaxOrphans = 2`, "two or more", and
going down from there may stay, so no behaviour is cut off.

`sync` has one reader, two ids of stop losses and queues of two reports: with
two, a report overtaken by a write of a recreation and one behind it are both
there, and an id nothing refers to any more is used again, so that creations never end.  It ends orders
with REJECTED, the only end the monitor can write, and EXPIRE_MAKER, the only
one that recreates; CANCELED comes from the guards, and EXPIRED is mapped like
it.  Reports of NEW are not heard: they write NEW / PENDING, which neither makes the row run
ahead nor is an inconsistent pair, and would double the states.  Any number of readers and all
kinds of reports are covered by the theorems.
`sync_restored` has three ids, since the row may keep one and the
responses another that are both dead, and hears of EXPIRE_MAKER only: the row's status has no
part in the question.

`followup` has two trades, so that a position can hold contracts a follow-up has no
business with, and one stop loss id, freed and used again; `followup_fair` one delivery and two ids, so that an
old and a new stop exist at once.  A position counts two units per entry: a half
exists, no property tells smaller shares apart.  `scheduler` counts in ticks of
five minutes with the intervals of the code; `Horizon = 7` is the longest, and nothing tells longer times apart.
`PassBound = 4` is twenty minutes, longer than `Gap` and shorter
than an audit's interval.  `rows` starts with at most one trade that has not
ended (`MaxOpen`) and has one fault: the row of the other exchange is what the first is
mistaken for, and a second fault adds no state the job can be in, since the properties about its
results ask for none, and `StaleRowEnds` meets it again after the one.
`kucoin` has the multiplier 1/2, for which both a division too many and a multiplication too many
show.  `routing` has a lifetime of two ticks for the one
cache and one for the other, so that either can be fresh while the other is not.  Its other trader comes
with the lower-case spelling, which finds KuCoin's row or none: it overtakes on either engine, and
then sizes and levers by another row or by the default.

Deadlock is not checked (`CHECK_DEADLOCK FALSE`) where the systems really
stop: deliveries are finite and their tasks end; a stopped manager with no
socket does nothing.  `TasksEnd`, `FollowupsEnd` and `LossIsRepaired` say that they do not stop
too early.

Fairness.  Weak fairness of each task's step: asyncio runs a ready task, and
every call of the exchange client has a timeout, so an await is eventually
answered, whatever the answer.  No fairness is assumed of the exchange's
choices in `InitialSignal` and `KucoinEngine`.  For the stream, the heartbeat is weakly fair for the same reason;
strong fairness of `HeartbeatGetsKey` and `HeartbeatConnects` says that the
exchange does not refuse every attempt for ever, without which no client could
repair anything.  The reconnection needs no fairness.  In `OrderSync` the readers
are weakly fair, and so is the begin of an audit, which the scheduler repeats
every half hour.  The steps of an audit are strongly fair, in `OrderSync` and in `FollowupSignal`: a restart, or an exchange that does not
show the position (`FindsOpen`) or refuses the order (`Creates`), may meet any audit at any
step, but not every audit at the same one for ever.  Nothing is assumed of
reports.  In `MaintenanceScheduler` a pass goes on, a job started ends, time passes while
the loop sleeps, and a job that raises does not do so for ever (strong fairness of its `Finish`).
In `RowSync` a job goes on (weak) and each exchange's job is started again and again (strong, which
is `JobsRun`); the bound on faults is what keeps an exchange from failing for
ever.

## 5. Proofs

For every value of the constants, under the named assumptions of the modules
(signals of deliveries, coins and traders of signals are functions of the right
type; `MaxRetries`, `MaxAttempts` natural; `MaxOrphans` positive; `None` is none of the others;
a name finds at least its own row, and the second cache forgets no later than the first; signals and
follow-ups are different tasks).

- `InitialSignal_proofs`, about `TradeStatus`: `MapConsistent`, what the mapping returns is legal;
  `AcceptedConsistent`, an accepted update leaves a legal pair.  The proofs of `OrderSync`
  and `RowSync` state what they need of the mapping as lemmas of their own.
- `InitialSignal_proofs`: `TypeCorrect`, `StoredPairsConsistent`,
  `OrdersAlwaysTracked`, `AtMostOneEntry`, `FailedHidesNoOrder`,
  `ExecutedRowsStable`.  `OrdersTracked` is not inductive alone.  A clean
  signal has at most one working task (`OneWorker`, which needs that every
  working task has its row), and an order whose task is gone is stored in the
  row (`TrackedAtRest`), so `Executed` stops the next delivery, so that no
  second order is submitted.  The invariant is `Base /\ TrackInv`: the first part
  is type correctness with "a working task has a row", and makes the write
  lemmas usable; the second is the three facts above.
- `UserStream_proofs`: `TypeCorrect`, `ConnectedIsRead`, `StoppedStaysQuiet`.  The
  invariant adds to the two state properties in which phase which task may
  exist (`Phases`, `Quiet`) and that nothing is registered before the first
  connect (`NothingBeforeFirst`): without them a reconnection could survive
  `CloseConnection`, or a heartbeat register a socket after the stop.

- `OrderSync_proofs`: `SyncTyped`, `SyncPairs`, `RowFollows`, `SyncOneStop`, for any
  set of readers and any length of their queues.  The first two need that a reader that
  waits knows which order it reports on (`KnowsOrder`).  `RowNotAhead` needs that every
  queued report says what has happened (`ReportsTrue`), which holds on since a
  position never becomes one that was not opened or not reduced (`Grows`).
  `OneStop` needs that calm guards are between list and creation one at a time, and that
  what such a guard has left to cancel are all the stop losses there are
  (`OneCanceller`).

- `InitialSignal_proofs`, `ImplementsContract`: `Spec => Contract!Spec`.  Every
  step of `InitialSignal` is, per signal, one action of the contract or a stutter; the cases
  rest on the invariant above, and on the fact that a step changes the
  orders of one signal only, so that the step that voids one promise leaves the others.
- `FollowupSignal_proofs`: `TypesHold`, `PositionHolds`, `AlertsActOnce`, for any number of
  trades, deliveries and stop losses.  The invariant is `TypeOK`,
  `WithinEntries`, `ActsOnce` and `Hashed` (the alert of a delivery that acted is in the table,
  unless unsure).  `PositionHolds` counts filled entries with the cardinality theorems.
  `ImplementsPosition`, `Spec => Contract!Spec`, follows from the same invariant, since every order but an
  entry is cut by `Reduced` (`ShrinksPromised`), and an entry that fills was not counted before (`FillPromised`).
- `MaintenanceScheduler_proofs`: `TypeCorrect`, `AuditsStayApart`.  With the stop loss audit in this pass,
  its timer is zero or it still runs (`AuditInv`), so the second is not due, for any order of
  the jobs in which it comes later and any intervals.
- `RowSync_proofs`: `TypeCorrect`, `HistoryCorrected`, `LiveRowsKept`, for any rows, coins and
  bounds.  The invariant carries what an undisturbed job knows: that its snapshots still hold, which
  rows it was shown, and which it has yet to correct (`Pending`, `Remembered`, `KeptOut`).
  `HistoryCorrected` claims nothing of rows older than seven days, of orders outside the history's window and
  of partly filled ones.
- `KucoinEngine_proofs`: `TypesHold`, `SignalsAnsweredTruly`, `RetriesPlaceOneStop`,
  `ClosesOnlyReduce`, `ImplementsPosition`, and `DoneMeansFlat`, the last one from `SameName`.  They hold for any
  multiplier, any number of signals, follow-ups and attempts.  Two theorems are about the
  arithmetic of `close_position`: `RoundedIsNearest`, that the integer formula of the model is
  Python's `round` of a quotient, and `WholeCloses`, what a whole close asks for.  By the row it sells the row's size;
  by the live position, which is in contracts and divided by the multiplier once more, it covers
  the position while a contract is at most one unit of the coin, and leaves a part when a
  contract is two units or more and the position two contracts or more.
- `SignalRouting_proofs`: `TypeCorrect`, `QuietAgree`, `QuietReach`, `ReadsAreFresh`, for any number of
  tasks, spellings, configurations and other traders and any two lifetimes.  The invariant
  (`RoutingInvariant`) has four parts.  `Told`: the engine a signal is in was told a trader, and this one
  unless the signal is overtaken; without it the engine might ask for nobody's configuration.
  `Dated`: a cached configuration left the table no longer ago than it was cached, which is what
  `FreshReads` needs besides.  `Current`: an entry filled after the last edit is a row its name finds.
  `Undisturbed`: while a task is quiet, nothing has been edited for a whole lifetime, the trader has one
  row, and what quiet signals and follow-ups have read so far is that row, the engine's reads as far as the
  signal was not overtaken.  Without `Current` a quiet task could be answered from a cache filled before the
  edit; without the rest of `Undisturbed` nothing would relate two reads with awaits between them.
  `QuietAgree` claims size and leverage only of signals that were not overtaken, and KuCoin's leverage only
  where the lower-case name finds the row.

Model-checked only: the liveness properties (`TasksEnd`, `FollowupsEnd`, `Reprotected`,
`LossIsRepaired`, `StopRestored`, `JobsRun`, `TakeAuditRuns`, `StaleRowEnds`), which are beyond
the prover, and the violation.  Every safety property a passing run checks is also a theorem.

## 6. Where the code departs from its comments

One run shows a departure (`rows_closed`).  Others met while modelling, all of
which the modules reproduce as the code has them:

- An entry whose answer is lost is reported as an error, and the row says FAILED while the order lives
  (`src/core/status_manager.py:32`, "FAILED: Order failed").  `clean` excepts it.
- The trader's context is set on one shared engine and read after awaits: an order may have the size or
  the leverage of the trader of another signal (`src/bot/signal_router.py:115`), and the size of one and the
  leverage of another; `QuietTradesAgree` excepts such orders (`overtaken`).
- A fill reported before the row stores the order's id finds no row and is dropped
  (`src/websocket/sync/database_sync.py:44`); the row is then written NEW / PENDING.
- EXPIRE_MAKER with a conversion that fails repeats without counting a retry
  (`initial_signal_processor.py:807`).
- A stream that the server closes with 1000 or 1001 is not opened again
  (`websocket_manager.py:27`, "Automatic reconnection").
- The report of a cancelled stop loss sets the trade to CANCELED / CANCELLED
  (`database_sync.py:351` says the main status stays).
- A CLOSED row is acknowledged at validation and then acted on
  (`followup_signal_processor.py:169`); "limit order cancelled" is answered as processed without a
  cancellation when the entry is not found to rest (`:444`, `:751`).
- `tp1_and_break_even` moves no stop loss.
- The row's exchange and the order's exchange may differ when the configuration was edited between
  the bot's and the router's question; KuCoin's leverage is asked for in lower case (`kucoin_trading_engine.py:410`).
- KuCoin: the position of Bitcoin is not found under its coin's name; stop losses are never recognised as such.
- `closed_at` is never cleared when a row becomes ACTIVE again.
- The Binance row of an open position stays CLOSED when its order is filled in part or not among the
  ten the history answers of 48 hours (`trade_retry_utils.py:1158`), and no job reads a row older than
  seven days (`trade_retry_utils.py:289`, `:362`, `reconciliation_service.py:53`): what it says wrongly then, it
  says for good.

## 7. Not modelled

The map covers about a tenth of the repository's implementation lines.  The rest is, by
size: tables of constants (`src/config/binance_futures_precision.py`, eight thousand lines),
scripts that are run by hand, endpoints and listings, backfills of
prices and PnL (most of `trade_retry_utils.py` that `RowSync` leaves out, `pnl_calculator`,
`performance_analyzer`), caches of prices, the wording of notifications, AI prompts and text
parsing, and wrappers that pass a call on.  They keep no state whose order of changes
matters to a trade, or compute with floating point numbers.

Code nobody reaches: the conflict check of `process_signal` reads an attribute the engine does not have
and goes on through its except branch, so conflicts and merging change nothing; the redirection of a
follow-up to a primary trade needs `get_active_trades`, which the database manager lacks;
`close_trade_position` of the active futures sync constructs `PositionManager` without a required
argument and always fails; `transaction_manager` and `position_reconciliation` are used by nothing,
`position_close_service` by testing scripts; nobody calls
`reconcile_open_with_exit_or_pnl` and `reconcile_closed_at_mismatch`.

Left out of modelled parts.  `OrderSync`: prices, sizes, PnL, account updates and the KuCoin branches of
`_update_trade_status`; a recreation that stops for a missing price ends like one that finds no position.
`InitialSignal`: the creation of exits is the one await `protecting`, since
its failure changes neither row nor entry.  `FollowupSignal`: prices and the best-effort PnL
after a close.  `RowSync`: prices, PnL, the retry of failed trades.  `KucoinEngine`: prices and notional checks.
`SignalRouting`: the list of supported traders.  `OrderSync` keeps neither the
hour after which `monitor_order` gives up nor that it ends with the first final status: it may poll at any time, as the
scheduled poll may.  The AI parser is an await with any outcome.

Assumptions about the exchanges: reduce-only orders never enlarge a position or turn it around; Binance keeps one position per symbol and
KuCoin one per contract; the calls the code uses list and cancel the stop losses it created (with Binance's
separate interface for conditional orders they might not); numbers in answers parse.
