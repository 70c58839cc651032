--------------------------- MODULE InitialSignal ---------------------------
(***************************************************************************)
(* How an initial Discord signal becomes an entry order on Binance.        *)
(*                                                                         *)
(* Every delivery of a signal runs process_initial_signal                  *)
(* (discord_bot/discord_bot.py) as its own asyncio task; all tasks share   *)
(* one trading engine, one table of rows and one exchange account.  A task *)
(* runs without interruption between two awaits of the network, and the    *)
(* database client is synchronous, so an action below is the code from one *)
(* network await to the next.  Exchange, event stream and clock are the    *)
(* environment.                                                            *)
(***************************************************************************)
EXTENDS Naturals, FiniteSets, TradeStatus

CONSTANTS
  Deliveries,     \* deliveries of signals by the endpoint, duplicates included
  Signals,        \* discord ids
  Coins, Traders,
  OrderIds,       \* entry orders the exchange can create: the bound on them
  None,
  Override,       \* a position size that is suggested_size, not a trader's own
  SignalOf,       \* the signal a delivery carries
  CoinOf, TraderOf,
  MaxRetries      \* max_retries of the LIMIT loop

ASSUME DeliveryAssumption ==
  /\ SignalOf \in [Deliveries -> Signals]
  /\ CoinOf \in [Signals -> Coins]
  /\ TraderOf \in [Signals -> Traders]
ASSUME RetryAssumption == MaxRetries \in Nat
ASSUME NoneAssumption ==
  /\ None \notin Signals \cup OrderIds \cup Traders
  /\ Override \notin Traders \cup {None}

VARIABLES
  pc,           \* where each delivery's task waits
  task,         \* the locals of each task
  row,          \* the row of each discord id in the trades table
  ord,          \* the entry orders at the exchange
  engineTrader, \* trader_id of the shared engine
  leverage,     \* whose leverage the account last set for a coin
  cooling,      \* the coin is within TRADE_COOLDOWN of its last trade
  clean         \* history: no overlap, lost answer or lost write so far

vars == <<pc, task, row, ord, engineTrader, leverage, cooling, clean>>

Waiting == {"received", "parsing", "checking", "sized", "leverage",
            "market", "limit", "converting", "protecting"}
Ended == {"done", "failed"}

\* From the lookup of its row to its last write a task works on its signal.
Working == Waiting \ {"received"}

FreshTask == [size |-> None, lev |-> None, attempts |-> 0,
              retried |-> FALSE, oid |-> None]

NoRow == [order |-> Unset, status |-> Unset, oid |-> None]
NoOrder == [sig |-> None, size |-> None, lev |-> None,
            filled |-> FALSE, news |-> FALSE]

RowExists(s) == row[s].status # Unset
Exists(o) == ord[o].sig # None

Tasks == [size : Traders \cup {None, Override}, lev : Traders \cup {None},
          attempts : 0..MaxRetries, retried : BOOLEAN,
          oid : OrderIds \cup {None}]

Rows == [order : OrderStatuses \cup {Unset},
         status : PositionStatuses \cup {Unset},
         oid : OrderIds \cup {None}]

Orders == [sig : Signals \cup {None}, size : Traders \cup {None, Override},
           lev : Traders \cup {None}, filled : BOOLEAN, news : BOOLEAN]

TypeOK ==
  /\ pc \in [Deliveries -> Waiting \cup Ended]
  /\ task \in [Deliveries -> Tasks]
  /\ row \in [Signals -> Rows]
  /\ ord \in [OrderIds -> Orders]
  /\ engineTrader \in Traders \cup {None}
  /\ leverage \in [Coins -> Traders \cup {None}]
  /\ cooling \in [Coins -> BOOLEAN]
  /\ clean \in [Signals -> BOOLEAN]

Init ==
  /\ pc = [h \in Deliveries |-> "received"]
  /\ task = [h \in Deliveries |-> FreshTask]
  /\ row = [s \in Signals |-> NoRow]
  /\ ord = [o \in OrderIds |-> NoOrder]
  /\ engineTrader = None
  /\ leverage = [c \in Coins |-> None]
  /\ cooling = [c \in Coins |-> FALSE]
  /\ clean = [s \in Signals |-> TRUE]

-----------------------------------------------------------------------------
(* Shared steps *)

GoTo(h, label) == pc' = [pc EXCEPT ![h] = label]

End(h, label) ==
  /\ GoTo(h, label)
  /\ task' = [task EXCEPT ![h] = FreshTask]

\* Faulty variant: the status columns are written without the validator.
WriteRowUnvalidated(s, u, oid) ==
  row' = [row EXCEPT ![s] =
            [order |-> Effective(u, row[s]).order,
             status |-> Effective(u, row[s]).status,
             oid |-> IF oid = None THEN @.oid ELSE oid]]

\* update_existing_trade: the validator may refuse or correct the pair u.
\* The order id is part of the update only when oid is not None.
WriteRow(s, u, oid) ==
  IF UpdateRefused(u, row[s]) THEN UNCHANGED row
  ELSE LET p == UpdatedPair(u, row[s], FALSE)
       IN row' = [row EXCEPT ![s] =
                    [order |-> p.order, status |-> p.status,
                     oid |-> IF oid = None THEN @.oid ELSE oid]]

\* The write of FAILED/FAILED and of its alternative: both may be lost, and
\* the task ends the same way.
FailTrade(h) ==
  /\ \/ WriteRow(SignalOf[h], [order |-> "FAILED", status |-> "FAILED"], None)
     \/ UNCHANGED row
  /\ End(h, "failed")

\* route_initial_signal up to the first await of process_signal: the trader
\* is set on the shared engine, then the cooldown of the coin is checked.
Route(h, retrying) ==
  LET s == SignalOf[h]
  IN /\ engineTrader' = TraderOf[s]
     /\ IF cooling[CoinOf[s]]
        THEN FailTrade(h)
        ELSE /\ GoTo(h, "checking")
             /\ task' = [task EXCEPT ![h].retried = retrying]
             /\ UNCHANGED row
     /\ UNCHANGED <<ord, leverage, cooling, clean>>

-----------------------------------------------------------------------------
(* process_initial_signal up to the routing *)

Reject(h) ==
  /\ pc[h] = "received"
  /\ End(h, "done")
  /\ UNCHANGED <<row, ord, engineTrader, leverage, cooling, clean>>

\* Statuses for which a row counts as executed although it has no order id.
ExecutedStatuses == {"FILLED", "PARTIALLY_FILLED", "EXECUTED", "ACTIVE"}

\* Faulty variant: only the status is looked at, not the order id.
ExecutedByStatus(s) == row[s].status \in ExecutedStatuses

Executed(s) == row[s].oid # None \/ row[s].status \in ExecutedStatuses

Overlaps(h) ==
  \E g \in Deliveries \ {h} : SignalOf[g] = SignalOf[h] /\ pc[g] \in Working

\* Find the row, or insert one: no await separates the two.
Lookup(h) ==
  LET s == SignalOf[h]
  IN /\ pc[h] = "received"
     /\ ~Executed(s)
     /\ row' = IF RowExists(s) THEN row
               ELSE [row EXCEPT ![s] = [NoRow EXCEPT !.status = "PENDING"]]
     /\ clean' = [clean EXCEPT ![s] = @ /\ ~Overlaps(h)]
     /\ GoTo(h, "parsing")
     /\ UNCHANGED <<task, ord, engineTrader, leverage, cooling>>

LookupSkips(h) ==
  /\ pc[h] = "received"
  /\ RowExists(SignalOf[h]) /\ Executed(SignalOf[h])
  /\ End(h, "done")
  /\ UNCHANGED <<row, ord, engineTrader, leverage, cooling, clean>>

\* The insert fails; after a failed find it also fails on the unique id.
LookupFails(h) ==
  /\ pc[h] = "received"
  /\ End(h, "done")
  /\ UNCHANGED <<row, ord, engineTrader, leverage, cooling, clean>>

\* The AI finds no coin, or a break-even stop: only "status" is written.
ParseFails(h) ==
  /\ pc[h] = "parsing"
  /\ \/ WriteRow(SignalOf[h], [order |-> Unset, status |-> "FAILED"], None)
     \/ UNCHANGED row
  /\ End(h, "done")
  /\ UNCHANGED <<ord, engineTrader, leverage, cooling, clean>>

\* No entry price: the task returns and leaves the row as it is.
ParseFindsNoPrice(h) ==
  /\ pc[h] = "parsing"
  /\ End(h, "done")
  /\ UNCHANGED <<row, ord, engineTrader, leverage, cooling, clean>>

ParseOk(h) == pc[h] = "parsing" /\ Route(h, FALSE)

-----------------------------------------------------------------------------
(* InitialSignalProcessor.process_signal after the cooldown check *)

\* A symbol, price or filter check fails, or the size is below a minimum.
CheckFails(h) ==
  /\ pc[h] = "checking"
  /\ FailTrade(h)
  /\ UNCHANGED <<ord, engineTrader, leverage, cooling, clean>>

\* Faulty variant: a retry may suggest another retry.
CheckSuggestsSizeAgain(h) == pc[h] = "checking" /\ Route(h, TRUE)

\* The failure suggests a size: the signal is routed once more with it.
CheckSuggestsSize(h) ==
  /\ pc[h] = "checking"
  /\ ~task[h].retried
  /\ Route(h, TRUE)

\* _calculate_trade_amount takes the size of whoever the engine now names.
CalculateTradeAmount(h) ==
  /\ pc[h] = "checking"
  /\ task' = [task EXCEPT ![h].size =
                IF task[h].retried THEN Override ELSE engineTrader]
  /\ GoTo(h, "sized")
  /\ UNCHANGED <<row, ord, engineTrader, leverage, cooling, clean>>

PositionLimitsRefuse(h) ==
  /\ pc[h] = "sized"
  /\ FailTrade(h)
  /\ UNCHANGED <<ord, engineTrader, leverage, cooling, clean>>

\* _validate_position_limits passed; _execute_trade reads the leverage.
ResolveLeverage(h) ==
  /\ pc[h] = "sized"
  /\ task' = [task EXCEPT ![h].lev = engineTrader]
  /\ GoTo(h, "leverage")
  /\ UNCHANGED <<row, ord, engineTrader, leverage, cooling, clean>>

\* A failure to set the leverage is only logged.
SetLeverage(h) ==
  /\ pc[h] = "leverage"
  /\ \/ leverage' = [leverage EXCEPT ![CoinOf[SignalOf[h]]] = task[h].lev]
     \/ UNCHANGED leverage
  /\ \E kind \in {"market", "limit"} : GoTo(h, kind)
  /\ UNCHANGED <<task, row, ord, engineTrader, cooling, clean>>

-----------------------------------------------------------------------------
(* _execute_trade: the entry order *)

Submitting == {"market", "limit", "converting"}

\* The exchange creates an entry order of h's signal.
Accept(h, o) ==
  /\ ~Exists(o)
  /\ ord' = [ord EXCEPT ![o] =
               [sig |-> SignalOf[h], size |-> task[h].size,
                lev |-> leverage[CoinOf[SignalOf[h]]],
                filled |-> FALSE, news |-> FALSE]]

SubmitAccepted(h, o) ==
  /\ pc[h] \in Submitting
  /\ Accept(h, o)
  /\ task' = [task EXCEPT ![h].oid = o]
  /\ GoTo(h, "protecting")
  /\ UNCHANGED <<row, engineTrader, leverage, cooling, clean>>

\* Faulty variant: off by one in the retry counter of the LIMIT loop.
AfterErrorOffByOne(h) ==
  \/ /\ pc[h] = "market" \/ (pc[h] = "limit" /\ task[h].attempts > MaxRetries)
     /\ FailTrade(h)
  \/ /\ pc[h] = "limit" /\ task[h].attempts <= MaxRetries
     /\ task' = [task EXCEPT ![h].attempts = @ + 1]
     /\ UNCHANGED <<pc, row>>
  \/ /\ pc[h] = "converting"
     /\ GoTo(h, "limit")
     /\ UNCHANGED <<task, row>>

\* What the code does with an answer that carries no orderId: a MARKET order
\* has failed, a LIMIT order is sent again while retries are left, and a
\* failed conversion goes back to the LIMIT order.
AfterError(h) ==
  \/ /\ pc[h] = "market" \/ (pc[h] = "limit" /\ task[h].attempts = MaxRetries)
     /\ FailTrade(h)
  \/ /\ pc[h] = "limit" /\ task[h].attempts < MaxRetries
     /\ task' = [task EXCEPT ![h].attempts = @ + 1]
     /\ UNCHANGED <<pc, row>>
  \/ /\ pc[h] = "converting"
     /\ GoTo(h, "limit")
     /\ UNCHANGED <<task, row>>

SubmitRefused(h) ==
  /\ pc[h] \in Submitting
  /\ AfterError(h)
  /\ UNCHANGED <<ord, engineTrader, leverage, cooling, clean>>

\* The order was created but the answer is lost or times out:
\* create_futures_order turns the exception into an error answer.
SubmitAnswerLost(h, o) ==
  /\ pc[h] \in Submitting
  /\ Accept(h, o)
  /\ AfterError(h)
  /\ clean' = [clean EXCEPT ![SignalOf[h]] = FALSE]
  /\ UNCHANGED <<engineTrader, leverage, cooling>>

\* EXPIRE_MAKER on a LIMIT order: convert it to MARKET if retries are left.
LimitExpires(h) ==
  /\ pc[h] = "limit"
  /\ \/ /\ task[h].attempts < MaxRetries
        /\ GoTo(h, "converting")
        /\ UNCHANGED <<task, row>>
     \/ /\ task[h].attempts = MaxRetries
        /\ FailTrade(h)
  /\ UNCHANGED <<ord, engineTrader, leverage, cooling, clean>>

\* Faulty variant: the response is stored without the order id.
FinishForgetsOrderId(h) ==
  LET s == SignalOf[h]
  IN /\ pc[h] = "protecting"
     /\ cooling' = [cooling EXCEPT ![CoinOf[s]] = TRUE]
     /\ WriteRow(s, MapExchangeToInternal("OPEN", FALSE), None)
     /\ End(h, "done")
     /\ UNCHANGED <<ord, engineTrader, leverage, clean>>

\* Once the TP and SL orders have been tried: the cooldown is set and
\* update_trade_with_original_response stores the order id and OPEN.
Finish(h) ==
  LET s == SignalOf[h]
      m == MapExchangeToInternal("OPEN", FALSE)
  IN /\ pc[h] = "protecting"
     /\ cooling' = [cooling EXCEPT ![CoinOf[s]] = TRUE]
     /\ \/ WriteRow(s, m, task[h].oid) /\ UNCHANGED clean
        \/ UNCHANGED row /\ clean' = [clean EXCEPT ![s] = FALSE]
     /\ End(h, "done")
     /\ UNCHANGED <<ord, engineTrader, leverage>>

-----------------------------------------------------------------------------
(* Environment *)

Fill(o) ==
  /\ Exists(o) /\ ~ord[o].filled
  /\ ord' = [ord EXCEPT ![o].filled = TRUE, ![o].news = TRUE]
  /\ UNCHANGED <<pc, task, row, engineTrader, leverage, cooling, clean>>

\* handle_execution_report of the fill: it reaches the row that stores the
\* order id and is dropped when no row does.
DeliverFill(o) ==
  LET m == MapExchangeToInternal("FILLED", TRUE)
  IN /\ ord[o].news
     /\ ord' = [ord EXCEPT ![o].news = FALSE]
     /\ row' = [s \in Signals |->
                  IF row[s].oid = o
                  THEN [row[s] EXCEPT !.order = m.order, !.status = m.status]
                  ELSE row[s]]
     /\ UNCHANGED <<pc, task, engineTrader, leverage, cooling, clean>>

CooldownEnds(c) ==
  /\ cooling[c]
  /\ cooling' = [cooling EXCEPT ![c] = FALSE]
  /\ UNCHANGED <<pc, task, row, ord, engineTrader, leverage, clean>>

-----------------------------------------------------------------------------

Prepare(h) ==
  \/ Reject(h) \/ Lookup(h) \/ LookupSkips(h) \/ LookupFails(h)
  \/ ParseFails(h) \/ ParseFindsNoPrice(h) \/ ParseOk(h)

Execute(h) ==
  \/ CheckFails(h) \/ CheckSuggestsSize(h) \/ CalculateTradeAmount(h)
  \/ PositionLimitsRefuse(h) \/ ResolveLeverage(h) \/ SetLeverage(h)
  \/ SubmitRefused(h) \/ LimitExpires(h) \/ Finish(h)
  \/ \E o \in OrderIds : SubmitAccepted(h, o) \/ SubmitAnswerLost(h, o)

Step(h) == Prepare(h) \/ Execute(h)

Environment ==
  \/ \E o \in OrderIds : Fill(o) \/ DeliverFill(o)
  \/ \E c \in Coins : CooldownEnds(c)

Next == (\E h \in Deliveries : Step(h)) \/ Environment

Spec == Init /\ [][Next]_vars

\* asyncio runs every ready task, and every network call answers or times out.
FairSpec == Spec /\ \A h \in Deliveries : WF_vars(Step(h))
-----------------------------------------------------------------------------
(* Properties *)

WorkingOn(s) == {h \in Deliveries : SignalOf[h] = s /\ pc[h] \in Working}

\* No interleaving of the writers of a row (insert, parse failure, execution
\* failure, order response, execution report) stores an inconsistent pair.
RowsConsistent == \A s \in Signals : PairConsistent(row[s])

\* However often a signal is delivered and retried, it enters the market at
\* most once, as long as its deliveries did not overlap, no answer of the
\* exchange was lost and the order id was stored.
SingleEntry ==
  \A s \in Signals : clean[s] =>
    \A o1, o2 \in OrderIds : ord[o1].sig = s /\ ord[o2].sig = s => o1 = o2

\* Under the same conditions an entry order at the exchange is the one its
\* row stores, or belongs to the one task that is still placing its TP and SL.
OrdersTracked ==
  \A s \in Signals : clean[s] =>
    \A o \in OrderIds : ord[o].sig = s =>
      \/ row[s].oid = o
      \/ \E h \in WorkingOn(s) : pc[h] = "protecting" /\ task[h].oid = o

\* Under the same conditions a FAILED row that no task works on has no order
\* at the exchange: the failure writes never hide a live order.
FailedMeansNoOrder ==
  \A s \in Signals :
    clean[s] /\ row[s].status = "FAILED" /\ WorkingOn(s) = {} =>
      \A o \in OrderIds : ord[o].sig # s

\* A row that tracks an order keeps it, and a row that learnt of the fill is
\* never taken back to NEW or FAILED by a task that was late, under the same
\* conditions.
ExecutedRowStable ==
  [][\A s \in Signals : clean'[s] /\ row[s].oid # None =>
        /\ row'[s].oid = row[s].oid
        /\ row[s].order = "FILLED" => row'[s].order = "FILLED"]_vars

\* Every task ends, unless the exchange answers EXPIRE_MAKER and refuses the
\* conversion for ever: the retry counters bound every other path.
TasksEnd ==
  \A h \in Deliveries : <>(pc[h] \in Ended) \/ []<>(pc[h] = "converting")
=============================================================================
