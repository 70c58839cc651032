------------------------------ MODULE RowSync ------------------------------
(***************************************************************************)
(* The jobs that bring the rows of the "trades" table in line with the     *)
(* exchanges, sync_trade_statuses_with_binance and ..._with_kucoin of      *)
(* discord_bot/utils/trade_retry_utils.py, and the one that repairs closed *)
(* rows (src/services/reconciliation_service.py). The scheduler runs one   *)
(* at a time. Each of the first two asks an exchange for its open orders   *)
(* and its positions, reads the rows of the last seven days, and then goes *)
(* through them with what it has read; the exchanges, and the other        *)
(* writers of a row, go on between its calls.                              *)
(*                                                                         *)
(* The database client is synchronous: only a call to an exchange lets     *)
(* others run.                                                             *)
(***************************************************************************)
EXTENDS Naturals, FiniteSets, TradeStatus

CONSTANTS
  BinanceTrades, KucoinTrades,
  Coins,
  CoinOf,   \* column coin_symbol
  MaxOpen,    \* the bound on trades that have not ended at the start
  MaxFaults,  \* the bound on calls and writes that fail and jobs cut off
  None

Trades == BinanceTrades \cup KucoinTrades
Venues == {"binance", "kucoin"}
VenueOf(t) == IF t \in BinanceTrades THEN "binance" ELSE "kucoin"

ASSUME TradesAssumption ==
  /\ BinanceTrades \cap KucoinTrades = {}
  /\ CoinOf \in [Trades -> Coins]
  /\ None \notin Trades
ASSUME BoundAssumption == MaxOpen \in Nat /\ MaxFaults \in Nat

VARIABLES
  row,       \* the two status columns
  recent,    \* rows created within the last seven days
  closedAt,  \* rows whose closed_at is set
  linked,    \* rows with an exchange_order_id; the others say that it failed
  order,     \* status of the entry order at its exchange
  live,      \* positions, by exchange and coin
  report,    \* what another writer is about to store in a row
  at,        \* how far the job has come
  job,       \* what the job has read
  faults,    \* how many faults there have been
  steady     \* history: no exchange and no other writer did anything since the
             \* job began, and none of its calls and writes failed

vars == <<row, recent, closedAt, linked, order, live, report, at, job, faults, steady>>

EntryStatuses == {"NEW", "PARTIALLY_FILLED", "FILLED", "CANCELED"}
Answers == EntryStatuses \cup {"OPEN", "DONE", "none"}

\* The jobs of the two exchanges, and the reconciliation of CLOSED rows.
Kinds == Venues \cup {"closed"}
Labels == {"idle", "fetching", "closing", "asked", "looking", "checking",
           "storing", "done"}
NoJob == [venue |-> "binance", open |-> {}, closing |-> {}, activating |-> {},
          history |-> {}, found |-> {}, partly |-> {},
          kept |-> [t \in Trades |-> "FILLED"],
          trade |-> None, answer |-> "none", held |-> FALSE]

TypeOK ==
  /\ row \in [Trades -> [order : OrderStatuses, status : PositionStatuses]]
  /\ recent \subseteq Trades
  /\ closedAt \subseteq Trades
  /\ linked \subseteq Trades
  /\ order \in [Trades -> EntryStatuses]
  /\ live \subseteq Venues \X Coins
  /\ report \in [Trades -> {"none", "FILLED", "PARTIALLY_FILLED", "CANCELED", "EXIT"}]
  /\ at \in Labels
  /\ job \in [venue : Kinds, open : SUBSET Trades, closing : SUBSET Trades,
              activating : SUBSET Trades, history : SUBSET Trades,
              found : SUBSET Trades, partly : SUBSET Trades,
              kept : [Trades -> OrderStatuses],
              trade : Trades \cup {None}, answer : Answers, held : BOOLEAN]
  /\ faults \in 0..MaxFaults
  /\ steady \in BOOLEAN
  /\ at \in {"asked", "checking", "storing"} => job.trade \in Trades

\* A row is PENDING with the id of its order, or FAILED without one although
\* the order may have reached the exchange (InitialSignal), or has ended.
Init ==
  /\ linked \in SUBSET Trades
  /\ \E open \in SUBSET Trades :
       /\ Cardinality(open) <= MaxOpen
       /\ row = [t \in Trades |->
                   IF t \notin linked THEN [order |-> "FAILED", status |-> "FAILED"]
                   ELSE IF t \in open THEN [order |-> "NEW", status |-> "PENDING"]
                   ELSE [order |-> "CANCELED", status |-> "CANCELLED"]]
       /\ order = [t \in Trades |-> IF t \in open THEN "NEW" ELSE "CANCELED"]
  /\ recent = Trades
  /\ closedAt = {}
  /\ live = {}
  /\ report = [t \in Trades |-> "none"]
  /\ at = "idle"
  /\ job = NoJob
  /\ faults = 0
  /\ steady = TRUE

Position(t) == <<VenueOf(t), CoinOf[t]>>
Held(t) == Position(t) \in live
Resting(t) == order[t] \in {"NEW", "PARTIALLY_FILLED"}
Quiet == UNCHANGED <<row, recent, closedAt, linked, at, job, faults>>

\* A call or a write of the job succeeds or not.
Attempt(succeeds) ==
  /\ succeeds \/ faults < MaxFaults
  /\ faults' = IF succeeds THEN faults ELSE faults + 1
  /\ steady' = (steady /\ succeeds)
-----------------------------------------------------------------------------
(* Exchanges, and the writers of rows that are modelled in OrderSync *)

Fills(t, kind) ==
  /\ Resting(t) /\ order[t] # kind
  /\ order' = [order EXCEPT ![t] = kind]
  /\ live' = live \cup {Position(t)}
  /\ report' = [report EXCEPT ![t] = kind]
  /\ steady' = FALSE
  /\ Quiet

EntryEnds(t) ==
  /\ Resting(t)
  /\ order' = [order EXCEPT ![t] = "CANCELED"]
  /\ report' = [report EXCEPT ![t] = "CANCELED"]
  /\ steady' = FALSE
  /\ UNCHANGED live /\ Quiet

\* The position is closed by an exit order of one of the coin's trades.
PositionCloses(t) ==
  /\ Held(t) /\ order[t] \in {"FILLED", "PARTIALLY_FILLED"}
  /\ live' = live \ {Position(t)}
  /\ report' = [report EXCEPT ![t] = "EXIT"]
  /\ steady' = FALSE
  /\ UNCHANGED order /\ Quiet

\* A report is stored in the row that has the order's id, or lost.
Reports(t) ==
  /\ report[t] # "none"
  /\ report' = [report EXCEPT ![t] = "none"]
  /\ \/ /\ t \in linked
        /\ row' = [row EXCEPT ![t] =
                     IF report[t] = "EXIT" THEN [order |-> "FILLED", status |-> "CLOSED"]
                     ELSE MapExchangeToInternal(report[t], TRUE)]
        /\ closedAt' = IF report[t] = "EXIT" THEN closedAt \cup {t} ELSE closedAt
     \/ UNCHANGED <<row, closedAt>>
  /\ steady' = FALSE
  /\ UNCHANGED <<recent, linked, order, live, at, job, faults>>

\* The row gets older than seven days.
Ages(t) ==
  /\ t \in recent
  /\ recent' = recent \ {t}
  /\ UNCHANGED <<row, closedAt, linked, order, live, report, at, job, faults, steady>>

-----------------------------------------------------------------------------
(* Reading *)

\* The list of open orders; a call that fails gives an empty one.
Starts(v) ==
  /\ at = "idle"
  /\ \E answered \in BOOLEAN :
       /\ answered \/ faults < MaxFaults
       /\ faults' = IF answered THEN faults ELSE faults + 1
       /\ job' = [NoJob EXCEPT !.venue = v,
                    !.open = {t \in Trades : answered /\ VenueOf(t) = v /\ Resting(t)}]
       /\ steady' = answered
  /\ at' = "fetching"
  /\ UNCHANGED <<row, recent, closedAt, linked, order, live, report>>

\* reconcile_closed_trades reads the CLOSED rows, for those whose pair is not
\* consistent.
Reconciles ==
  LET wrong == {t \in recent : row[t].status = "CLOSED"
                                /\ ~Consistent(row[t].order, "CLOSED")}
  IN /\ at = "idle"
     /\ job' = [NoJob EXCEPT !.venue = "closed", !.closing = wrong,
                  !.kept = [t \in Trades |-> IF t \in wrong THEN row[t].order
                                             ELSE "FILLED"]]
     /\ at' = "closing"
     /\ steady' = TRUE
     /\ UNCHANGED <<row, recent, closedAt, linked, order, live, report, faults>>

\* Binance names a position by its pair, a row by its coin.
Pair(c) == <<c, "USDT">>

\* Faulty variant: KuCoin's coins are compared with pairs as well.
GonePaired(t, shown) == CoinOf[t] \notin {Pair(c) : c \in shown}

\* The coins of rows that are not among those of the positions.
Gone(t, shown) ==
  IF job.venue = "binance" THEN CoinOf[t] \notin {Pair(c) : c \in shown}
  ELSE CoinOf[t] \notin shown

Ended == {"CLOSED", "CANCELLED", "FAILED"}

\* Faulty variant: a row that is ACTIVE is left to the stream.
MustCloseDated(t, shown) ==
  /\ t \in closedAt /\ row[t].status \notin Ended
  /\ job.venue = "kucoin" => t \in KucoinTrades /\ Gone(t, shown)

\* Which rows a job closes: Binance's looks at the rows of both exchanges.
MustClose(t, shown) ==
  IF job.venue = "binance"
  THEN \/ Gone(t, shown) /\ row[t].status \in {"ACTIVE", "PENDING"}
       \/ t \in closedAt /\ row[t].status \notin Ended
  ELSE /\ t \in KucoinTrades /\ Gone(t, shown)
       /\ \/ row[t].status = "ACTIVE"
          \/ t \in closedAt /\ row[t].status \notin Ended

MustActivate(t, shown) ==
  /\ job.venue = "kucoin" /\ t \in KucoinTrades
  /\ ~Gone(t, shown)
  /\ t \notin closedAt /\ row[t].status # "ACTIVE"

\* Binance's open orders only change the order status, as it is spelled there;
\* KuCoin's are mapped, and tie a row to the order of its coin and time.
StoreOpenOrders(matched) ==
  IF job.venue = "binance"
  THEN /\ row' = [t \in Trades |-> IF t \in matched \cap linked
                                   THEN [row[t] EXCEPT !.order = order[t]] ELSE row[t]]
       /\ UNCHANGED linked
  ELSE /\ row' = [t \in Trades |-> IF t \in matched
                                   THEN MapExchangeToInternal("OPEN", FALSE) ELSE row[t]]
       /\ linked' = linked \cup matched

\* The positions arrive, or an empty list for a call that failed; the recent
\* rows are read, and the open orders stored in those they are matched with.  A
\* report stored earlier may hide the id from the match, and a write may fail.
Fetches ==
  /\ at = "fetching"
  /\ \E answered \in BOOLEAN, matched \in SUBSET (job.open \cap recent) :
       LET shown == {c \in Coins : answered /\ <<job.venue, c>> \in live}
       IN /\ StoreOpenOrders(matched)
          /\ job' = [job EXCEPT
               !.open = {},
               !.closing = {t \in recent : MustClose(t, shown)},
               !.activating = {t \in recent : MustActivate(t, shown)},
               !.history = IF job.venue = "binance"
                           THEN BinanceTrades \cap linked \cap recent ELSE {},
               !.partly = {t \in recent : row[t].order = "PARTIALLY_FILLED"}]
          /\ Attempt(answered)
  /\ at' = "closing"
  /\ UNCHANGED <<recent, closedAt, order, live, report>>

-----------------------------------------------------------------------------
(* Closing rows *)

\* A position of the coin makes the row ACTIVE; the write may fail.
Activates(t) ==
  /\ at = "closing" /\ t \in job.activating
  /\ job' = [job EXCEPT !.activating = @ \ {t}]
  /\ \/ row' = [row EXCEPT ![t].status = "ACTIVE"] /\ Attempt(TRUE)
     \/ UNCHANGED row /\ Attempt(FALSE)
  /\ UNCHANGED <<recent, closedAt, linked, order, live, report, at>>

Closing(t) == at = "closing" /\ job.activating = {} /\ t \in job.closing

\* KuCoin's job tells by the stored response that the order failed.
MarksFailed(t) ==
  /\ Closing(t) /\ job.venue = "kucoin" /\ t \notin linked
  /\ job' = [job EXCEPT !.closing = @ \ {t}]
  /\ \/ row' = [row EXCEPT ![t] = [order |-> "FAILED", status |-> "FAILED"]]
        /\ Attempt(TRUE)
     \/ UNCHANGED row /\ Attempt(FALSE)
  /\ UNCHANGED <<recent, closedAt, linked, order, live, report, at>>

\* How an exchange words the status of an order.
Worded(t) ==
  IF VenueOf(t) = "binance" THEN order[t] ELSE IF Resting(t) THEN "OPEN" ELSE "DONE"

\* _query_exchange_order_status: no answer for a row without an id.
Asks(t) ==
  /\ Closing(t)
  /\ job.venue = "kucoin" => t \in linked
  /\ job.venue = "closed" => job.kept[t] = "NEW"
  /\ \E answer \in {"none"} \cup (IF t \in linked THEN {Worded(t)} ELSE {}) :
       /\ job' = [job EXCEPT !.closing = @ \ {t}, !.trade = t, !.answer = answer]
       /\ Attempt(t \in linked => answer # "none")
  /\ at' = "asked"
  /\ UNCHANGED <<row, recent, closedAt, linked, order, live, report>>

\* Faulty variant: the answer is stored as the exchange words it.
ForcedPairWorded == [order |-> job.answer, status |-> "CLOSED"]

\* update_trade_status_safely with force_closed, from the row as it was read.
ForcedPair ==
  LET o == ToOrderStatus(IF job.answer # "none" THEN job.answer
                         ELSE IF job.trade \in job.partly THEN "PARTIALLY_FILLED"
                         ELSE "FILLED")
  IN [order |-> o,
      status |-> IF Consistent(o, "CLOSED") THEN "CLOSED" ELSE FixPosition(o, "CLOSED")]

\* closed_at and CLOSED are stored first, the pair after it; either may fail.
Closes ==
  /\ at = "asked" /\ job.venue # "closed"
  /\ \E stamped, stored \in BOOLEAN :
       /\ closedAt' = IF stamped THEN closedAt \cup {job.trade} ELSE closedAt
       /\ row' = IF stored THEN [row EXCEPT ![job.trade] = ForcedPair]
                 ELSE IF stamped THEN [row EXCEPT ![job.trade].status = "CLOSED"]
                 ELSE row
       /\ Attempt(stamped /\ stored)
  /\ job' = [job EXCEPT !.trade = None, !.answer = "none"]
  /\ at' = "closing"
  /\ UNCHANGED <<recent, linked, order, live, report>>

\* The reconciliation stores the pair alone ...
Mends ==
  /\ at = "asked" /\ job.venue = "closed"
  /\ \/ row' = [row EXCEPT ![job.trade] = ForcedPair] /\ Attempt(TRUE)
     \/ UNCHANGED row /\ Attempt(FALSE)
  /\ job' = [job EXCEPT !.trade = None, !.answer = "none"]
  /\ at' = "closing"
  /\ UNCHANGED <<recent, closedAt, linked, order, live, report>>

\* ... and another pair than NEW and CLOSED without asking: corrected, which
\* is to say, as it was read.
Rewrites(t) ==
  /\ Closing(t) /\ job.venue = "closed" /\ job.kept[t] # "NEW"
  /\ job' = [job EXCEPT !.closing = @ \ {t}]
  /\ \/ /\ row' = [row EXCEPT ![t] = [order |-> job.kept[t],
                                      status |-> FixPosition(job.kept[t], "CLOSED")]]
        /\ Attempt(TRUE)
     \/ UNCHANGED row /\ Attempt(FALSE)
  /\ UNCHANGED <<recent, closedAt, linked, order, live, report, at>>

EndsClosing ==
  /\ at = "closing" /\ job.activating = {} /\ job.closing = {}
  /\ at' = IF job.venue = "binance" THEN "looking" ELSE "done"
  /\ UNCHANGED <<row, recent, closedAt, linked, order, live, report, job, faults, steady>>

-----------------------------------------------------------------------------
(* sync_closed_trades_from_history_enhanced, on Binance only *)

\* The order is in the history; or the call failed, or was answered with the
\* first ten orders of the last 48 hours and the order is not among them, and
\* the row is passed over.  So it is when the order is neither filled nor new.
LooksUp(t) ==
  /\ at = "looking" /\ t \in job.history
  /\ \E answer \in {order[t], "none"} :
       LET read == [job EXCEPT !.history = @ \ {t},
                      !.found = IF answer = "none" THEN @ ELSE @ \cup {t}]
       IN IF answer \in {"NEW", "FILLED"}
          THEN /\ job' = [read EXCEPT !.trade = t, !.answer = answer]
               /\ at' = IF answer = "FILLED" THEN "checking" ELSE "storing"
          ELSE job' = read /\ UNCHANGED at
  /\ UNCHANGED <<row, recent, closedAt, linked, order, live, report, faults, steady>>

\* A call that fails shows no position.
ChecksPosition ==
  /\ at = "checking"
  /\ \E answered \in BOOLEAN :
       /\ job' = [job EXCEPT !.held = answered /\ Held(job.trade)]
       /\ Attempt(answered)
  /\ at' = "storing"
  /\ UNCHANGED <<row, recent, closedAt, linked, order, live, report>>

\* Faulty variant: a filled order is an open position.
HistoryPairFilled ==
  IF job.answer = "NEW" THEN [order |-> row[job.trade].order, status |-> "PENDING"]
  ELSE [order |-> "FILLED", status |-> "ACTIVE"]

HistoryPair ==
  IF job.answer = "NEW" THEN [order |-> row[job.trade].order, status |-> "PENDING"]
  ELSE [order |-> "FILLED", status |-> IF job.held THEN "ACTIVE" ELSE "CLOSED"]

StoresHistory ==
  /\ at = "storing"
  /\ \/ row' = [row EXCEPT ![job.trade] = HistoryPair] /\ Attempt(TRUE)
     \/ UNCHANGED row /\ Attempt(FALSE)
  /\ job' = [job EXCEPT !.trade = None, !.answer = "none", !.held = FALSE]
  /\ at' = "looking"
  /\ UNCHANGED <<recent, closedAt, linked, order, live, report>>

EndsHistory ==
  /\ at = "looking" /\ job.history = {}
  /\ at' = "done"
  /\ UNCHANGED <<row, recent, closedAt, linked, order, live, report, job, faults, steady>>

\* The scheduler goes on.
Finishes ==
  /\ at = "done"
  /\ at' = "idle" /\ job' = NoJob
  /\ UNCHANGED <<row, recent, closedAt, linked, order, live, report, faults, steady>>

\* The process ends, or an exception ends the job.
BreaksOff ==
  /\ at # "idle"
  /\ at' = "idle" /\ job' = NoJob
  /\ Attempt(FALSE)
  /\ UNCHANGED <<row, recent, closedAt, linked, order, live, report>>
-----------------------------------------------------------------------------

World ==
  \E t \in Trades :
    \/ \E kind \in {"PARTIALLY_FILLED", "FILLED"} : Fills(t, kind)
    \/ EntryEnds(t) \/ PositionCloses(t) \/ Reports(t) \/ Ages(t)

OnRow(t) ==
  Activates(t) \/ MarksFailed(t) \/ Asks(t) \/ Rewrites(t) \/ LooksUp(t)

JobStep ==
  \/ Fetches \/ Closes \/ Mends \/ EndsClosing
  \/ ChecksPosition \/ StoresHistory \/ EndsHistory \/ Finishes
  \/ \E t \in Trades : OnRow(t)

Next ==
  \/ World
  \/ (\E v \in Venues : Starts(v)) \/ Reconciles
  \/ JobStep \/ BreaksOff

Spec == Init /\ [][Next]_vars

\* asyncio runs the job that can go on, and the scheduler starts each of the
\* first two again and again.
FairSpec ==
  /\ Spec
  /\ WF_vars(JobStep)
  /\ \A v \in Venues : SF_vars(Starts(v))
-----------------------------------------------------------------------------
(* Properties *)

\* When the Binance job has ended undisturbed, the rows whose order its history
\* showed are in line with the exchange: PENDING where the order is new, ACTIVE
\* or CLOSED as the position of its coin is where it is filled.  The history puts
\* right what the step before it wrote.  The row of a partly filled order, of an
\* order the history no longer shows and of a trade older than seven days stays
\* as that step left it.
HistoryCorrects ==
  at = "done" /\ job.venue = "binance" /\ steady =>
    \A t \in job.found :
      /\ order[t] = "NEW" => row[t].status = "PENDING"
      /\ order[t] = "FILLED" =>
           row[t].status = IF Held(t) THEN "ACTIVE" ELSE "CLOSED"

\* The KuCoin job, undisturbed, closes no row whose coin has a position.
KucoinKeepsLive ==
  [][at = "asked" /\ job.venue = "kucoin" /\ steady' /\ Closes =>
       ~Held(job.trade)]_vars

\* A row that says ACTIVE without a position of its coin is corrected, although
\* no report told of the end, some calls failed and jobs were cut off, unless it
\* is older than seven days by then: no job reads it any more.
StaleRowEnds ==
  \A t \in Trades :
    (row[t].status = "ACTIVE" /\ ~Held(t)) ~>
      (row[t].status # "ACTIVE" \/ Held(t) \/ t \notin recent)
-----------------------------------------------------------------------------
(* What comments say, and the code does not do *)

\* trade_retry_utils.py:1035, "Mark trades as closed if position is no longer
\* active on Binance."
ClosesOnlyGone ==
  [][at = "asked" /\ job.venue = "binance" /\ job.trade \in BinanceTrades
       /\ steady' /\ Closes => ~Held(job.trade)]_vars
=============================================================================
