---------------------------- MODULE KucoinEngine ----------------------------
(***************************************************************************)
(* KucoinTradingEngine (src/bot/kucoin_trading_engine.py) over             *)
(* KucoinExchange: the entries of signals and the follow-ups about them,   *)
(* on one coin, whose contracts share the one position KuCoin keeps.       *)
(*                                                                         *)
(* Every task is a coroutine; an action is its code from one network await *)
(* to the next.  An order is submitted by a call of the SDK that does not  *)
(* await, so its answer and what is done with it are one action.           *)
(***************************************************************************)
EXTENDS Integers, FiniteSets

CONSTANTS
  Signals,     \* signals about the coin, each routed to KuCoin once
  Followups,   \* deliveries of follow-ups that passed the duplicate check
  TradeOf,     \* the signal whose row a follow-up is about
  SideOf,      \* LONG or SHORT
  Contracts,   \* so many contracts ...
  Assets,      \* ... are so many units of the coin: the multiplier
  SameName,    \* the contract is named after the coin (XBTUSDTM is not)
  MaxAttempts  \* place_stop_loss_with_retry: max_attempts

ASSUME TradeAssumption == TradeOf \in [Followups -> Signals]
ASSUME SideAssumption == SideOf \in [Signals -> {"LONG", "SHORT"}]
ASSUME NumberAssumption ==
  /\ {Contracts, Assets, MaxAttempts} \subseteq Nat \ {0}
  /\ SameName \in BOOLEAN
ASSUME FiniteAssumption == IsFiniteSet(Signals)

VARIABLES
  pc,       \* where the task of a signal waits, or how it ended
  order,    \* its entry order at the exchange, always of one contract
  cooling,  \* trade_cooldowns has the coin, and not for too long
  size,     \* position_size of its row, in contracts; 0 when unknown
  fc,       \* where the task of a follow-up waits, or how it ended
  task,     \* the locals of a follow-up
  stops,    \* resting stop losses a follow-up has created
  pos,      \* the position of the coin in contracts, negative if SHORT
  lost,     \* history: signals whose order was created and answer lost
  misled,   \* history: follow-ups one of whose calls failed unnoticed
  stood     \* history: follow-ups that close a trade whose entry had filled

signalVars == <<pc, cooling>>
followVars == <<fc, task, misled, stood>>
exchange == <<order, stops, pos>>
vars == <<pc, order, cooling, size, fc, task, stops, pos, lost, misled, stood>>

MaxPosition == Cardinality(Signals)

Closing == {"looking", "sizing", "checking", "selling"}
Moving == {"pricing", "listing", "placing"}
FollowupEnded == {"sold", "closed", "moved", "noted", "failed", "cut"}
SignalEnded == {"entered", "failed", "cut"}

\* row: the row's size when it was read; part: per cent to close; want:
\* contracts to close; attempt: at a price for the stop loss.
Tasks == [row : 0..MaxPosition, part : {25, 50, 100}, want : Nat,
          attempt : 1..MaxAttempts]
FreshTask == [row |-> 0, part |-> 100, want |-> 0, attempt |-> 1]

TypeOK ==
  /\ pc \in [Signals -> {"received", "checking", "submitting", "settling"}
                        \cup SignalEnded]
  /\ order \in [Signals -> {"none", "resting", "filled", "gone"}]
  /\ cooling \in BOOLEAN
  /\ size \in [Signals -> 0..MaxPosition]
  /\ fc \in [Followups -> {"waiting", "parsing"} \cup Closing \cup Moving
                          \cup FollowupEnded]
  /\ task \in [Followups -> Tasks]
  /\ stops \in [Followups -> Nat]
  /\ pos \in -MaxPosition..MaxPosition
  /\ lost \subseteq Signals
  /\ misled \subseteq Followups /\ stood \subseteq Followups

Init ==
  /\ pc = [s \in Signals |-> "received"]
  /\ order = [s \in Signals |-> "none"]
  /\ cooling = FALSE
  /\ size = [s \in Signals |-> 0]
  /\ fc = [f \in Followups |-> "waiting"]
  /\ task = [f \in Followups |-> FreshTask]
  /\ stops = [f \in Followups |-> 0]
  /\ pos = 0
  /\ lost = {} /\ misled = {} /\ stood = {}

-----------------------------------------------------------------------------
(* process_signal *)

SignalTo(s, label) == pc' = [pc EXCEPT ![s] = label]

\* The cooldown is read before the first await and set after the last one.
CheckCooldown(s) ==
  /\ pc[s] = "received"
  /\ SignalTo(s, IF cooling THEN "failed" ELSE "checking")
  /\ UNCHANGED <<order, cooling, size, followVars, stops, pos, lost>>

\* No price, symbol not listed, no amount, or a margin above one and a half
\* times the position size of the trader's configuration.
Check(s) ==
  /\ pc[s] = "checking"
  /\ SignalTo(s, "submitting") \/ SignalTo(s, "failed")
  /\ UNCHANGED <<order, cooling, size, followVars, stops, pos, lost>>

\* create_futures_order: quantities are adjusted and then forced to one
\* contract; refused by its own checks (mark price, notional, quantity,
\* maker price) or by the exchange.
SubmitRefused(s) ==
  /\ pc[s] = "submitting"
  /\ SignalTo(s, "failed")
  /\ UNCHANGED <<order, cooling, size, followVars, stops, pos, lost>>

SubmitAccepted(s) ==
  /\ pc[s] = "submitting"
  /\ order' = [order EXCEPT ![s] = "resting"]
  /\ SignalTo(s, "settling")
  /\ UNCHANGED <<cooling, size, followVars, stops, pos, lost>>

SubmitAnswerLost(s) ==
  /\ pc[s] = "submitting"
  /\ order' = [order EXCEPT ![s] = "resting"]
  /\ SignalTo(s, "failed")
  /\ lost' = lost \cup {s}
  /\ UNCHANGED <<cooling, size, followVars, stops, pos>>

\* Faulty variant: without the status the signal is reported as failed.
SettledChecked(s) ==
  /\ pc[s] = "settling"
  /\ \/ SignalTo(s, "entered") /\ cooling' = TRUE
     \/ SignalTo(s, "failed") /\ UNCHANGED cooling
  /\ UNCHANGED <<order, size, followVars, stops, pos, lost>>

\* Two seconds later the status is read.  Without an answer the order counts
\* as NEW; either way the signal succeeded and the cooldown begins (the sizes
\* in an answer are numbers: get_order_status gives them, or no answer).
Settled(s) ==
  /\ pc[s] = "settling"
  /\ SignalTo(s, "entered")
  /\ cooling' = TRUE
  /\ UNCHANGED <<order, size, followVars, stops, pos, lost>>

-----------------------------------------------------------------------------
(* process_followup_signal *)

FollowTo(f, label) == fc' = [fc EXCEPT ![f] = label]
Keep(f, t) == task' = [task EXCEPT ![f] = t]
End(f, label) == FollowTo(f, label) /\ Keep(f, FreshTask)

Frame == UNCHANGED <<signalVars, order, size, lost>>

\* The router reads the row; then a language model parses the alert.
BeginFollowup(f) ==
  /\ fc[f] = "waiting"
  /\ FollowTo(f, "parsing")
  /\ Keep(f, [FreshTask EXCEPT !.row = size[TradeOf[f]]])
  /\ Frame /\ UNCHANGED <<stops, pos, misled, stood>>

\* stop_loss_hit and position_closed; the take profits, with the alert's
\* percentage or the default one; tp1_and_break_even, which is only a take
\* profit of half; the two moves of the stop loss; what is acknowledged, with
\* limit_order_cancelled among it; and what is not understood.
Parse(f) ==
  /\ fc[f] = "parsing"
  /\ \/ FollowTo(f, "looking") /\ UNCHANGED task
        /\ stood' = IF order[TradeOf[f]] = "filled" THEN stood \cup {f} ELSE stood
     \/ /\ \/ FollowTo(f, "sizing")
              /\ \E p \in {25, 50, 100} : Keep(f, [task[f] EXCEPT !.part = p])
           \/ task[f].row > 0 /\ FollowTo(f, "listing") /\ Keep(f, FreshTask)
           \/ FollowTo(f, "pricing") /\ UNCHANGED task
           \/ End(f, "noted") \/ End(f, "failed")
        /\ UNCHANGED stood
  /\ Frame /\ UNCHANGED <<stops, pos, misled>>

\* get_futures_position_information finds the contract of the coin.  A call
\* that fails returns an empty list, as an account without positions does.
Found == pos # 0 /\ SameName
FindsNone(f) ==
  \/ ~Found /\ UNCHANGED misled
  \/ misled' = misled \cup {f}

\* Is there a position to close?
Look(f) ==
  /\ fc[f] = "looking"
  /\ \/ Found /\ FollowTo(f, "sizing") /\ UNCHANGED <<task, misled>>
     \/ FindsNone(f) /\ End(f, "closed")
  /\ Frame /\ UNCHANGED <<stops, pos, stood>>

\* Python's round(x / y): a half goes to the even neighbour.
Rounded(x, y) ==
  LET q == x \div y
      r == 2 * (x % y)
  IN IF r < y \/ (r = y /\ q % 2 = 0) THEN q ELSE q + 1

AtLeastOne(n) == IF n < 1 THEN 1 ELSE n

\* close_position takes its amount for units of the coin and divides it by
\* the multiplier.  The row's size is in such units, the live one is not.
FromRow(n, part) == AtLeastOne(Rounded(n * part, 100))
FromPosition(n, part) == AtLeastOne(Rounded(n * part * Contracts, 100 * Assets))

Magnitude == IF pos < 0 THEN -pos ELSE pos

SizeIt(f) ==
  LET t == task[f]
  IN /\ fc[f] = "sizing"
     /\ \/ /\ t.row > 0
           /\ FollowTo(f, "checking")
           /\ Keep(f, [FreshTask EXCEPT !.want = FromRow(t.row, t.part)])
           /\ UNCHANGED misled
        \/ /\ t.row = 0 /\ Found
           /\ FollowTo(f, "checking")
           /\ Keep(f, [FreshTask EXCEPT !.want = FromPosition(Magnitude, t.part)])
           /\ UNCHANGED misled
        \/ t.row = 0 /\ FindsNone(f) /\ End(f, "closed")
     /\ Frame /\ UNCHANGED <<stops, pos, stood>>

\* Faulty variant: a position that cannot be seen is sold all the same, and
\* one that is seen counts as closed.
CheckPositionInverted(f) ==
  /\ fc[f] = "checking"
  /\ \/ Found /\ End(f, "closed") /\ UNCHANGED misled
     \/ FindsNone(f) /\ FollowTo(f, "selling") /\ UNCHANGED task
  /\ Frame /\ UNCHANGED <<stops, pos, stood>>

\* "Check if position exists before attempting to close (idempotency)"
CheckPosition(f) ==
  /\ fc[f] = "checking"
  /\ \/ Found /\ FollowTo(f, "selling") /\ UNCHANGED <<task, misled>>
     \/ FindsNone(f) /\ End(f, "closed")
  /\ Frame /\ UNCHANGED <<stops, pos, stood>>

\* Faulty variant: without reduce_only the position is turned around.
Crossed(side, n) == IF side = "SELL" THEN pos - n ELSE pos + n

\* What a reduce-only order of n contracts leaves of the position.
Reduced(side, n) ==
  IF side = "SELL" THEN IF pos > n THEN pos - n ELSE IF pos > 0 THEN 0 ELSE pos
  ELSE IF pos < -n THEN pos + n ELSE IF pos < 0 THEN 0 ELSE pos

CloseSide(f) == IF SideOf[TradeOf[f]] = "LONG" THEN "SELL" ELSE "BUY"

\* A reduce-only market order.  An error that names a missing position counts
\* as closed; another one, or a lost answer, is reported as a failure.
Sell(f) ==
  LET sold == Reduced(CloseSide(f), task[f].want)
  IN /\ fc[f] = "selling"
     /\ \/ sold # pos /\ pos' = sold /\ (End(f, "sold") \/ End(f, "failed"))
        \/ sold = pos /\ End(f, "closed") /\ UNCHANGED pos
        \/ End(f, "failed") /\ UNCHANGED pos
     /\ Frame /\ UNCHANGED <<stops, misled, stood>>

-----------------------------------------------------------------------------
(* Moving the stop loss *)

\* The entry price of the row or, without one, of the position, whose size
\* is then used; no price, or no size, is a failure.
Price(f) ==
  /\ fc[f] = "pricing"
  /\ \/ (task[f].row > 0 \/ Found) /\ FollowTo(f, "listing") /\ Keep(f, FreshTask)
     \/ End(f, "failed")
  /\ Frame /\ UNCHANGED <<stops, pos, misled, stood>>

\* _convert_order_type: the type a stop loss has at the exchange.
ConvertedType(type) == IF type \in {"LIMIT", "STOP_LIMIT"} THEN "LIMIT" ELSE "MARKET"

\* The stop losses that are found among the open orders and cancelled: those
\* of type STOP or STOP_MARKET.
Recognised == ConvertedType("STOP_MARKET") \in {"STOP", "STOP_MARKET"}

CancelOld(f) ==
  /\ fc[f] = "listing"
  /\ FollowTo(f, "placing")
  /\ \/ stops' = [g \in Followups |-> IF Recognised THEN 0 ELSE stops[g]]
     \/ UNCHANGED stops
  /\ Frame /\ UNCHANGED <<task, pos, misled, stood>>

\* Faulty variant: the attempt is counted when it is too late to stop.
RetryPriceUnbounded(f) ==
  /\ fc[f] = "placing"
  /\ Keep(f, [task[f] EXCEPT !.attempt = IF @ > MaxAttempts THEN @ ELSE @ + 1])
  /\ Frame /\ UNCHANGED <<fc, exchange, misled, stood>>

\* Faulty variant: after the last attempt the count starts again.
RetryPriceAgain(f) ==
  /\ fc[f] = "placing"
  /\ Keep(f, [task[f] EXCEPT !.attempt = IF @ = MaxAttempts THEN 1 ELSE @ + 1])
  /\ Frame /\ UNCHANGED <<fc, exchange, misled, stood>>

\* No price on this attempt: another one after a pause.
RetryPrice(f) ==
  /\ fc[f] = "placing"
  /\ task[f].attempt < MaxAttempts
  /\ Keep(f, [task[f] EXCEPT !.attempt = @ + 1])
  /\ Frame /\ UNCHANGED <<fc, exchange, misled, stood>>

\* Faulty variant: any error is tried again, not only a missing price.
PlaceStopRetrying(f) ==
  /\ fc[f] = "placing"
  /\ \/ stops' = [stops EXCEPT ![f] = @ + 1] /\ End(f, "moved")
     \/ /\ stops' = [stops EXCEPT ![f] = @ + 1]
        /\ task[f].attempt < MaxAttempts
        /\ Keep(f, [task[f] EXCEPT !.attempt = @ + 1]) /\ UNCHANGED fc
     \/ UNCHANGED stops /\ End(f, "failed")
  /\ Frame /\ UNCHANGED <<pos, misled, stood>>

\* One stop loss of one contract, side SELL.  Only a missing price is retried,
\* and that comes before the request: an order that may exist never is.
PlaceStop(f) ==
  /\ fc[f] = "placing"
  /\ \/ stops' = [stops EXCEPT ![f] = @ + 1] /\ (End(f, "moved") \/ End(f, "failed"))
     \/ UNCHANGED stops /\ End(f, "failed")
  /\ Frame /\ UNCHANGED <<pos, misled, stood>>

-----------------------------------------------------------------------------
(* KuCoin, the clock, the jobs and the end of the process *)

EntryFills(s) ==
  /\ order[s] = "resting"
  /\ order' = [order EXCEPT ![s] = "filled"]
  /\ pos' = IF SideOf[s] = "LONG" THEN pos + 1 ELSE pos - 1
  /\ UNCHANGED <<signalVars, size, followVars, stops, lost>>

EntryEnds(s) ==
  /\ order[s] = "resting"
  /\ order' = [order EXCEPT ![s] = "gone"]
  /\ UNCHANGED <<signalVars, size, followVars, stops, pos, lost>>

StopTriggers(f) ==
  /\ stops[f] > 0
  /\ stops' = [stops EXCEPT ![f] = @ - 1]
  /\ pos' = Reduced("SELL", 1)
  /\ UNCHANGED <<signalVars, order, size, followVars, lost>>

\* The KuCoin job stores the coin's whole position in each of its rows.
JobStoresSize(s) ==
  /\ pos # 0
  /\ size' = [size EXCEPT ![s] = Magnitude]
  /\ UNCHANGED <<signalVars, order, followVars, stops, pos, lost>>

CooldownEnds ==
  /\ cooling /\ cooling' = FALSE
  /\ UNCHANGED <<pc, order, size, followVars, stops, pos, lost>>

\* The process ends and starts again: tasks and cooldowns are gone.
Restart ==
  /\ cooling' = FALSE
  /\ pc' = [s \in Signals |->
              IF pc[s] \in SignalEnded \cup {"received"} THEN pc[s] ELSE "cut"]
  /\ fc' = [f \in Followups |->
              IF fc[f] \in FollowupEnded \cup {"waiting"} THEN fc[f] ELSE "cut"]
  /\ task' = [f \in Followups |-> FreshTask]
  /\ UNCHANGED <<order, size, stops, pos, lost, misled, stood>>

-----------------------------------------------------------------------------
SignalStep(s) ==
  CheckCooldown(s) \/ Check(s) \/ SubmitRefused(s) \/ SubmitAccepted(s)
    \/ SubmitAnswerLost(s) \/ Settled(s)

FollowupStep(f) ==
  BeginFollowup(f) \/ Parse(f) \/ Look(f) \/ SizeIt(f) \/ CheckPosition(f)
    \/ Sell(f) \/ Price(f) \/ CancelOld(f) \/ RetryPrice(f) \/ PlaceStop(f)

Environment ==
  \/ \E s \in Signals : EntryFills(s) \/ EntryEnds(s) \/ JobStoresSize(s)
  \/ \E f \in Followups : StopTriggers(f)
  \/ CooldownEnds \/ Restart

Next ==
  \/ \E s \in Signals : SignalStep(s)
  \/ \E f \in Followups : FollowupStep(f)
  \/ Environment

Spec == Init /\ [][Next]_vars

\* Tasks are scheduled, and every call has a timeout.
FairSpec ==
  /\ Spec
  /\ \A s \in Signals : WF_vars(SignalStep(s))
  /\ \A f \in Followups : WF_vars(FollowupStep(f))

-----------------------------------------------------------------------------
\* Whatever became of the order, a signal that is answered with a failure has
\* none at KuCoin unless the answer of the exchange was lost, and one that is
\* answered with success, or cut off while its order settled, has one.
AnswersTrue ==
  \A s \in Signals :
    /\ pc[s] = "failed" /\ s \notin lost => order[s] = "none"
    /\ pc[s] \in {"settling", "entered"} => order[s] # "none"

\* However often place_stop_loss_with_retry tries, and whichever answers are
\* lost, a follow-up leaves at most one new stop loss.
OneStopPerUpdate == \A f \in Followups : stops[f] <= 1

\* Only the fill of an entry makes a position larger or opens one: no close
\* with a stale size or in the wrong unit, no stop loss left over from an
\* earlier trade, turns the position around.
OnlyEntriesGrow ==
  [][\/ pos' * pos >= 0 /\ Magnitude' <= Magnitude
     \/ \E s \in Signals : order[s] = "resting" /\ order'[s] = "filled"]_vars

\* The position of the coin as PositionContract has it: each signal's entry
\* counts once, in its own direction, and closes, stop losses, retries and the
\* sizes the job stores only take from what the entries made.
OrdersIn(state) == {s \in Signals : order[s] = state}
OnSide(side) == {s \in Signals : SideOf[s] = side}
Contract == INSTANCE PositionContract WITH
  Longs <- OnSide("LONG"), Shorts <- OnSide("SHORT"), Amount <- 1, position <- pos,
  entered <- OrdersIn("filled"), withdrawn <- OrdersIn("gone")
PositionHeld == Contract!Spec

\* Where the contract has the name of the coin (SameName), a trade alone on its
\* coin that had been filled when its position_closed was understood has no
\* position once that is answered as done, sold or found closed, if no read of
\* the positions failed.
ClosedIsFlat ==
  \A f \in stood \ misled :
    /\ fc[f] \in {"sold", "closed"}
    /\ \A s \in Signals \ {TradeOf[f]} : order[s] # "filled"
    => pos = 0

\* Every signal and every follow-up is answered.
TasksEnd ==
  <>(/\ \A s \in Signals : pc[s] \in SignalEnded
     /\ \A f \in Followups : fc[f] \in FollowupEnded)
=============================================================================
