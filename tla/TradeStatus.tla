---------------------------- MODULE TradeStatus ----------------------------
(***************************************************************************)
(* The status vocabulary of a row of the "trades" table and the rules      *)
(* every writer of the two status columns goes through:                    *)
(*   - StatusManager     (src/src/core/status_manager.py)                  *)
(*   - StatusValidator   (src/src/database/validators/status_validator.py) *)
(* A row carries "order" (column order_status, what the exchange says of   *)
(* the entry order) and "status" (column status, what became of the        *)
(* position).  The module has no state: it is used by every module that    *)
(* writes a row.                                                           *)
(***************************************************************************)

\* A column that is NULL, and a key that is absent from an update.
Unset == "unset"

\* The values of ORDER_STATUS, plus FAILED, which only the bot itself writes.
OrderStatuses == {"NEW", "PARTIALLY_FILLED", "FILLED", "CANCELED",
                  "REJECTED", "EXPIRED", "FAILED"}

PositionStatuses == {"PENDING", "ACTIVE", "CLOSED", "FAILED", "CANCELLED"}

\* What an exchange or an engine puts in the "status" field of a response or
\* of an execution report.  OPEN and CANCELLED are spellings the code meets.
ExchangeStatuses == {"NEW", "PARTIALLY_FILLED", "FILLED", "CANCELED",
                     "CANCELLED", "REJECTED", "EXPIRED", "OPEN", "NONE"}

-----------------------------------------------------------------------------

\* ORDER_STATUS.get(exchange_status, 'NEW')
ToOrderStatus(s) ==
  IF s = "CANCELLED" THEN "CANCELED"
  ELSE IF s \in OrderStatuses \ {"FAILED"} THEN s ELSE "NEW"

\* sized: the position_size argument is positive.
ToPositionStatus(o, sized) ==
  IF o = "FILLED" THEN (IF sized THEN "ACTIVE" ELSE "CLOSED")
  ELSE IF o = "PARTIALLY_FILLED" /\ sized THEN "ACTIVE"
  ELSE IF o \in {"CANCELED", "EXPIRED"} THEN "CANCELLED"
  ELSE IF o = "REJECTED" THEN "FAILED"
  ELSE "PENDING"

MapExchangeToInternal(s, sized) ==
  [order |-> ToOrderStatus(s),
   status |-> ToPositionStatus(ToOrderStatus(s), sized)]

\* valid_combinations of validate_status_consistency.
ValidPairs ==
  {<<"NEW", "PENDING">>,
   <<"PARTIALLY_FILLED", "ACTIVE">>, <<"PARTIALLY_FILLED", "PENDING">>,
   <<"FILLED", "ACTIVE">>, <<"FILLED", "CLOSED">>,
   <<"CANCELED", "CANCELLED">>, <<"CANCELLED", "CANCELLED">>,
   <<"EXPIRED", "CANCELLED">>,
   <<"REJECTED", "FAILED">>, <<"FAILED", "FAILED">>}

Consistent(o, p) == <<o, p>> \in ValidPairs

\* fix_inconsistent_status corrects the position status, never the order's.
FixPosition(o, p) ==
  IF o = "FILLED" /\ p = "PENDING" THEN "ACTIVE"
  ELSE IF o \in {"CANCELED", "CANCELLED"} /\ p = "ACTIVE" THEN "CANCELLED"
  ELSE IF o = "REJECTED" /\ p = "ACTIVE" THEN "FAILED"
  ELSE IF o = "NEW" /\ p = "CLOSED" THEN "PENDING"
  ELSE p

-----------------------------------------------------------------------------

(***************************************************************************)
(* validate_trade_update.  An update u and a row cur are records with      *)
(* fields order and status, either of which may be Unset; sized says       *)
(* whether the row has a positive position_size.                           *)
(***************************************************************************)

\* A key the update lacks is taken from the current row.
Effective(u, cur) ==
  [order |-> IF u.order = Unset THEN cur.order ELSE u.order,
   status |-> IF u.status = Unset THEN cur.status ELSE u.status]

Touches(u) == u.order # Unset \/ u.status # Unset

\* The update is refused: the pair is inconsistent and the fix does not help.
UpdateRefused(u, cur) ==
  LET e == Effective(u, cur)
  IN /\ Touches(u)
     /\ e.order # Unset /\ e.status # Unset
     /\ ~Consistent(e.order, e.status)
     /\ ~Consistent(e.order, FixPosition(e.order, e.status))

\* The pair the row holds once an accepted update has been written.
UpdatedPair(u, cur, sized) ==
  LET e == Effective(u, cur)
  IN IF ~Touches(u) THEN [order |-> cur.order, status |-> cur.status]
     ELSE IF e.order # Unset /\ e.status # Unset
          THEN [order |-> e.order,
                status |-> IF Consistent(e.order, e.status) THEN e.status
                           ELSE FixPosition(e.order, e.status)]
     ELSE IF e.order # Unset
          THEN [order |-> e.order,
                status |-> ToPositionStatus(ToOrderStatus(e.order), sized)]
     ELSE e

\* What every stored row satisfies: a pair is consistent once both are known.
PairConsistent(r) ==
  (r.order # Unset /\ r.status # Unset) => Consistent(r.order, r.status)
=============================================================================
