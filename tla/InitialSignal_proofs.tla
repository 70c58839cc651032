------------------------ MODULE InitialSignal_proofs ------------------------
(***************************************************************************)
(* Safety of InitialSignal for any number of deliveries, signals, coins,   *)
(* traders and orders, and its refinement of EntryContract.  Liveness       *)
(* (TasksEnd) is left to TLC.                                              *)
(***************************************************************************)
EXTENDS InitialSignalContract, TLAPS

Updates == [order : OrderStatuses \cup {Unset},
            status : PositionStatuses \cup {Unset}]

-----------------------------------------------------------------------------
(* The status rules of TradeStatus, for every status value *)

\* map_exchange_to_internal never produces a pair that the validator would
\* call inconsistent, whatever the exchange sends and whatever the size is.
LEMMA MapConsistent ==
  ASSUME NEW s, NEW sized \in BOOLEAN
  PROVE  LET m == MapExchangeToInternal(s, sized)
         IN /\ Consistent(m.order, m.status)
            /\ m.order \in OrderStatuses \ {"FAILED"}
            /\ m.status \in PositionStatuses
<1>1. ToOrderStatus(s) \in OrderStatuses \ {"FAILED"}
  <2>1. CASE s = "CANCELLED"
    BY <2>1 DEF ToOrderStatus, OrderStatuses
  <2>2. CASE s # "CANCELLED" /\ s \in OrderStatuses \ {"FAILED"}
    BY <2>2 DEF ToOrderStatus
  <2>3. CASE s # "CANCELLED" /\ s \notin OrderStatuses \ {"FAILED"}
    BY <2>3 DEF ToOrderStatus, OrderStatuses
  <2>4. QED BY <2>1, <2>2, <2>3
<1>2. \A o \in OrderStatuses \ {"FAILED"} :
         /\ Consistent(o, ToPositionStatus(o, sized))
         /\ ToPositionStatus(o, sized) \in PositionStatuses
  BY DEF OrderStatuses, PositionStatuses, Consistent, ValidPairs,
         ToPositionStatus
<1>3. QED BY <1>1, <1>2 DEF MapExchangeToInternal

\* An update the validator accepts leaves a row that was consistent (or had a
\* NULL column) consistent: no writer that goes through update_existing_trade
\* can store an inconsistent pair.
LEMMA AcceptedConsistent ==
  ASSUME NEW u, NEW cur, NEW sized \in BOOLEAN,
         PairConsistent(cur), ~UpdateRefused(u, cur),
         u.order \in OrderStatuses \cup {Unset},
         cur.order \in OrderStatuses \cup {Unset},
         Effective(u, cur).order = "FAILED" => Effective(u, cur).status # Unset
  PROVE  PairConsistent(UpdatedPair(u, cur, sized))
<1> DEFINE e == Effective(u, cur)
<1>1. CASE ~Touches(u)
  BY <1>1 DEF UpdatedPair, PairConsistent
<1>2. CASE Touches(u) /\ e.order # Unset /\ e.status # Unset
  <2>1. Consistent(e.order, e.status)
           \/ Consistent(e.order, FixPosition(e.order, e.status))
    BY <1>2 DEF UpdateRefused
  <2>2. UpdatedPair(u, cur, sized) =
           [order |-> e.order,
            status |-> IF Consistent(e.order, e.status) THEN e.status
                       ELSE FixPosition(e.order, e.status)]
    BY <1>2 DEF UpdatedPair
  <2>3. QED BY <2>1, <2>2 DEF PairConsistent
<1>3. CASE Touches(u) /\ e.order # Unset /\ e.status = Unset
  <2>1. e.order \in OrderStatuses \ {"FAILED"}
    BY <1>3 DEF Effective
  <2>2. \A o \in OrderStatuses \ {"FAILED"} : ToOrderStatus(o) = o
    BY DEF OrderStatuses, ToOrderStatus
  <2>3. MapExchangeToInternal(e.order, sized).order = e.order
    BY <2>1, <2>2 DEF MapExchangeToInternal
  <2>4. Consistent(e.order, ToPositionStatus(ToOrderStatus(e.order), sized))
    BY <2>3, MapConsistent DEF MapExchangeToInternal
  <2>5. UpdatedPair(u, cur, sized) =
           [order |-> e.order,
            status |-> ToPositionStatus(ToOrderStatus(e.order), sized)]
    BY <1>3 DEF UpdatedPair
  <2>6. QED BY <2>4, <2>5 DEF PairConsistent
<1>4. CASE Touches(u) /\ e.order = Unset
  <2>1. UpdatedPair(u, cur, sized) = e
    BY <1>4 DEF UpdatedPair
  <2>2. QED BY <1>4, <2>1 DEF PairConsistent
<1>5. QED BY <1>1, <1>2, <1>3, <1>4

-----------------------------------------------------------------------------
(* The writers of a row *)

\* The automatic correction of a pair stays among the position statuses.
LEMMA Fixes ==
  \A o \in OrderStatuses, p \in PositionStatuses :
     FixPosition(o, p) \in PositionStatuses
BY DEF PositionStatuses, FixPosition

\* What a write that the validator accepts stores is a legal pair.
LEMMA UpdatedPairType ==
  ASSUME NEW u \in Updates, NEW cur \in Rows
  PROVE  UpdatedPair(u, cur, FALSE) \in Updates
<1>1. \A o \in OrderStatuses :
         ToPositionStatus(ToOrderStatus(o), FALSE) \in PositionStatuses
  BY DEF OrderStatuses, PositionStatuses, ToPositionStatus, ToOrderStatus
<1>2. QED
  BY <1>1, Fixes DEF UpdatedPair, Effective, Touches, Updates, Rows

\* A write touches the row of its own signal only, keeps the table typed,
\* never forgets an order id, and keeps a consistent pair consistent.
LEMMA WriteRowEffect ==
  ASSUME TypeOK, NEW s \in Signals, NEW u \in Updates,
         NEW oid \in OrderIds \cup {None}, WriteRow(s, u, oid),
         u.order = "FAILED" => u.status # Unset, RowExists(s)
  PROVE  /\ row' \in [Signals -> Rows]
         /\ \A q \in Signals \ {s} : row'[q] = row[q]
         /\ row'[s].oid \in {row[s].oid, oid}
         /\ oid = None => row'[s].oid = row[s].oid
         /\ row'[s].status # Unset
         /\ PairConsistent(row[s]) => PairConsistent(row'[s])
<1> DEFINE p == UpdatedPair(u, row[s], FALSE)
<1>0. row \in [Signals -> Rows] /\ row[s] \in Rows
  BY DEF TypeOK
<1>1. CASE UpdateRefused(u, row[s])
  BY <1>0, <1>1 DEF WriteRow, RowExists
<1>2. CASE ~UpdateRefused(u, row[s])
  <2>1. row' = [row EXCEPT ![s] =
                  [order |-> p.order, status |-> p.status,
                   oid |-> IF oid = None THEN row[s].oid ELSE oid]]
    BY <1>0, <1>2 DEF WriteRow
  <2>2. p \in Updates
    BY <1>0, UpdatedPairType
  <2>3. row' \in [Signals -> Rows] /\ row'[s].oid \in {row[s].oid, oid}
        /\ (oid = None => row'[s].oid = row[s].oid)
        /\ \A q \in Signals \ {s} : row'[q] = row[q]
    BY <1>0, <2>1, <2>2 DEF Rows, Updates
  <2>4. ASSUME PairConsistent(row[s]) PROVE PairConsistent(row'[s])
    <3>1. Effective(u, row[s]).status # Unset
      BY <1>0 DEF Effective, RowExists
    <3>2. PairConsistent(p)
      BY <1>0, <1>2, <2>4, <3>1, AcceptedConsistent DEF Updates, Rows
    <3>3. row'[s].order = p.order /\ row'[s].status = p.status
      BY <1>0, <2>1
    <3>4. QED BY <3>2, <3>3 DEF PairConsistent
  <2>5. p.status # Unset
    BY <1>0, <1>2, Fixes DEF UpdatedPair, Effective, Touches, RowExists, Updates,
       Rows, PositionStatuses, Unset
  <2>6. row'[s].status # Unset
    BY <1>0, <2>1, <2>5
  <2>7. QED BY <2>3, <2>4, <2>6
<1>3. QED BY <1>1, <1>2

\* The failure writes: lost or stored, they keep the order id of the row.
LEMMA FailTradeEffect ==
  ASSUME TypeOK, NEW h \in Deliveries, FailTrade(h), RowExists(SignalOf[h])
  PROVE  LET s == SignalOf[h]
         IN /\ row' \in [Signals -> Rows]
            /\ \A q \in Signals \ {s} : row'[q] = row[q]
            /\ row'[s].oid = row[s].oid
            /\ row'[s].status # Unset
            /\ PairConsistent(row[s]) => PairConsistent(row'[s])
<1> DEFINE s == SignalOf[h]
           u == [order |-> "FAILED", status |-> "FAILED"]
<1>0. s \in Signals /\ row \in [Signals -> Rows]
  BY DeliveryAssumption DEF TypeOK
<1>1. CASE row' = row
  BY <1>0, <1>1 DEF RowExists
<1>2. CASE WriteRow(s, u, None)
  <2>1. u \in Updates /\ u.status # Unset
    BY DEF Updates, OrderStatuses, PositionStatuses, Unset
  <2>2. QED BY <1>0, <1>2, <2>1, WriteRowEffect
<1>3. QED BY <1>1, <1>2 DEF FailTrade

-----------------------------------------------------------------------------
(* Types, and the row every working task has *)

WorkingHasRow ==
  \A h \in Deliveries : pc[h] \in Working => RowExists(SignalOf[h])

Base == TypeOK /\ WorkingHasRow

LEMMA InitBase == Init => Base
BY DeliveryAssumption, RetryAssumption
   DEF Init, Base, TypeOK, WorkingHasRow, Waiting, Working, Ended, FreshTask,
       NoRow, NoOrder, RowExists, Tasks, Rows, Orders

\* What a step that moves only the task of h may do to the row of its signal.
LEMMA RowKept ==
  ASSUME Base, NEW h \in Deliveries,
         row' \in [Signals -> Rows],
         \A q \in Signals \ {SignalOf[h]} : row'[q] = row[q],
         row'[SignalOf[h]].status # Unset,
         \A g \in Deliveries \ {h} : pc'[g] = pc[g]
  PROVE  WorkingHasRow'
BY DeliveryAssumption DEF Base, WorkingHasRow, RowExists

\* A task that ends on the failure path keeps types and rows.
LEMMA FailBase ==
  ASSUME Base, NEW h \in Deliveries, pc[h] \in Working, FailTrade(h),
         ord' \in [OrderIds -> Orders], engineTrader' \in Traders \cup {None},
         UNCHANGED <<leverage, cooling>>, clean' \in [Signals -> BOOLEAN]
  PROVE  Base'
<1>1. SignalOf[h] \in Signals /\ TypeOK /\ FreshTask \in Tasks
      /\ RowExists(SignalOf[h])
  BY DeliveryAssumption, RetryAssumption
     DEF Base, FreshTask, Tasks, WorkingHasRow
<1>2. /\ row' \in [Signals -> Rows]
      /\ \A q \in Signals \ {SignalOf[h]} : row'[q] = row[q]
      /\ row'[SignalOf[h]].status # Unset
  BY <1>1, FailTradeEffect
<1>3. TypeOK'
  BY <1>1, <1>2 DEF TypeOK, FailTrade, End, GoTo, Ended
<1>4. WorkingHasRow'
  BY <1>1, <1>2, RowKept DEF TypeOK, FailTrade, End, GoTo
<1>5. QED BY <1>3, <1>4 DEF Base

LEMMA RouteBase ==
  ASSUME Base, NEW h \in Deliveries, NEW again \in BOOLEAN,
         pc[h] \in Working, Route(h, again)
  PROVE  Base'
<1>1. SignalOf[h] \in Signals /\ TypeOK /\ RowExists(SignalOf[h])
      /\ TraderOf[SignalOf[h]] \in Traders
  BY DeliveryAssumption DEF Base, WorkingHasRow
<1>2. CASE cooling[CoinOf[SignalOf[h]]]
  BY <1>1, <1>2, FailBase DEF TypeOK, Route
<1>3. CASE ~cooling[CoinOf[SignalOf[h]]]
  <2>1. TypeOK'
    BY <1>1, <1>3 DEF TypeOK, Route, GoTo, Tasks, Waiting
  <2>2. WorkingHasRow'
    BY <1>1, <1>3 DEF TypeOK, Base, WorkingHasRow, RowExists, Route, GoTo
  <2>3. QED BY <2>1, <2>2 DEF Base
<1>4. QED BY <1>2, <1>3

LEMMA PrepareBase ==
  ASSUME Base, NEW h \in Deliveries, Prepare(h)
  PROVE  Base'
<1> USE DEF Waiting, Working, Ended
<1>0. SignalOf[h] \in Signals /\ TypeOK /\ FreshTask \in Tasks
      /\ TraderOf[SignalOf[h]] \in Traders
  BY DeliveryAssumption, RetryAssumption DEF Base, FreshTask, Tasks
<1>1. CASE Reject(h) \/ LookupSkips(h) \/ LookupFails(h) \/ ParseFindsNoPrice(h)
  BY <1>0, <1>1 DEF TypeOK, Base, WorkingHasRow, RowExists, Reject, LookupSkips, LookupFails,
         ParseFindsNoPrice, End, GoTo
<1>2. CASE Lookup(h)
  <2>1. TypeOK'
    BY <1>0, <1>2 DEF TypeOK, Lookup, GoTo, NoRow, Rows, PositionStatuses
  <2>2. RowExists(SignalOf[h])'
    BY <1>0, <1>2 DEF TypeOK, Lookup, RowExists, NoRow, Unset
  <2>3. WorkingHasRow'
    BY <1>0, <1>2, <2>1, <2>2 DEF TypeOK, Base, WorkingHasRow, Lookup, GoTo, RowExists
  <2>4. QED BY <2>1, <2>3 DEF Base
<1>3. CASE ParseFails(h)
  <2>1. RowExists(SignalOf[h])
    BY <1>0, <1>3 DEF Base, WorkingHasRow, ParseFails
  <2> DEFINE u == [order |-> Unset, status |-> "FAILED"]
  <2>2. u \in Updates /\ u.order # "FAILED"
    BY DEF Updates, PositionStatuses, Unset
  <2>3. /\ row' \in [Signals -> Rows]
        /\ \A q \in Signals \ {SignalOf[h]} : row'[q] = row[q]
        /\ row'[SignalOf[h]].status # Unset
    <3>1. CASE WriteRow(SignalOf[h], u, None)
      BY <1>0, <2>1, <2>2, <3>1, WriteRowEffect
    <3>2. CASE row' = row
      BY <1>0, <2>1, <3>2 DEF TypeOK, RowExists
    <3>3. QED BY <1>3, <3>1, <3>2 DEF ParseFails
  <2>4. TypeOK'
    BY <1>0, <1>3, <2>3 DEF TypeOK, ParseFails, End, GoTo
  <2>5. WorkingHasRow'
    BY <1>0, <1>3, <2>3, RowKept DEF TypeOK, ParseFails, End, GoTo
  <2>6. QED BY <2>4, <2>5 DEF Base
<1>4. CASE ParseOk(h)
  BY <1>4, RouteBase DEF ParseOk
<1>5. QED BY <1>1, <1>2, <1>3, <1>4 DEF Prepare

\* The order the exchange creates has the size the task computed.
LEMMA AcceptType ==
  ASSUME TypeOK, NEW h \in Deliveries, NEW o \in OrderIds, Accept(h, o)
  PROVE  ord' \in [OrderIds -> Orders]
BY DeliveryAssumption DEF Accept, TypeOK, Tasks, Orders

\* The answers without an order id keep types and rows.
LEMMA AfterErrorBase ==
  ASSUME Base, NEW h \in Deliveries, pc[h] \in Submitting, AfterError(h),
         ord' \in [OrderIds -> Orders], clean' \in [Signals -> BOOLEAN],
         UNCHANGED <<engineTrader, leverage, cooling>>
  PROVE  Base'
<1>0. TypeOK /\ pc[h] \in Working
  BY DEF Base, Submitting, Working, Waiting
<1>1. CASE FailTrade(h)
  BY <1>0, <1>1, FailBase DEF TypeOK
<1>2. CASE /\ task[h].attempts < MaxRetries
           /\ task' = [task EXCEPT ![h].attempts = @ + 1]
           /\ UNCHANGED <<pc, row>>
  <2>1. task[h].attempts + 1 \in 0..MaxRetries
    BY <1>0, <1>2, RetryAssumption DEF TypeOK, Tasks
  <2>2. task' \in [Deliveries -> Tasks]
    BY <1>0, <1>2, <2>1 DEF TypeOK, Tasks
  <2>3. QED
    BY <1>0, <1>2, <2>2 DEF TypeOK, Base, WorkingHasRow, RowExists
<1>3. CASE GoTo(h, "limit") /\ UNCHANGED <<task, row>>
  BY <1>0, <1>3
     DEF TypeOK, GoTo, Base, WorkingHasRow, RowExists, Waiting, Working
<1>4. QED BY <1>1, <1>2, <1>3 DEF AfterError

\* Steps of the execution that fail the trade, or leave the rows alone.
LEMMA ExecuteBase ==
  ASSUME Base, NEW h \in Deliveries, Execute(h)
  PROVE  Base'
<1>0. SignalOf[h] \in Signals /\ CoinOf[SignalOf[h]] \in Coins /\ TypeOK
      /\ FreshTask \in Tasks
  BY DeliveryAssumption, RetryAssumption DEF Base, FreshTask, Tasks
<1>1. CASE CheckFails(h) \/ PositionLimitsRefuse(h)
  BY <1>0, <1>1, FailBase
     DEF CheckFails, PositionLimitsRefuse, TypeOK, Working, Waiting
<1>2. CASE CheckSuggestsSize(h)
  BY <1>0, <1>2, RouteBase DEF CheckSuggestsSize, Working, Waiting
<1>3. CASE CalculateTradeAmount(h) \/ ResolveLeverage(h)
  <2>1. task' \in [Deliveries -> Tasks]
    <3>1. CASE CalculateTradeAmount(h)
      BY <1>0, <3>1 DEF CalculateTradeAmount, TypeOK, Tasks
    <3>2. CASE ResolveLeverage(h)
      BY <1>0, <3>2 DEF ResolveLeverage, TypeOK, Tasks
    <3>3. QED BY <1>3, <3>1, <3>2
  <2>2. QED
    BY <1>0, <1>3, <2>1
       DEF CalculateTradeAmount, ResolveLeverage, TypeOK, GoTo, Base,
           WorkingHasRow, RowExists, Waiting, Working
<1>4. CASE SetLeverage(h)
  BY <1>0, <1>4
     DEF SetLeverage, TypeOK, Tasks, GoTo, Base, WorkingHasRow, RowExists,
         Waiting, Working
<1>5. CASE SubmitRefused(h)
  BY <1>0, <1>5, AfterErrorBase DEF SubmitRefused, TypeOK
<1>6. CASE LimitExpires(h)
  <2>1. CASE task[h].attempts = MaxRetries /\ FailTrade(h)
    BY <1>0, <1>6, <2>1, FailBase DEF LimitExpires, TypeOK, Working, Waiting
  <2>2. CASE GoTo(h, "converting") /\ UNCHANGED <<task, row>>
    BY <1>0, <1>6, <2>2
       DEF LimitExpires, TypeOK, GoTo, Base, WorkingHasRow, RowExists,
           Waiting, Working
  <2>3. QED BY <1>6, <2>1, <2>2 DEF LimitExpires
<1>7. CASE Finish(h)
  <2> DEFINE m == MapExchangeToInternal("OPEN", FALSE)
             s == SignalOf[h]
  <2>1. m \in Updates /\ m.order # "FAILED"
    BY MapConsistent DEF Updates, MapExchangeToInternal, OrderStatuses
  <2>2. RowExists(s) /\ task[h].oid \in OrderIds \cup {None}
    BY <1>0, <1>7
       DEF Base, WorkingHasRow, Finish, Working, Waiting, TypeOK, Tasks
  <2>3. /\ row' \in [Signals -> Rows]
        /\ \A q \in Signals \ {s} : row'[q] = row[q]
        /\ row'[s].status # Unset
    <3>1. CASE WriteRow(s, m, task[h].oid)
      BY <1>0, <2>1, <2>2, <3>1, WriteRowEffect
    <3>2. CASE row' = row
      BY <1>0, <2>2, <3>2 DEF TypeOK, RowExists
    <3>3. QED BY <1>7, <3>1, <3>2 DEF Finish
  <2>4. TypeOK'
    BY <1>0, <1>7, <2>3 DEF Finish, End, GoTo, TypeOK, Ended
  <2>5. WorkingHasRow'
    BY <1>0, <1>7, <2>3, RowKept DEF TypeOK, Finish, End, GoTo
  <2>6. QED BY <2>4, <2>5 DEF Base
<1>8. CASE \E o \in OrderIds : SubmitAccepted(h, o)
  <2>1. PICK o \in OrderIds : SubmitAccepted(h, o)
    BY <1>8
  <2>2. ord' \in [OrderIds -> Orders]
    BY <1>0, <2>1, AcceptType DEF SubmitAccepted
  <2>3. QED
    BY <1>0, <2>1, <2>2
       DEF SubmitAccepted, Submitting, TypeOK, Tasks, GoTo, Base,
           WorkingHasRow, RowExists, Waiting, Working
<1>9. CASE \E o \in OrderIds : SubmitAnswerLost(h, o)
  <2>1. PICK o \in OrderIds : SubmitAnswerLost(h, o)
    BY <1>9
  <2>2. ord' \in [OrderIds -> Orders]
    BY <1>0, <2>1, AcceptType DEF SubmitAnswerLost
  <2>3. QED
    BY <1>0, <2>1, <2>2, AfterErrorBase DEF SubmitAnswerLost, TypeOK
<1>10. QED
  BY <1>1, <1>2, <1>3, <1>4, <1>5, <1>6, <1>7, <1>8, <1>9 DEF Execute

LEMMA EnvironmentBase ==
  ASSUME Base, Environment
  PROVE  Base'
<1>1. CASE \E o \in OrderIds : Fill(o)
  <2>1. PICK o \in OrderIds : Fill(o)
    BY <1>1
  <2>2. ord' = [ord EXCEPT ![o] = [@ EXCEPT !.filled = TRUE, !.news = TRUE]]
    BY <2>1 DEF Fill
  <2>3. ord' \in [OrderIds -> Orders]
    BY <2>2 DEF Base, TypeOK, Orders
  <2>4. QED
    BY <2>1, <2>3 DEF Fill, Base, TypeOK, WorkingHasRow, RowExists
<1>2. CASE \E o \in OrderIds : DeliverFill(o)
  <2> DEFINE m == MapExchangeToInternal("FILLED", TRUE)
  <2>1. PICK o \in OrderIds : DeliverFill(o)
    BY <1>2
  <2>2. m.order \in OrderStatuses /\ m.status \in PositionStatuses
    BY MapConsistent
  <2>3. \A s \in Signals :
          /\ row'[s] \in Rows
          /\ row'[s].status = Unset => row[s].status = Unset
    BY <2>1, <2>2
       DEF DeliverFill, Base, TypeOK, Rows, PositionStatuses, Unset
  <2>4. TypeOK'
    BY <2>1, <2>3 DEF DeliverFill, Base, TypeOK, Orders
  <2>5. WorkingHasRow'
    BY <2>1, <2>3, DeliveryAssumption
       DEF DeliverFill, Base, WorkingHasRow, RowExists
  <2>6. QED BY <2>4, <2>5 DEF Base
<1>3. CASE \E c \in Coins : CooldownEnds(c)
  BY <1>3 DEF Base, TypeOK, CooldownEnds, WorkingHasRow, RowExists
<1>4. QED BY <1>1, <1>2, <1>3 DEF Environment

LEMMA NextBase == Base /\ [Next]_vars => Base'
<1> SUFFICES ASSUME Base, [Next]_vars PROVE Base'
  OBVIOUS
<1>1. CASE \E h \in Deliveries : Step(h)
  BY <1>1, PrepareBase, ExecuteBase DEF Step
<1>2. CASE Environment
  BY <1>2, EnvironmentBase
<1>3. CASE UNCHANGED vars
  BY <1>3 DEF vars, Base, TypeOK, WorkingHasRow, RowExists
<1>4. QED BY <1>1, <1>2, <1>3 DEF Next

\* Every reachable state is typed, and every task that works on a signal
\* works on a row that was inserted.
THEOREM TypeCorrect == Spec => [](TypeOK /\ WorkingHasRow)
<1>1. Spec => []Base
  BY InitBase, NextBase, PTL DEF Spec
<1>2. Base => TypeOK /\ WorkingHasRow
  BY DEF Base
<1>3. QED BY <1>1, <1>2, PTL

-----------------------------------------------------------------------------
(* Every stored pair of statuses is consistent *)

\* The steps of a task: only five writes touch a row.
LEMMA StepConsistent ==
  ASSUME Base, RowsConsistent, NEW h \in Deliveries, Step(h)
  PROVE  RowsConsistent'
<1> DEFINE s == SignalOf[h]
<1>0. s \in Signals /\ TypeOK /\ PairConsistent(row[s])
      /\ (pc[h] \in Working => RowExists(s))
  BY DeliveryAssumption DEF Base, RowsConsistent, WorkingHasRow
<1>1. SUFFICES (\A q \in Signals \ {s} : row'[q] = row[q])
               /\ PairConsistent(row'[s])
  BY <1>0 DEF RowsConsistent, PairConsistent
<1>2. CASE row' = row
  BY <1>0, <1>2
<1>3. CASE FailTrade(h) /\ pc[h] \in Working
  BY <1>0, <1>3, FailTradeEffect
<1>4. CASE Lookup(h)
  BY <1>0, <1>4 DEF Lookup, TypeOK, NoRow, PairConsistent, Unset
<1>5. CASE ParseFails(h)
  <2> DEFINE u == [order |-> Unset, status |-> "FAILED"]
  <2>1. u \in Updates /\ u.order # "FAILED" /\ RowExists(s)
    BY <1>0, <1>5
       DEF Updates, PositionStatuses, Unset, ParseFails, Working, Waiting
  <2>2. WriteRow(s, u, None) \/ row' = row
    BY <1>5 DEF ParseFails
  <2>3. QED BY <1>0, <1>2, <2>1, <2>2, WriteRowEffect
<1>6. CASE Finish(h)
  <2> DEFINE m == MapExchangeToInternal("OPEN", FALSE)
  <2>1. m \in Updates /\ m.order # "FAILED"
    BY MapConsistent DEF Updates, MapExchangeToInternal, OrderStatuses
  <2>2. RowExists(s) /\ task[h].oid \in OrderIds \cup {None}
    BY <1>0, <1>6 DEF Finish, Working, Waiting, TypeOK, Tasks
  <2>3. WriteRow(s, m, task[h].oid) \/ row' = row
    BY <1>6 DEF Finish
  <2>4. QED BY <1>0, <1>2, <2>1, <2>2, <2>3, WriteRowEffect
<1>7. row' = row \/ (FailTrade(h) /\ pc[h] \in Working)
      \/ Lookup(h) \/ ParseFails(h) \/ Finish(h)
  BY DEF Step, Prepare, Execute, Reject, LookupSkips, LookupFails,
         ParseFindsNoPrice, ParseOk, Route, CheckFails, CheckSuggestsSize,
         CalculateTradeAmount, PositionLimitsRefuse, ResolveLeverage,
         SetLeverage, SubmitAccepted, SubmitRefused, SubmitAnswerLost,
         AfterError, LimitExpires, Working, Waiting, Submitting
<1>8. QED BY <1>2, <1>3, <1>4, <1>5, <1>6, <1>7

LEMMA NextConsistent == Base /\ RowsConsistent /\ [Next]_vars => RowsConsistent'
<1> SUFFICES ASSUME Base, RowsConsistent, [Next]_vars PROVE RowsConsistent'
  OBVIOUS
<1>1. CASE \E h \in Deliveries : Step(h)
  BY <1>1, StepConsistent
<1>2. CASE \E o \in OrderIds : DeliverFill(o)
  <2> DEFINE m == MapExchangeToInternal("FILLED", TRUE)
  <2>1. PICK o \in OrderIds : DeliverFill(o)
    BY <1>2
  <2>2. Consistent(m.order, m.status)
    BY MapConsistent
  <2>3. ASSUME NEW q \in Signals PROVE PairConsistent(row'[q])
    <3>1. CASE row[q].oid = o
      <4>1. row[q] \in Rows
        BY DEF Base, TypeOK
      <4>2. row'[q] = [row[q] EXCEPT !.order = m.order, !.status = m.status]
        BY <2>1, <3>1 DEF DeliverFill
      <4>3. row'[q].order = m.order /\ row'[q].status = m.status
        BY <4>1, <4>2 DEF Rows
      <4>4. QED BY <2>2, <4>3 DEF PairConsistent
    <3>2. CASE row[q].oid # o
      BY <2>1, <3>2 DEF DeliverFill, RowsConsistent
    <3>3. QED BY <3>1, <3>2
  <2>4. QED BY <2>3 DEF RowsConsistent, PairConsistent
<1>3. CASE UNCHANGED row
  BY <1>3 DEF RowsConsistent, PairConsistent
<1>4. QED
  BY <1>1, <1>2, <1>3 DEF Next, Environment, Fill, CooldownEnds, vars

\* RowsConsistent for every instance: no interleaving of the five writers of
\* a row stores an inconsistent pair.
THEOREM StoredPairsConsistent == Spec => []RowsConsistent
<1>1. Init => RowsConsistent
  BY DEF Init, RowsConsistent, PairConsistent, NoRow
<1>2. QED
  BY <1>1, InitBase, NextBase, NextConsistent, PTL DEF Spec

-----------------------------------------------------------------------------
(***************************************************************************)
(* A signal enters the market at most once.  OrdersTracked alone is not    *)
(* inductive: it needs that a clean signal has one working task, and none  *)
(* at all once its row stores an order id.                                 *)
(***************************************************************************)

OneWorker ==
  \A s \in Signals : clean[s] => \A g, h \in WorkingOn(s) : g = h

TrackedAtRest ==
  \A s \in Signals : clean[s] /\ row[s].oid # None =>
    WorkingOn(s) = {} /\ row[s].status # "FAILED"

TrackInv == OneWorker /\ TrackedAtRest /\ OrdersTracked

\* What every step of the task h leaves alone.
Frame(h) ==
  LET s == SignalOf[h]
  IN /\ \A g \in Deliveries \ {h} : pc'[g] = pc[g] /\ task'[g] = task[g]
     /\ \A q \in Signals \ {s} : row'[q] = row[q] /\ clean'[q] = clean[q]
     /\ \A o \in OrderIds : ord'[o].sig \in {ord[o].sig, s}
     /\ clean'[s] => clean[s]

\* The five moves of a task whose signal stays clean.
Begins(h) ==
  LET s == SignalOf[h]
  IN /\ pc[h] = "received" /\ pc'[h] = "parsing"
     /\ ~Overlaps(h)
     /\ row[s].oid = None /\ row'[s].oid = None
     /\ UNCHANGED ord

Leaves(h) ==
  /\ pc[h] = "received" /\ pc'[h] = "done"
  /\ UNCHANGED <<row, ord>>

Proceeds(h) ==
  /\ pc[h] \in Working \ {"protecting"}
  /\ pc'[h] \notin {"received", "protecting"}
  /\ row'[SignalOf[h]].oid = row[SignalOf[h]].oid
  /\ UNCHANGED ord

Enters(h) ==
  /\ pc[h] \in Working \ {"protecting"} /\ pc'[h] = "protecting"
  /\ UNCHANGED row
  /\ \E o \in OrderIds :
       /\ task'[h].oid = o
       /\ ord'[o].sig = SignalOf[h]
       /\ \A u \in OrderIds \ {o} : ord'[u].sig = ord[u].sig

Stores(h) ==
  LET s == SignalOf[h]
  IN /\ pc[h] = "protecting" /\ pc'[h] = "done"
     /\ task[h].oid # None => row'[s].oid = task[h].oid
     /\ task[h].oid = None => row'[s].oid = row[s].oid
     /\ row'[s].status # "FAILED" /\ row'[s].order # "FILLED"
     /\ UNCHANGED ord

Move(h) == Begins(h) \/ Leaves(h) \/ Proceeds(h) \/ Enters(h) \/ Stores(h)

LEMMA FailTradeMoves ==
  ASSUME Base, NEW h \in Deliveries, pc[h] \in Working \ {"protecting"},
         FailTrade(h), UNCHANGED clean
  PROVE  /\ \A g \in Deliveries \ {h} : pc'[g] = pc[g] /\ task'[g] = task[g]
         /\ \A q \in Signals \ {SignalOf[h]} : row'[q] = row[q]
         /\ UNCHANGED ord => Frame(h) /\ Proceeds(h)
<1>1. SignalOf[h] \in Signals /\ TypeOK /\ RowExists(SignalOf[h])
  BY DeliveryAssumption DEF Base, WorkingHasRow
<1>2. pc' = [pc EXCEPT ![h] = "failed"]
      /\ task' = [task EXCEPT ![h] = FreshTask]
  BY DEF FailTrade, End, GoTo
<1>3. \A q \in Signals \ {SignalOf[h]} : row'[q] = row[q]
  BY <1>1, FailTradeEffect
<1>4. row'[SignalOf[h]].oid = row[SignalOf[h]].oid
  BY <1>1, FailTradeEffect
<1>5. QED
  BY <1>1, <1>2, <1>3, <1>4 DEF Frame, Proceeds, TypeOK

LEMMA RouteMoves ==
  ASSUME Base, NEW h \in Deliveries, NEW again \in BOOLEAN,
         pc[h] \in {"parsing", "checking"}, Route(h, again)
  PROVE  Frame(h) /\ Move(h)
<1>1. pc[h] \in Working \ {"protecting"}
  BY DEF Working, Waiting
<1>2. CASE FailTrade(h)
  BY <1>1, <1>2, FailTradeMoves DEF Route, Move
<1>3. CASE ~FailTrade(h)
  BY <1>1, <1>3, DeliveryAssumption
     DEF Route, GoTo, Frame, Move, Proceeds, Base, TypeOK
<1>4. QED BY <1>2, <1>3

LEMMA PrepareMoves ==
  ASSUME Base, NEW h \in Deliveries, Prepare(h)
  PROVE  Frame(h) /\ (clean'[SignalOf[h]] => Move(h))
<1>0. SignalOf[h] \in Signals /\ TypeOK
      /\ (pc[h] \in Working => RowExists(SignalOf[h]))
  BY DeliveryAssumption DEF Base, WorkingHasRow
<1>1. CASE Reject(h) \/ LookupSkips(h) \/ LookupFails(h)
  BY <1>0, <1>1
     DEF Reject, LookupSkips, LookupFails, End, GoTo, Frame, Move, Leaves, TypeOK
<1>2. CASE Lookup(h)
  <2>1. Frame(h)
    BY <1>0, <1>2 DEF Lookup, GoTo, Frame, TypeOK
  <2>2. ASSUME clean'[SignalOf[h]] PROVE Begins(h)
    BY <1>0, <1>2, <2>2
       DEF Lookup, GoTo, Begins, TypeOK, Executed, NoRow, Rows
  <2>3. QED BY <2>1, <2>2 DEF Move
<1>3. CASE ParseFindsNoPrice(h)
  BY <1>0, <1>3
     DEF ParseFindsNoPrice, End, GoTo, Frame, Move, Proceeds, TypeOK, Working,
         Waiting
<1>4. CASE ParseFails(h)
  <2> DEFINE u == [order |-> Unset, status |-> "FAILED"]
  <2>1. u \in Updates /\ u.order # "FAILED"
    BY DEF Updates, PositionStatuses, Unset
  <2>2. pc[h] \in Working \ {"protecting"} /\ RowExists(SignalOf[h])
    BY <1>0, <1>4 DEF ParseFails, Working, Waiting
  <2>3. WriteRow(SignalOf[h], u, None) \/ row' = row
    BY <1>4 DEF ParseFails
  <2>4. /\ \A q \in Signals \ {SignalOf[h]} : row'[q] = row[q]
        /\ row'[SignalOf[h]].oid = row[SignalOf[h]].oid
    BY <1>0, <2>1, <2>2, <2>3, WriteRowEffect
  <2>5. QED
    BY <1>0, <1>4, <2>2, <2>4
       DEF ParseFails, End, GoTo, Frame, Move, Proceeds, TypeOK
<1>5. CASE ParseOk(h)
  BY <1>5, RouteMoves DEF ParseOk, Working, Waiting
<1>6. QED BY <1>1, <1>2, <1>3, <1>4, <1>5 DEF Prepare

LEMMA ExecuteMoves ==
  ASSUME Base, NEW h \in Deliveries, Execute(h)
  PROVE  Frame(h) /\ (clean'[SignalOf[h]] => Move(h))
<1>0. SignalOf[h] \in Signals /\ TypeOK
      /\ (pc[h] \in Working => RowExists(SignalOf[h]))
  BY DeliveryAssumption DEF Base, WorkingHasRow
<1>1. CASE CheckFails(h) \/ PositionLimitsRefuse(h)
  BY <1>1, FailTradeMoves
     DEF CheckFails, PositionLimitsRefuse, Working, Waiting, Move
<1>2. CASE CheckSuggestsSize(h)
  BY <1>2, RouteMoves DEF CheckSuggestsSize, Working, Waiting
<1>3. CASE CalculateTradeAmount(h) \/ ResolveLeverage(h) \/ SetLeverage(h)
  BY <1>0, <1>3
     DEF CalculateTradeAmount, ResolveLeverage, SetLeverage, GoTo, Frame, Move,
         Proceeds, TypeOK, Working, Waiting
<1>4. CASE SubmitRefused(h)
  <2>1. pc[h] \in Working \ {"protecting"}
    BY <1>4 DEF SubmitRefused, Submitting, Working, Waiting
  <2>2. CASE FailTrade(h)
    BY <1>4, <2>1, <2>2, FailTradeMoves DEF SubmitRefused, Move
  <2>3. CASE ~FailTrade(h)
    BY <1>0, <1>4, <2>1, <2>3
       DEF SubmitRefused, AfterError, GoTo, Frame, Move, Proceeds, TypeOK,
           Working, Waiting
  <2>4. QED BY <2>2, <2>3
<1>5. CASE LimitExpires(h)
  <2>1. pc[h] \in Working \ {"protecting"}
    BY <1>5 DEF LimitExpires, Working, Waiting
  <2>2. CASE FailTrade(h)
    BY <1>5, <2>1, <2>2, FailTradeMoves DEF LimitExpires, Move
  <2>3. CASE ~FailTrade(h)
    BY <1>0, <1>5, <2>1, <2>3
       DEF LimitExpires, GoTo, Frame, Move, Proceeds, TypeOK, Working, Waiting
  <2>4. QED BY <2>2, <2>3
<1>6. CASE Finish(h)
  <2> DEFINE m == MapExchangeToInternal("OPEN", FALSE)
             s == SignalOf[h]
  <2>1. /\ m.order = "NEW" /\ m.status = "PENDING" /\ m \in Updates
    BY MapConsistent
       DEF MapExchangeToInternal, ToOrderStatus, ToPositionStatus,
           OrderStatuses, PositionStatuses, Updates
  <2>2. RowExists(s) /\ task[h].oid \in OrderIds \cup {None}
        /\ row[s] \in Rows
    BY <1>0, <1>6 DEF Finish, Working, Waiting, TypeOK, Tasks
  <2>3. CASE WriteRow(s, m, task[h].oid) /\ UNCHANGED clean
    <3>1. /\ UpdatedPair(m, row[s], FALSE) = m
          /\ ~UpdateRefused(m, row[s])
      BY <2>1, <2>2
         DEF UpdatedPair, UpdateRefused, Effective, Touches, Consistent,
             ValidPairs, Unset, MapExchangeToInternal
    <3>2. row' = [row EXCEPT ![s] =
                    [order |-> m.order, status |-> m.status,
                     oid |-> IF task[h].oid = None THEN row[s].oid
                             ELSE task[h].oid]]
      BY <2>3, <3>1 DEF WriteRow
    <3>3. Frame(h)
      BY <1>0, <1>6, <2>3, <3>2 DEF Finish, End, GoTo, Frame, TypeOK
    <3>4. Stores(h)
      BY <1>0, <1>6, <2>1, <3>2 DEF Finish, End, GoTo, Stores, TypeOK
    <3>5. QED BY <3>3, <3>4 DEF Move
  <2>4. CASE row' = row /\ clean' = [clean EXCEPT ![s] = FALSE]
    BY <1>0, <1>6, <2>4 DEF Finish, End, GoTo, Frame, TypeOK
  <2>5. QED BY <1>6, <2>3, <2>4 DEF Finish
<1>7. CASE \E o \in OrderIds : SubmitAccepted(h, o)
  <2>1. PICK o \in OrderIds : SubmitAccepted(h, o)
    BY <1>7
  <2>2. /\ ord'[o].sig = SignalOf[h]
        /\ \A u \in OrderIds \ {o} : ord'[u] = ord[u]
    BY <1>0, <2>1 DEF SubmitAccepted, Accept, TypeOK
  <2>3. Frame(h)
    BY <1>0, <2>1, <2>2 DEF SubmitAccepted, GoTo, Frame, TypeOK
  <2>4. task'[h].oid = o
    BY <1>0, <2>1 DEF SubmitAccepted, TypeOK, Tasks
  <2>5. Enters(h)
    BY <1>0, <2>1, <2>2, <2>4
       DEF SubmitAccepted, GoTo, Enters, TypeOK, Submitting, Working, Waiting
  <2>6. QED BY <2>3, <2>5 DEF Move
<1>8. CASE \E o \in OrderIds : SubmitAnswerLost(h, o)
  <2>1. PICK o \in OrderIds : SubmitAnswerLost(h, o)
    BY <1>8
  <2>2. /\ ord'[o].sig = SignalOf[h]
        /\ \A u \in OrderIds \ {o} : ord'[u] = ord[u]
    BY <1>0, <2>1 DEF SubmitAnswerLost, Accept, TypeOK
  <2>3. pc[h] \in Working \ {"protecting"}
    BY <2>1 DEF SubmitAnswerLost, Submitting, Working, Waiting
  <2>4. clean' = [clean EXCEPT ![SignalOf[h]] = FALSE]
    BY <2>1 DEF SubmitAnswerLost
  <2>5. /\ \A g \in Deliveries \ {h} : pc'[g] = pc[g] /\ task'[g] = task[g]
        /\ \A q \in Signals \ {SignalOf[h]} : row'[q] = row[q]
    <3>1. CASE FailTrade(h)
      BY <1>0, <2>3, <3>1, FailTradeEffect DEF FailTrade, End, GoTo, TypeOK
    <3>2. CASE ~FailTrade(h)
      BY <1>0, <2>1, <3>2 DEF SubmitAnswerLost, AfterError, GoTo, TypeOK
    <3>3. QED BY <3>1, <3>2
  <2>6. QED BY <1>0, <2>2, <2>4, <2>5 DEF Frame, TypeOK
<1>9. QED
  BY <1>1, <1>2, <1>3, <1>4, <1>5, <1>6, <1>7, <1>8 DEF Execute

LEMMA InitTrack == Init => TrackInv
BY NoneAssumption
   DEF Init, TrackInv, OneWorker, TrackedAtRest, OrdersTracked, WorkingOn,
       NoRow, NoOrder, Working, Waiting

\* A move of h keeps the facts about the signal of h.
LEMMA MoveTrack ==
  ASSUME Base, TrackInv, NEW h \in Deliveries, Frame(h), Move(h),
         NEW s \in Signals, s = SignalOf[h], clean'[s],
         pc' \in [Deliveries -> Waiting \cup Ended]
  PROVE  /\ \A f, g \in WorkingOn(s)' : f = g
         /\ row'[s].oid # None =>
              WorkingOn(s)' = {} /\ row'[s].status # "FAILED"
         /\ \A o \in OrderIds : ord'[o].sig = s =>
              \/ row'[s].oid = o
              \/ \E g \in WorkingOn(s)' :
                    pc'[g] = "protecting" /\ task'[g].oid = o
<1>0. /\ clean[s]
      /\ \A f, g \in WorkingOn(s) : f = g
      /\ row[s].oid # None => WorkingOn(s) = {} /\ row[s].status # "FAILED"
      /\ \A o \in OrderIds : ord[o].sig = s =>
           \/ row[s].oid = o
           \/ \E g \in WorkingOn(s) : pc[g] = "protecting" /\ task[g].oid = o
      /\ \A g \in Deliveries \ {h} : pc'[g] = pc[g] /\ task'[g] = task[g]
  BY DEF Frame, TrackInv, OneWorker, TrackedAtRest, OrdersTracked
<1>1. CASE Begins(h)
  <2>1. WorkingOn(s) = {} /\ WorkingOn(s)' = {h}
    BY <1>0, <1>1 DEF Begins, Overlaps, WorkingOn, Working, Waiting
  <2>2. QED BY <1>0, <1>1, <2>1, NoneAssumption DEF Begins
<1>2. CASE Leaves(h)
  <2>1. WorkingOn(s)' = WorkingOn(s) /\ h \notin WorkingOn(s)
    BY <1>0, <1>2 DEF Leaves, WorkingOn, Working, Waiting
  <2>2. \A g \in WorkingOn(s) : pc'[g] = pc[g] /\ task'[g] = task[g]
    BY <1>0, <2>1 DEF WorkingOn
  <2>3. QED BY <1>0, <1>2, <2>1, <2>2 DEF Leaves
<1>3. CASE Proceeds(h)
  <2>1. WorkingOn(s) = {h} /\ row[s].oid = None
    BY <1>0, <1>3 DEF Proceeds, WorkingOn
  <2>2. \A o \in OrderIds : ord[o].sig # s
    BY <1>0, <1>3, <2>1, NoneAssumption DEF Proceeds
  <2>3. WorkingOn(s)' \subseteq {h}
    BY <1>0, <2>1 DEF WorkingOn
  <2>4. QED BY <1>0, <1>3, <2>1, <2>2, <2>3 DEF Proceeds
<1>4. CASE Enters(h)
  <2>1. WorkingOn(s) = {h} /\ row[s].oid = None
    BY <1>0, <1>4 DEF Enters, WorkingOn
  <2>2. \A o \in OrderIds : ord[o].sig # s
    BY <1>0, <1>4, <2>1, NoneAssumption DEF Enters
  <2>3. WorkingOn(s)' = {h}
    BY <1>0, <1>4, <2>1 DEF Enters, WorkingOn, Working, Waiting
  <2>4. QED BY <1>0, <1>4, <2>1, <2>2, <2>3 DEF Enters
<1>5. CASE Stores(h)
  <2>1. WorkingOn(s) = {h} /\ row[s].oid = None
    BY <1>0, <1>5 DEF Stores, WorkingOn, Working, Waiting
  <2>2. WorkingOn(s)' = {}
    BY <1>0, <1>5, <2>1 DEF Stores, WorkingOn, Working, Waiting
  <2>3. \A o \in OrderIds : ord[o].sig = s => task[h].oid = o
    BY <1>0, <2>1, NoneAssumption
  <2>4. QED BY <1>0, <1>5, <2>1, <2>2, <2>3, NoneAssumption DEF Stores
<1>6. QED BY <1>1, <1>2, <1>3, <1>4, <1>5 DEF Move

\* A step of h says nothing about the other signals.
LEMMA FrameTrack ==
  ASSUME Base, TrackInv, NEW h \in Deliveries, Frame(h),
         NEW s \in Signals, s # SignalOf[h], clean'[s]
  PROVE  /\ \A f, g \in WorkingOn(s)' : f = g
         /\ row'[s].oid # None =>
              WorkingOn(s)' = {} /\ row'[s].status # "FAILED"
         /\ \A o \in OrderIds : ord'[o].sig = s =>
              \/ row'[s].oid = o
              \/ \E g \in WorkingOn(s)' :
                    pc'[g] = "protecting" /\ task'[g].oid = o
<1>1. /\ clean[s] /\ row'[s] = row[s]
      /\ \A o \in OrderIds : ord'[o].sig = s => ord[o].sig = s
  BY DEF Frame
<1>2. /\ WorkingOn(s)' = WorkingOn(s)
      /\ \A g \in WorkingOn(s) : pc'[g] = pc[g] /\ task'[g] = task[g]
  BY DEF Frame, WorkingOn
<1>3. QED
  BY <1>1, <1>2 DEF TrackInv, OneWorker, TrackedAtRest, OrdersTracked

LEMMA StepTrack ==
  ASSUME Base, TrackInv, NEW h \in Deliveries, Step(h)
  PROVE  TrackInv'
<1>1. Frame(h) /\ (clean'[SignalOf[h]] => Move(h))
  BY PrepareMoves, ExecuteMoves DEF Step
<1>2. Base'
  BY PrepareBase, ExecuteBase DEF Step
<1>3. pc' \in [Deliveries -> Waiting \cup Ended]
  BY <1>2 DEF Base, TypeOK
<1>4. ASSUME NEW s \in Signals, clean'[s]
      PROVE  /\ \A f, g \in WorkingOn(s)' : f = g
             /\ row'[s].oid # None =>
                  WorkingOn(s)' = {} /\ row'[s].status # "FAILED"
             /\ \A o \in OrderIds : ord'[o].sig = s =>
                  \/ row'[s].oid = o
                  \/ \E g \in WorkingOn(s)' :
                        pc'[g] = "protecting" /\ task'[g].oid = o
  BY <1>1, <1>3, <1>4, MoveTrack, FrameTrack
<1>5. QED
  BY <1>4 DEF TrackInv, OneWorker, TrackedAtRest, OrdersTracked

LEMMA EnvironmentTrack ==
  ASSUME Base, TrackInv, Environment
  PROVE  TrackInv'
<1>1. /\ UNCHANGED <<pc, task, clean>>
      /\ \A o \in OrderIds : ord'[o].sig = ord[o].sig
      /\ \A s \in Signals :
           /\ row'[s].oid = row[s].oid
           /\ row'[s].status = "FAILED" => row[s].status = "FAILED"
  <2>1. CASE \E o \in OrderIds : Fill(o)
    BY <2>1 DEF Fill, Base, TypeOK, Orders
  <2>2. CASE \E o \in OrderIds : DeliverFill(o)
    <3>1. PICK o \in OrderIds : DeliverFill(o)
      BY <2>2
    <3>2. MapExchangeToInternal("FILLED", TRUE).status = "ACTIVE"
      BY DEF MapExchangeToInternal, ToOrderStatus, ToPositionStatus,
             OrderStatuses
    <3>3. \A s \in Signals :
           /\ row'[s].oid = row[s].oid
           /\ row'[s].status = "FAILED" => row[s].status = "FAILED"
      BY <3>1, <3>2 DEF DeliverFill, Base, TypeOK, Rows
    <3>4. QED BY <3>1, <3>3 DEF DeliverFill, Base, TypeOK, Orders
  <2>3. CASE \E c \in Coins : CooldownEnds(c)
    BY <2>3 DEF CooldownEnds
  <2>4. QED BY <2>1, <2>2, <2>3 DEF Environment
<1>2. \A s \in Signals : WorkingOn(s)' = WorkingOn(s)
  BY <1>1 DEF WorkingOn
<1>3. QED
  BY <1>1, <1>2 DEF TrackInv, OneWorker, TrackedAtRest, OrdersTracked

LEMMA NextTrack == Base /\ TrackInv /\ [Next]_vars => TrackInv'
<1> SUFFICES ASSUME Base, TrackInv, [Next]_vars PROVE TrackInv'
  OBVIOUS
<1>1. CASE \E h \in Deliveries : Step(h)
  BY <1>1, StepTrack
<1>2. CASE Environment
  BY <1>2, EnvironmentTrack
<1>3. CASE UNCHANGED vars
  BY <1>3
     DEF vars, TrackInv, OneWorker, TrackedAtRest, OrdersTracked, WorkingOn
<1>4. QED BY <1>1, <1>2, <1>3 DEF Next

LEMMA Inductive == Spec => [](Base /\ TrackInv)
<1>1. Init => Base /\ TrackInv
  BY InitBase, InitTrack
<1>2. Base /\ TrackInv /\ [Next]_vars => (Base /\ TrackInv)'
  BY NextBase, NextTrack
<1>3. QED BY <1>1, <1>2, PTL DEF Spec

\* OrdersTracked for every instance: the entry order of an undisturbed
\* signal is in its row or in the hands of its one working task.
THEOREM OrdersAlwaysTracked == Spec => []OrdersTracked
<1>1. Base /\ TrackInv => OrdersTracked
  BY DEF TrackInv
<1>2. QED BY <1>1, Inductive, PTL

\* SingleEntry for every instance: redeliveries and retries of an undisturbed
\* signal never enter the market twice.
THEOREM AtMostOneEntry == Spec => []SingleEntry
<1>1. Base /\ TrackInv => SingleEntry
  <2> SUFFICES ASSUME TrackInv, NEW s \in Signals, clean[s],
                      NEW o1 \in OrderIds, NEW o2 \in OrderIds,
                      ord[o1].sig = s, ord[o2].sig = s
               PROVE  o1 = o2
    BY DEF SingleEntry
  <2>1. CASE row[s].oid # None
    BY <2>1 DEF TrackInv, TrackedAtRest, OrdersTracked
  <2>2. CASE row[s].oid = None
    BY <2>2, NoneAssumption DEF TrackInv, OneWorker, OrdersTracked
  <2>3. QED BY <2>1, <2>2
<1>2. QED BY <1>1, Inductive, PTL

\* FailedMeansNoOrder for every instance: the FAILED row of an undisturbed
\* signal that no task works on hides no order.
THEOREM FailedHidesNoOrder == Spec => []FailedMeansNoOrder
<1>1. Base /\ TrackInv => FailedMeansNoOrder
  BY NoneAssumption
     DEF TrackInv, TrackedAtRest, OrdersTracked, FailedMeansNoOrder
<1>2. QED BY <1>1, Inductive, PTL

\* ExecutedRowStable for every instance: a late task never takes back the
\* order id or the fill that the row of an undisturbed signal has recorded.
THEOREM ExecutedRowsStable == Spec => ExecutedRowStable
<1> DEFINE Stays(s) ==
      clean'[s] /\ row[s].oid # None =>
        /\ row'[s].oid = row[s].oid
        /\ row[s].order = "FILLED" => row'[s].order = "FILLED"
<1>1. ASSUME Base, TrackInv, NEW h \in Deliveries, Step(h), NEW s \in Signals
      PROVE  Stays(s)
  <2>1. Frame(h) /\ (clean'[SignalOf[h]] => Move(h))
    BY <1>1, PrepareMoves, ExecuteMoves DEF Step
  <2>2. CASE s # SignalOf[h]
    BY <2>1, <2>2 DEF Frame
  <2>3. CASE s = SignalOf[h] /\ clean'[s] /\ row[s].oid # None
    <3>1. clean[s] /\ WorkingOn(s) = {}
      BY <1>1, <2>1, <2>3 DEF Frame, TrackInv, TrackedAtRest
    <3>2. pc[h] \notin Working
      BY <2>3, <3>1 DEF WorkingOn
    <3>3. Leaves(h)
      BY <2>1, <2>3, <3>2
         DEF Move, Begins, Proceeds, Enters, Stores, Working, Waiting
    <3>4. QED BY <3>3 DEF Leaves
  <2>4. QED BY <2>2, <2>3
<1>2. ASSUME Base, Environment, NEW s \in Signals
      PROVE  Stays(s)
  <2>1. CASE \E o \in OrderIds : DeliverFill(o)
    <3>1. MapExchangeToInternal("FILLED", TRUE).order = "FILLED"
      BY DEF MapExchangeToInternal, ToOrderStatus, OrderStatuses
    <3>2. PICK o \in OrderIds : DeliverFill(o)
      BY <2>1
    <3>3. row[s] \in Rows
      BY <1>2 DEF Base, TypeOK
    <3>4. CASE row[s].oid = o
      <4>1. row'[s].oid = row[s].oid /\ row'[s].order = "FILLED"
        BY <3>1, <3>2, <3>3, <3>4 DEF DeliverFill, Rows
      <4>2. QED BY <4>1
    <3>5. CASE row[s].oid # o
      BY <3>2, <3>5 DEF DeliverFill
    <3>6. QED BY <3>4, <3>5
  <2>2. CASE UNCHANGED row
    BY <2>2
  <2>3. QED BY <1>2, <2>1, <2>2 DEF Environment, Fill, CooldownEnds
<1>3. Base /\ TrackInv /\ [Next]_vars => [\A s \in Signals : Stays(s)]_vars
  BY <1>1, <1>2 DEF Next
<1>4. QED BY <1>3, Inductive, PTL DEF Spec, ExecutedRowStable
-----------------------------------------------------------------------------
(* InitialSignal implements EntryContract: Begin holds at first, and every *)
(* step is a step of the contract or leaves what it speaks of alone.       *)

\* An order id in a task or a row belongs to that task's or row's signal,
\* and fills happen to orders that exist before they are reported.
OrderFacts ==
  /\ \A o \in OrderIds :
       /\ ord[o].sig = None => ~ord[o].filled
       /\ ord[o].news => ord[o].filled
  /\ \A h \in Deliveries : task[h].oid # None => ord[task[h].oid].sig = SignalOf[h]
  /\ \A s \in Signals : row[s].oid # None => ord[row[s].oid].sig = s

\* A step of a task creates at most orders of its own signal.
StepOrders(h) ==
  \A o \in OrderIds :
    \/ ord'[o] = ord[o]
    \/ /\ ord[o].sig = None /\ ord'[o].sig = SignalOf[h]
       /\ ~ord'[o].filled /\ ~ord'[o].news

LEMMA AcceptOrders ==
  ASSUME Base, NEW h \in Deliveries, NEW o \in OrderIds, Accept(h, o)
  PROVE  StepOrders(h)
BY DEF Base, TypeOK, Accept, Exists, StepOrders

LEMMA OrdersOfStep ==
  ASSUME Base, NEW h \in Deliveries, Step(h)
  PROVE  StepOrders(h)
<1>1. CASE \E o \in OrderIds : Accept(h, o)
  BY <1>1, AcceptOrders
<1>2. CASE UNCHANGED ord
  BY <1>2 DEF StepOrders
<1>3. QED
  BY <1>1, <1>2
     DEF Step, Prepare, Execute, Reject, Lookup, LookupSkips, LookupFails,
         ParseFails, ParseFindsNoPrice, ParseOk, Route, CheckFails,
         CheckSuggestsSize, CalculateTradeAmount, PositionLimitsRefuse,
         ResolveLeverage, SetLeverage, SubmitAccepted, SubmitRefused,
         SubmitAnswerLost, LimitExpires, Finish

\* Where the order id of a row and of a task can come from.
StepIds(h) ==
  /\ row'[SignalOf[h]].oid \in {row[SignalOf[h]].oid, task[h].oid}
  /\ \/ task'[h].oid \in {None, task[h].oid}
     \/ ord'[task'[h].oid].sig = SignalOf[h]

LEMMA IdsOfStep ==
  ASSUME Base, NEW h \in Deliveries, Step(h)
  PROVE  StepIds(h)
<1> DEFINE s == SignalOf[h]
<1>0. /\ s \in Signals /\ TypeOK /\ FreshTask.oid = None
      /\ task[h] \in Tasks /\ row[s] \in Rows
      /\ (pc[h] \in Working => RowExists(s))
  BY DeliveryAssumption DEF Base, TypeOK, WorkingHasRow, FreshTask
<1>1. row'[s].oid \in {row[s].oid, task[h].oid}
  <2>1. CASE row' = row
    BY <2>1
  <2>2. CASE FailTrade(h) /\ pc[h] \in Working
    BY <1>0, <2>2, FailTradeEffect
  <2>3. CASE Lookup(h)
    BY <1>0, <2>3 DEF Lookup, TypeOK, NoRow, Executed
  <2>4. CASE ParseFails(h)
    <3> DEFINE u == [order |-> Unset, status |-> "FAILED"]
    <3>1. u \in Updates /\ u.order # "FAILED"
      BY DEF Updates, PositionStatuses, Unset
    <3>2. RowExists(s)
      BY <1>0, <2>4 DEF ParseFails, Working, Waiting
    <3>3. WriteRow(s, u, None) \/ row' = row
      BY <2>4 DEF ParseFails
    <3>4. QED BY <1>0, <3>1, <3>2, <3>3, WriteRowEffect
  <2>5. CASE Finish(h)
    <3> DEFINE m == MapExchangeToInternal("OPEN", FALSE)
    <3>1. m \in Updates /\ m.order # "FAILED"
      BY MapConsistent DEF Updates, MapExchangeToInternal, OrderStatuses
    <3>2. RowExists(s) /\ task[h].oid \in OrderIds \cup {None}
      BY <1>0, <2>5 DEF Finish, Working, Waiting, Tasks
    <3>3. WriteRow(s, m, task[h].oid) \/ row' = row
      BY <2>5 DEF Finish
    <3>4. QED BY <1>0, <3>1, <3>2, <3>3, WriteRowEffect
  <2>6. row' = row \/ (FailTrade(h) /\ pc[h] \in Working)
        \/ Lookup(h) \/ ParseFails(h) \/ Finish(h)
    BY DEF Step, Prepare, Execute, Reject, LookupSkips, LookupFails,
           ParseFindsNoPrice, ParseOk, Route, CheckFails, CheckSuggestsSize,
           CalculateTradeAmount, PositionLimitsRefuse, ResolveLeverage,
           SetLeverage, SubmitAccepted, SubmitRefused, SubmitAnswerLost,
           AfterError, LimitExpires, Working, Waiting, Submitting
  <2>7. QED BY <2>1, <2>2, <2>3, <2>4, <2>5, <2>6
<1>2. task'[h].oid \in {None, task[h].oid} \/ ord'[task'[h].oid].sig = s
  <2>1. CASE End(h, "done") \/ End(h, "failed")
    BY <1>0, <2>1 DEF TypeOK, End
  <2>2. CASE UNCHANGED task
    BY <2>2
  <2>3. CASE \E again \in BOOLEAN : task' = [task EXCEPT ![h].retried = again]
    BY <1>0, <2>3 DEF TypeOK, Tasks
  <2>4. CASE CalculateTradeAmount(h)
    BY <1>0, <2>4 DEF CalculateTradeAmount, TypeOK, Tasks
  <2>5. CASE ResolveLeverage(h)
    BY <1>0, <2>5 DEF ResolveLeverage, TypeOK, Tasks
  <2>6. CASE task' = [task EXCEPT ![h].attempts = @ + 1]
    BY <1>0, <2>6 DEF TypeOK, Tasks
  <2>7. CASE \E o \in OrderIds : SubmitAccepted(h, o)
    BY <1>0, <2>7 DEF SubmitAccepted, Accept, TypeOK, Tasks
  <2>8. QED
    BY <2>1, <2>2, <2>3, <2>4, <2>5, <2>6, <2>7
       DEF Step, Prepare, Execute, Reject, Lookup, LookupSkips, LookupFails,
           ParseFails, ParseFindsNoPrice, ParseOk, Route, CheckFails,
           CheckSuggestsSize, PositionLimitsRefuse, SetLeverage,
           SubmitRefused, SubmitAnswerLost, AfterError, LimitExpires, Finish,
           FailTrade
<1>3. QED BY <1>1, <1>2 DEF StepIds

\* The environment changes the owner of no order.
LEMMA OwnersKept ==
  ASSUME Base, OrderFacts, UNCHANGED task,
         \A s \in Signals : row'[s].oid = row[s].oid,
         \A u \in OrderIds : ord'[u].sig = ord[u].sig
  PROVE  /\ \A g \in Deliveries :
              task'[g].oid # None => ord'[task'[g].oid].sig = SignalOf[g]
         /\ \A s \in Signals : row'[s].oid # None => ord'[row'[s].oid].sig = s
<1>1. ASSUME NEW g \in Deliveries, task[g].oid # None
      PROVE  ord'[task[g].oid].sig = SignalOf[g]
  <2>1. task[g].oid \in OrderIds
    BY <1>1 DEF Base, TypeOK, Tasks
  <2>2. QED BY <1>1, <2>1 DEF OrderFacts
<1>2. ASSUME NEW s \in Signals, row[s].oid # None
      PROVE  ord'[row[s].oid].sig = s
  <2>1. row[s].oid \in OrderIds
    BY <1>2 DEF Base, TypeOK, Rows
  <2>2. QED BY <1>2, <2>1 DEF OrderFacts
<1>3. QED BY <1>1, <1>2

LEMMA NextFacts ==
  Base /\ Base' /\ OrderFacts /\ [Next]_vars => OrderFacts'
<1> SUFFICES ASSUME Base, Base', OrderFacts, [Next]_vars PROVE OrderFacts'
  OBVIOUS
<1>1. ASSUME NEW h \in Deliveries, Step(h) PROVE OrderFacts'
  <2>1. StepOrders(h) /\ StepIds(h) /\ Frame(h)
    BY <1>1, OrdersOfStep, IdsOfStep, PrepareMoves, ExecuteMoves DEF Step
  <2>2. SignalOf[h] \in Signals
        /\ \A g \in Deliveries : SignalOf[g] \in Signals
    BY DeliveryAssumption
  <2>3. \A o \in OrderIds : ord[o].sig # None => ord'[o].sig = ord[o].sig
    BY <2>1 DEF StepOrders
  <2>4. /\ \A g \in Deliveries : task[g].oid \in OrderIds \cup {None}
                                 /\ task'[g].oid \in OrderIds \cup {None}
        /\ \A s \in Signals : row[s].oid \in OrderIds \cup {None}
                              /\ row'[s].oid \in OrderIds \cup {None}
    BY DEF Base, TypeOK, Tasks, Rows
  <2>5. \A o \in OrderIds :
          /\ ord'[o].sig = None => ~ord'[o].filled
          /\ ord'[o].news => ord'[o].filled
    BY <2>1, <2>2, NoneAssumption DEF StepOrders, OrderFacts
  <2>6. \A g \in Deliveries :
          task'[g].oid # None => ord'[task'[g].oid].sig = SignalOf[g]
    BY <2>1, <2>2, <2>3, <2>4, NoneAssumption DEF OrderFacts, StepIds, Frame
  <2>7. \A s \in Signals : row'[s].oid # None => ord'[row'[s].oid].sig = s
    BY <2>1, <2>2, <2>3, <2>4, NoneAssumption DEF OrderFacts, StepIds, Frame
  <2>8. QED BY <2>5, <2>6, <2>7 DEF OrderFacts
<1>2. CASE \E o \in OrderIds : Fill(o)
  <2>1. PICK o \in OrderIds : Fill(o)
    BY <1>2
  <2>2. ord' = [ord EXCEPT ![o] = [@ EXCEPT !.filled = TRUE, !.news = TRUE]]
    BY <2>1 DEF Fill
  <2>3. /\ ord'[o].sig = ord[o].sig /\ ord[o].sig # None /\ ord'[o].filled
        /\ \A u \in OrderIds \ {o} : ord'[u] = ord[u]
    BY <2>1, <2>2 DEF Fill, Exists, Base, TypeOK, Orders
  <2>4. UNCHANGED <<task, row>>
    BY <2>1 DEF Fill
  <2>5. \A u \in OrderIds : /\ ord'[u].sig = ord[u].sig
                            /\ ord'[u].sig = None => ~ord'[u].filled
                            /\ ord'[u].news => ord'[u].filled
    BY <2>3 DEF OrderFacts
  <2>6. QED
    BY <2>4, <2>5, OwnersKept DEF OrderFacts
<1>3. CASE \E o \in OrderIds : DeliverFill(o)
  <2>1. PICK o \in OrderIds : DeliverFill(o)
    BY <1>3
  <2>2. \A s \in Signals : row'[s].oid = row[s].oid
    <3>1. ASSUME NEW s \in Signals PROVE row'[s].oid = row[s].oid
      <4>1. row[s] \in Rows
        BY DEF Base, TypeOK
      <4>2. row'[s] = row[s] \/ \E a, b : row'[s] = [row[s] EXCEPT !.order = a, !.status = b]
        BY <2>1 DEF DeliverFill
      <4>3. QED BY <4>1, <4>2 DEF Rows
    <3>2. QED BY <3>1
  <2>3. \A u \in OrderIds : /\ ord'[u].sig = ord[u].sig
                            /\ ord'[u].filled = ord[u].filled
                            /\ ord'[u].news => ord[u].news
    <3>1. ord' = [ord EXCEPT ![o] = [@ EXCEPT !.news = FALSE]]
      BY <2>1 DEF DeliverFill
    <3>2. QED BY <3>1 DEF Base, TypeOK, Orders
  <2>4. UNCHANGED task
    BY <2>1 DEF DeliverFill
  <2>5. \A u \in OrderIds : /\ ord'[u].sig = None => ~ord'[u].filled
                            /\ ord'[u].news => ord'[u].filled
    BY <2>3 DEF OrderFacts
  <2>6. QED
    BY <2>2, <2>3, <2>4, <2>5, OwnersKept DEF OrderFacts
<1>4. CASE (\E c \in Coins : CooldownEnds(c)) \/ UNCHANGED vars
  BY <1>4 DEF CooldownEnds, vars, OrderFacts
<1>5. QED BY <1>1, <1>2, <1>3, <1>4 DEF Next, Environment

-----------------------------------------------------------------------------

\* A step of h says nothing of other signals, and fills no order.
LEMMA StepFrame ==
  ASSUME Base, Base', OrderFacts, NEW h \in Deliveries, Step(h)
  PROVE  LET s == SignalOf[h]
         IN /\ Held' = [Held EXCEPT ![s] = Held'[s]]
            /\ Kept' = [Kept EXCEPT ![s] = Kept'[s]]
            /\ Outcome' = [Outcome EXCEPT ![s] = Outcome'[s]]
            /\ UNCHANGED Filled
            /\ s \in Signals
<1> DEFINE s == SignalOf[h]
<1>1. Frame(h) /\ StepOrders(h) /\ s \in Signals
  BY OrdersOfStep, PrepareMoves, ExecuteMoves, DeliveryAssumption DEF Step
<1>2. ASSUME NEW q \in Signals \ {s}
      PROVE  /\ OrdersOf(q)' = OrdersOf(q)
             /\ WorkingOn(q)' = WorkingOn(q)
             /\ row'[q] = row[q] /\ clean'[q] = clean[q]
  <2>1. row'[q] = row[q] /\ clean'[q] = clean[q]
    BY <1>1 DEF Frame
  <2>2. OrdersOf(q)' = OrdersOf(q)
    BY <1>1, NoneAssumption DEF StepOrders, OrdersOf
  <2>3. WorkingOn(q)' = WorkingOn(q)
    BY <1>1 DEF Frame, WorkingOn
  <2>4. QED BY <2>1, <2>2, <2>3
<1>3. \A q \in Signals \ {s} : /\ Held'[q] = Held[q] /\ Kept'[q] = Kept[q]
                               /\ Outcome'[q] = Outcome[q]
  BY <1>2 DEF Held, Kept, Outcome, OutcomeOf
<1>4. UNCHANGED Filled
  BY <1>1 DEF StepOrders, OrderFacts, Filled
<1>5. Held' = [Held EXCEPT ![s] = Held'[s]]
  BY <1>1, <1>3 DEF Held
<1>6. Kept' = [Kept EXCEPT ![s] = Kept'[s]]
  BY <1>1, <1>3 DEF Kept
<1>7. Outcome' = [Outcome EXCEPT ![s] = Outcome'[s]]
  BY <1>1, <1>3 DEF Outcome
<1>8. QED BY <1>1, <1>4, <1>5, <1>6, <1>7

\* What a signal in the hands of its one working task looks like.
LEMMA WorkedOn ==
  ASSUME Base, TrackInv, NEW h \in Deliveries, pc[h] \in Working,
         clean[SignalOf[h]]
  PROVE  LET s == SignalOf[h]
         IN /\ WorkingOn(s) = {h} /\ row[s].oid = None
            /\ OutcomeOf(s) = "open"
            /\ OrdersOf(s) = {o \in OrdersOf(s) : pc[h] = "protecting" /\ task[h].oid = o}
<1> DEFINE s == SignalOf[h]
<1>1. s \in Signals /\ h \in WorkingOn(s)
  BY DeliveryAssumption DEF WorkingOn
<1>2. WorkingOn(s) = {h} /\ row[s].oid = None
  BY <1>1 DEF TrackInv, OneWorker, TrackedAtRest
<1>3. \A o \in OrdersOf(s) : pc[h] = "protecting" /\ task[h].oid = o
  BY <1>1, <1>2, NoneAssumption DEF TrackInv, OrdersTracked, OrdersOf
<1>4. QED BY <1>1, <1>2, <1>3 DEF OutcomeOf

\* The moves of a task whose signal stays undisturbed, in the contract.
LEMMA MoveKeepsContract ==
  ASSUME Base, Base', TrackInv, OrderFacts, NEW h \in Deliveries, Step(h),
         Move(h), clean'[SignalOf[h]]
  PROVE  [Contract!Promise]_(Contract!contract)
<1> DEFINE s == SignalOf[h]
<1>1. /\ Held' = [Held EXCEPT ![s] = Held'[s]]
      /\ Kept' = [Kept EXCEPT ![s] = Kept'[s]]
      /\ Outcome' = [Outcome EXCEPT ![s] = Outcome'[s]]
      /\ UNCHANGED Filled /\ s \in Signals
  BY StepFrame
<1>2. Frame(h) /\ StepOrders(h) /\ clean[s]
  BY OrdersOfStep, PrepareMoves, ExecuteMoves DEF Step, Frame
<1>3. /\ Held[s] = OrdersOf(s) /\ Held'[s] = OrdersOf(s)'
      /\ Kept[s] = row[s].oid /\ Kept'[s] = row'[s].oid
      /\ Outcome[s] = OutcomeOf(s) /\ Outcome'[s] = OutcomeOf(s)'
  BY <1>1, <1>2 DEF Held, Kept, Outcome
<1>4. /\ Held = [Held EXCEPT ![s] = Held[s]]
      /\ Kept = [Kept EXCEPT ![s] = Kept[s]]
      /\ Outcome = [Outcome EXCEPT ![s] = Outcome[s]]
  <2>1. Held = [Held EXCEPT ![s] = Held[s]]
    BY DEF Held
  <2>2. Kept = [Kept EXCEPT ![s] = Kept[s]]
    BY DEF Kept
  <2>3. Outcome = [Outcome EXCEPT ![s] = Outcome[s]]
    BY DEF Outcome
  <2>4. QED BY <2>1, <2>2, <2>3
<1>5. CASE Held'[s] = Held[s] /\ Kept'[s] = Kept[s] /\ Outcome'[s] = Outcome[s]
  BY <1>1, <1>4, <1>5 DEF Contract!contract
<1>6. CASE Leaves(h)
  <2>1. OrdersOf(s)' = OrdersOf(s) /\ row' = row
    BY <1>6 DEF Leaves, OrdersOf
  <2>2. WorkingOn(s)' = WorkingOn(s)
    BY <1>2, <1>6 DEF Leaves, Frame, WorkingOn, Working, Waiting
  <2>3. QED BY <1>2, <1>3, <1>5, <2>1, <2>2 DEF OutcomeOf
<1>7. CASE Begins(h)
  <2>1. OrdersOf(s)' = OrdersOf(s) /\ row[s].oid = None /\ row'[s].oid = None
    BY <1>7 DEF Begins, OrdersOf
  <2>2. h \in WorkingOn(s)'
    BY <1>7 DEF Begins, WorkingOn, Working, Waiting
  <2>3. OutcomeOf(s)' = "open" /\ OutcomeOf(s) \in {"open", "failed"}
    BY <1>2, <2>1, <2>2 DEF OutcomeOf
  <2>4. CASE OutcomeOf(s) = "failed"
    <3>1. Contract!TryAgain(s)
      BY <1>1, <1>3, <1>4, <2>1, <2>3, <2>4 DEF Contract!TryAgain
    <3>2. QED BY <1>1, <3>1 DEF Contract!Promise
  <2>5. QED BY <1>3, <1>5, <2>1, <2>3, <2>4
<1>8. CASE Proceeds(h)
  <2>1. pc[h] \in Working /\ pc[h] # "protecting"
    BY <1>8 DEF Proceeds
  <2>2. /\ row[s].oid = None /\ OutcomeOf(s) = "open" /\ OrdersOf(s) = {}
    BY <1>2, <2>1, WorkedOn
  <2>3. OrdersOf(s)' = {} /\ row'[s].oid = None
    BY <1>8, <2>2 DEF Proceeds, OrdersOf
  <2>4. OutcomeOf(s)' \in {"open", "failed"}
    BY <2>3 DEF OutcomeOf
  <2>5. CASE OutcomeOf(s)' = "failed"
    <3>1. Contract!FailSignal(s)
      BY <1>1, <1>3, <1>4, <2>2, <2>3, <2>5 DEF Contract!FailSignal
    <3>2. QED BY <1>1, <3>1 DEF Contract!Promise
  <2>6. QED BY <1>3, <1>5, <2>2, <2>3, <2>4, <2>5
<1>9. CASE Enters(h)
  <2>1. pc[h] \in Working /\ pc[h] # "protecting" /\ row' = row
    BY <1>9 DEF Enters
  <2>2. row[s].oid = None /\ OutcomeOf(s) = "open" /\ OrdersOf(s) = {}
    BY <1>2, <2>1, WorkedOn
  <2>3. PICK o \in OrderIds :
          /\ ord'[o].sig = s
          /\ \A u \in OrderIds \ {o} : ord'[u].sig = ord[u].sig
    BY <1>9 DEF Enters
  <2>4. ord[o].sig # s
    BY <2>2, <2>3 DEF OrdersOf
  <2>5. ord[o].sig = None
    BY <1>2, <2>3, <2>4 DEF StepOrders
  <2>6. OrdersOf(s)' = {o}
    BY <2>2, <2>3 DEF OrdersOf
  <2>7. h \in WorkingOn(s)'
    BY <1>9 DEF Enters, WorkingOn, Working, Waiting
  <2>8. OutcomeOf(s)' = "open"
    BY <2>1, <2>2, <2>7 DEF OutcomeOf
  <2>9. \A q \in Signals : o \notin Held[q]
    BY <2>5, NoneAssumption DEF Held, OrdersOf
  <2>10. Contract!Enter(s, o)
    BY <1>1, <1>3, <1>4, <2>1, <2>2, <2>6, <2>8, <2>9 DEF Contract!Enter
  <2>11. QED BY <1>1, <2>10 DEF Contract!Promise
<1>10. CASE Stores(h)
  <2>1. pc[h] \in Working /\ pc[h] = "protecting"
    BY <1>10 DEF Stores, Working, Waiting
  <2>2. /\ row[s].oid = None /\ OutcomeOf(s) = "open"
        /\ \A o \in OrdersOf(s) : task[h].oid = o
    BY <1>2, <2>1, WorkedOn
  <2>3. OrdersOf(s)' = OrdersOf(s) /\ OutcomeOf(s)' = "open"
    BY <1>10 DEF Stores, OrdersOf, OutcomeOf
  <2>4. CASE task[h].oid = None
    BY <1>3, <1>5, <1>10, <2>2, <2>3, <2>4 DEF Stores
  <2>5. CASE task[h].oid # None
    <3>1. task[h].oid \in OrderIds
      BY <2>5 DEF Base, TypeOK, Tasks
    <3>2. OrdersOf(s) = {task[h].oid}
      BY <2>2, <2>5, <3>1 DEF OrderFacts, OrdersOf
    <3>3. row'[s].oid = task[h].oid
      BY <1>10, <2>5 DEF Stores
    <3>4. Kept' = [Kept EXCEPT ![s] = task[h].oid]
      BY <1>1, <1>3, <3>3
    <3>5. Held' = Held /\ Outcome' = Outcome
      BY <1>1, <1>3, <1>4, <2>2, <2>3
    <3>6. Outcome[s] = "open" /\ Held[s] = {task[h].oid} /\ Kept[s] = None
      BY <1>3, <2>2, <3>2
    <3>7. Contract!Store(s, task[h].oid)
      BY <1>1, <3>4, <3>5, <3>6 DEF Contract!Store
    <3>8. QED BY <1>1, <3>1, <3>7 DEF Contract!Promise
  <2>6. QED BY <2>4, <2>5
<1>11. QED BY <1>6, <1>7, <1>8, <1>9, <1>10 DEF Move

LEMMA StepKeepsContract ==
  ASSUME Base, Base', TrackInv, OrderFacts, NEW h \in Deliveries, Step(h)
  PROVE  [Contract!Promise]_(Contract!contract)
<1> DEFINE s == SignalOf[h]
<1>1. /\ Held' = [Held EXCEPT ![s] = Held'[s]]
      /\ Kept' = [Kept EXCEPT ![s] = Kept'[s]]
      /\ Outcome' = [Outcome EXCEPT ![s] = Outcome'[s]]
      /\ UNCHANGED Filled /\ s \in Signals
  BY StepFrame
<1>2. Frame(h) /\ (clean'[s] => Move(h))
  BY PrepareMoves, ExecuteMoves DEF Step
<1>3. CASE clean'[s]
  BY <1>2, <1>3, MoveKeepsContract
<1>4. CASE ~clean'[s]
  <2>1. Held'[s] = {} /\ Kept'[s] = None /\ Outcome'[s] = "void"
    BY <1>1, <1>4 DEF Held, Kept, Outcome, OutcomeOf
  <2>2. Contract!Void(s)
    BY <1>1, <2>1 DEF Contract!Void
  <2>3. QED BY <1>1, <2>2 DEF Contract!Promise
<1>5. QED BY <1>3, <1>4

LEMMA EnvironmentKeepsContract ==
  ASSUME Base, Base', TrackInv, OrderFacts, Environment
  PROVE  [Contract!Promise]_(Contract!contract)
<1>1. CASE \E o \in OrderIds : Fill(o)
  <2>1. PICK o \in OrderIds : Fill(o)
    BY <1>1
  <2>2. ord' = [ord EXCEPT ![o] = [@ EXCEPT !.filled = TRUE, !.news = TRUE]]
        /\ UNCHANGED <<pc, row, clean>>
    BY <2>1 DEF Fill
  <2>3. \A u \in OrderIds : /\ ord'[u].sig = ord[u].sig
                            /\ ord'[u].filled = (u = o \/ ord[u].filled)
    BY <2>2 DEF Base, TypeOK, Orders
  <2>4. o \notin Filled /\ Filled' = Filled \cup {o}
    BY <2>1, <2>3 DEF Fill, Filled
  <2>5. /\ \A s \in Signals : /\ OrdersOf(s)' = OrdersOf(s)
                              /\ WorkingOn(s)' = WorkingOn(s)
        /\ UNCHANGED <<row, clean>>
    BY <2>2, <2>3 DEF OrdersOf, WorkingOn
  <2>6. UNCHANGED <<Held, Kept, Outcome>>
    BY <2>5 DEF Held, Kept, Outcome, OutcomeOf
  <2>7. Contract!FillOrder(o)
    BY <2>4, <2>6 DEF Contract!FillOrder
  <2>8. QED BY <2>7 DEF Contract!Promise
<1>2. CASE \E o \in OrderIds : DeliverFill(o)
  <2> DEFINE m == MapExchangeToInternal("FILLED", TRUE)
  <2>1. PICK o \in OrderIds : DeliverFill(o)
    BY <1>2
  <2>2. ord' = [ord EXCEPT ![o] = [@ EXCEPT !.news = FALSE]]
        /\ UNCHANGED <<pc, clean>> /\ ord[o].news
    BY <2>1 DEF DeliverFill
  <2>3. \A u \in OrderIds : /\ ord'[u].sig = ord[u].sig
                            /\ ord'[u].filled = ord[u].filled
    BY <2>2 DEF Base, TypeOK, Orders
  <2>4. \A s \in Signals : /\ OrdersOf(s)' = OrdersOf(s)
                           /\ WorkingOn(s)' = WorkingOn(s)
    BY <2>2, <2>3 DEF OrdersOf, WorkingOn
  <2>5. UNCHANGED Filled
    BY <2>3 DEF Filled
  <2>6. \A s \in Signals : row[s].oid # o => row'[s] = row[s]
    BY <2>1 DEF DeliverFill
  <2>7. ASSUME NEW s \in Signals, row[s].oid = o
        PROVE  row'[s].oid = o /\ row'[s].order = "FILLED"
    <3>1. row'[s] = [row[s] EXCEPT !.order = m.order, !.status = m.status]
          /\ row[s] \in Rows
      BY <2>1, <2>7 DEF DeliverFill, Base, TypeOK
    <3>2. m.order = "FILLED"
      BY DEF MapExchangeToInternal, ToOrderStatus, OrderStatuses
    <3>3. QED BY <2>7, <3>1, <3>2 DEF Rows
  <2>8. \A s \in Signals : row'[s].oid = row[s].oid
    BY <2>6, <2>7
  <2>9. UNCHANGED Held
    BY <2>2, <2>4 DEF Held
  <2>10. UNCHANGED Kept
    BY <2>2, <2>8 DEF Kept
  <2>11. CASE \E s \in Signals : clean[s] /\ row[s].oid = o /\ row[s].order # "FILLED"
    <3>1. PICK s \in Signals : clean[s] /\ row[s].oid = o /\ row[s].order # "FILLED"
      BY <2>11
    <3>2. o # None
      BY NoneAssumption
    <3>3. \A q \in Signals \ {s} : row[q].oid # o
      BY <3>1, <3>2 DEF OrderFacts
    <3>4. \A q \in Signals \ {s} : OutcomeOf(q)' = OutcomeOf(q)
      BY <2>2, <2>4, <2>6, <3>3 DEF OutcomeOf
    <3>5. OutcomeOf(s)' = "executed" /\ OutcomeOf(s) = "open"
      BY <2>2, <2>7, <3>1, <3>2 DEF OutcomeOf
    <3>6. Outcome' = [Outcome EXCEPT ![s] = "executed"] /\ Outcome[s] = "open"
      BY <3>4, <3>5 DEF Outcome
    <3>7. ord[o].sig = s /\ ord[o].filled
      BY <2>2, <3>1, <3>2 DEF OrderFacts
    <3>8. Kept[s] \in Held[s] \cap Filled
      BY <3>1, <3>7 DEF Kept, Held, OrdersOf, Filled
    <3>9. Contract!Learn(s)
      BY <2>5, <2>9, <2>10, <3>6, <3>8 DEF Contract!Learn
    <3>10. QED BY <3>9 DEF Contract!Promise
  <2>12. CASE ~ \E s \in Signals : clean[s] /\ row[s].oid = o /\ row[s].order # "FILLED"
    <3>1. ASSUME NEW s \in Signals PROVE OutcomeOf(s)' = OutcomeOf(s)
      <4>1. CASE row[s].oid # o
        BY <2>2, <2>4, <2>6, <4>1 DEF OutcomeOf
      <4>2. CASE row[s].oid = o /\ clean[s]
        BY <2>2, <2>7, <2>12, <4>2, NoneAssumption DEF OutcomeOf
      <4>3. CASE ~clean[s]
        BY <2>2, <4>3 DEF OutcomeOf
      <4>4. QED BY <4>1, <4>2, <4>3
    <3>2. UNCHANGED Outcome
      BY <3>1 DEF Outcome
    <3>3. QED BY <2>5, <2>9, <2>10, <3>2 DEF Contract!contract
  <2>13. QED BY <2>11, <2>12
<1>3. CASE \E c \in Coins : CooldownEnds(c)
  <2>1. UNCHANGED <<pc, row, ord, clean>>
    BY <1>3 DEF CooldownEnds
  <2>2. QED
    BY <2>1 DEF Held, Kept, Outcome, OutcomeOf, Filled, OrdersOf, WorkingOn,
                Contract!contract
<1>4. QED BY <1>1, <1>2, <1>3 DEF Environment

\* InitialSignal implements EntryContract: deliveries, retries, failures and
\* fills of process_initial_signal, in any order, do to an undisturbed signal
\* what the contract allows and nothing else.
THEOREM ImplementsContract == Spec => ContractHolds
<1>1. Init => OrderFacts
  BY NoneAssumption, DeliveryAssumption
     DEF Init, OrderFacts, NoOrder, FreshTask, NoRow
<1>2. Init => Contract!Begin
  BY DeliveryAssumption, NoneAssumption
     DEF Init, Contract!Begin, Held, Kept, Outcome, OutcomeOf, Filled,
         OrdersOf, NoRow, NoOrder, WorkingOn, Unset
<1>3. Base /\ Base' /\ TrackInv /\ OrderFacts /\ [Next]_vars
        => [Contract!Promise]_(Contract!contract)
  <2> SUFFICES ASSUME Base, Base', TrackInv, OrderFacts, [Next]_vars
               PROVE  [Contract!Promise]_(Contract!contract)
    OBVIOUS
  <2>1. CASE \E h \in Deliveries : Step(h)
    BY <2>1, StepKeepsContract
  <2>2. CASE Environment
    BY <2>2, EnvironmentKeepsContract
  <2>3. CASE UNCHANGED vars
    BY <2>3 DEF vars, Held, Kept, Outcome, OutcomeOf, Filled, OrdersOf,
                WorkingOn, Contract!contract
  <2>4. QED BY <2>1, <2>2, <2>3 DEF Next
<1>4. QED
  BY <1>1, <1>2, <1>3, NextFacts, Inductive, PTL
     DEF Spec, ContractHolds, Contract!Spec
=============================================================================
