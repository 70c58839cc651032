----------------------------- MODULE OrderSync -----------------------------
(***************************************************************************)
(* One trade from the moment its row stores the entry order: the reports   *)
(* of its entry, take profit and stop losses on the user data stream       *)
(* (src/websocket/sync/database_sync.py), the order monitor's poll and its *)
(* task for the entry, and the two users of StopLossManager, which cancel  *)
(* and create stop losses: the reader that handles an EXPIRE_MAKER and the *)
(* scheduler's audit.                                                      *)
(*                                                                         *)
(* A reader handles one message at a time; only the recreation of a stop   *)
(* makes it wait for the network.  The database client is synchronous.     *)
(***************************************************************************)
EXTENDS Naturals, Sequences, FiniteSets, TradeStatus

CONSTANTS
  Readers,    \* sockets on the stream that are being read
  Audit,      \* the scheduler's audit of stop losses
  Entry, Tp,  \* the entry order and its take profit
  Stops,      \* ids of stop losses: the bound on those referred to at a time
  First,      \* the stop loss placed with the entry
  EndKinds,   \* how an order may end without a fill
  Heard,      \* kinds of reports that may arrive; the others are lost
  MaxQueue,   \* the bound on reports a reader has not handled yet
  None

ASSUME OrdersAssumption ==
  /\ First \in Stops
  /\ Entry # Tp /\ Entry \notin Stops /\ Tp \notin Stops
  /\ None \notin Stops \cup {Entry, Tp}
ASSUME ActorsAssumption == Audit \notin Readers
ASSUME BoundAssumption ==
  /\ MaxQueue \in Nat
  /\ EndKinds \subseteq {"CANCELED", "REJECTED", "EXPIRED", "EXPIRE_MAKER"}

Exits == {Tp} \cup Stops
Orders == {Entry} \cup Exits
Guards == Readers \cup {Audit}

VARIABLES
  row,        \* the two status columns and stop_loss_order_id
  mentioned,  \* orders in sync_order_response and exchange_response
  entry,      \* status of the entry order at the exchange
  live,       \* exit orders that are open at the exchange
  position,   \* "reduced": an exit order filled and left some of it
  queue,      \* reports on their way to a reader, in their order
  guard,      \* what each reader and the audit are waiting for
  calm        \* history: no overlap of guards, no failed list or cancel

vars == <<row, mentioned, entry, live, position, queue, guard, calm>>

\* EXPIRE_MAKER is EXPIRED with that reason and nothing executed.
Kinds == {"NEW", "PARTIALLY_FILLED", "FILLED", "CANCELED", "REJECTED",
          "EXPIRED", "EXPIRE_MAKER"}
EntryStatuses == Kinds \ {"EXPIRE_MAKER"}
Reports == [id : Orders, kind : Kinds]

Idle == [at |-> "idle", about |-> None, todo |-> {}]
Labels == {"idle", "checking", "looking", "listing", "cancelling"}

TypeOK ==
  /\ row \in [order : OrderStatuses, status : PositionStatuses,
              slId : Stops \cup {None}]
  /\ mentioned \subseteq Orders
  /\ entry \in EntryStatuses
  /\ live \subseteq Exits
  /\ position \in {"none", "open", "reduced", "closed"}
  /\ queue \in [Readers -> Seq(Reports)]
  /\ guard \in [Guards -> [at : Labels, about : Orders \cup {None},
                           todo : SUBSET Stops]]
  /\ calm \in BOOLEAN

NoReports == [r \in Readers |-> <<>>]

\* update_trade_with_original_response has just stored the whole response.
Init ==
  /\ row = [order |-> "NEW", status |-> "PENDING", slId |-> First]
  /\ mentioned = {Entry, Tp, First}
  /\ entry = "NEW"
  /\ live = {Tp, First}
  /\ position = "none"
  /\ queue \in [Readers -> {<<>>} \cup
       {<<[id |-> o, kind |-> "NEW"]>> : o \in {p \in mentioned : "NEW" \in Heard}}]
  /\ guard = [a \in Guards |-> Idle]
  /\ calm = TRUE

IsOpen == position \in {"open", "reduced"}
LiveStops == live \cap Stops
-----------------------------------------------------------------------------
(* Exchange *)

\* A report goes to the sockets that are up: some of the readers.
Publish(o, kind) ==
  \E up \in SUBSET {r \in Readers : kind \in Heard /\ Len(queue[r]) < MaxQueue} :
    queue' = [r \in Readers |->
                IF r \in up THEN Append(queue[r], [id |-> o, kind |-> kind])
                ELSE queue[r]]

EntryFills(kind) ==
  /\ entry \in {"NEW", "PARTIALLY_FILLED"} /\ entry # kind
  /\ entry' = kind
  /\ position' = CASE position = "none" -> "open"
                   [] position = "closed" -> "reduced"
                   [] OTHER -> position
  /\ Publish(Entry, kind)
  /\ UNCHANGED <<row, mentioned, live, guard, calm>>

EntryEnds(kind) ==
  /\ entry \in {"NEW", "PARTIALLY_FILLED"}
  /\ kind = "EXPIRE_MAKER" => entry = "NEW"
  /\ entry' = IF kind = "EXPIRE_MAKER" THEN "EXPIRED" ELSE kind
  /\ Publish(Entry, kind)
  /\ UNCHANGED <<row, mentioned, live, position, guard, calm>>

\* An exit order may be for less than the position.
ExitFills(o) ==
  /\ o \in live /\ IsOpen
  /\ live' = live \ {o}
  /\ position' \in {"reduced", "closed"}
  /\ Publish(o, "FILLED")
  /\ UNCHANGED <<row, mentioned, entry, guard, calm>>

ExitFillsPartly(o) ==
  /\ o \in live /\ IsOpen
  /\ position' = "reduced"
  /\ Publish(o, "PARTIALLY_FILLED")
  /\ UNCHANGED <<row, mentioned, entry, live, guard, calm>>

ExitEnds(o, kind) ==
  /\ o \in live
  /\ live' = live \ {o}
  /\ Publish(o, kind)
  /\ UNCHANGED <<row, mentioned, entry, position, guard, calm>>
-----------------------------------------------------------------------------
(* DatabaseSync *)

\* find_trade_by_order_id: the stop of the row, its entry, or an id that
\* occurs in one of the two responses.
Found(o) == o = Entry \/ o = row.slId \/ o \in mentioned

\* Faulty variant: the status of the report is stored as it is.
ReportedPairRaw(o, kind) ==
  [order |-> kind, status |-> ToPositionStatus(kind, TRUE)]

\* Faulty variant: every filled order counts as an exit.
ReportedPairAllExits(o, kind) ==
  IF kind = "FILLED" THEN [order |-> "FILLED", status |-> "CLOSED"]
  ELSE MapExchangeToInternal(IF kind = "EXPIRE_MAKER" THEN "EXPIRED" ELSE kind, TRUE)

\* The two columns _update_trade_status computes; an exit order is told by
\* its side or by reduce-only.
ReportedPair(o, kind) ==
  IF kind = "FILLED" /\ o # Entry
  THEN [order |-> "FILLED", status |-> "CLOSED"]
  ELSE MapExchangeToInternal(IF kind = "EXPIRE_MAKER" THEN "EXPIRED" ELSE kind, TRUE)

\* The write at the end of _update_trade_status, without the validator.  The
\* responses it stores mention this order only.  The write may be lost.
Store(o, kind, slId) ==
  \/ /\ row' = [order |-> ReportedPair(o, kind).order,
                status |-> ReportedPair(o, kind).status, slId |-> slId]
     /\ mentioned' = {o}
  \/ /\ row' = [row EXCEPT !.slId = slId]
     /\ UNCHANGED mentioned

\* The reader takes its next message.
Take(r, o, kind) ==
  /\ guard[r].at = "idle"
  /\ queue[r] # <<>> /\ Head(queue[r]) = [id |-> o, kind |-> kind]
  /\ queue' = [queue EXCEPT ![r] = Tail(@)]

Drop(r, o, kind) ==
  /\ Take(r, o, kind)
  /\ ~Found(o)
  /\ UNCHANGED <<row, mentioned, entry, live, position, guard, calm>>

Apply(r, o, kind) ==
  /\ Take(r, o, kind)
  /\ Found(o) /\ kind # "EXPIRE_MAKER"
  /\ Store(o, kind, row.slId)
  /\ UNCHANGED <<entry, live, position, guard, calm>>

\* _recreate_stop_loss_on_expire comes before the write.
BeginRecreation(r, o) ==
  /\ Take(r, o, "EXPIRE_MAKER")
  /\ Found(o)
  /\ guard' = [guard EXCEPT ![r] = [Idle EXCEPT !.at = "checking", !.about = o]]
  /\ UNCHANGED <<row, mentioned, entry, live, position, calm>>

\* The end of the recreation and the write: new is the id of the stop loss
\* it created or None, and the write of that id may be lost as well.
EndReport(r, new) ==
  /\ guard' = [guard EXCEPT ![r] = Idle]
  /\ \E slId \in {row.slId} \cup (IF new = None THEN {} ELSE {new}) :
       Store(guard[r].about, "EXPIRE_MAKER", slId)

\* How a guard ends; the audit stores nothing.
EndGuard(a, new) ==
  IF a = Audit THEN guard' = [guard EXCEPT ![a] = Idle] /\ UNCHANGED <<row, mentioned>>
  ELSE EndReport(a, new)
-----------------------------------------------------------------------------
(* StopLossManager, run by a reader or by the audit *)

AuditBegins ==
  /\ guard[Audit].at = "idle"
  /\ guard' = [guard EXCEPT ![Audit].at = "checking"]
  /\ UNCHANGED <<row, mentioned, entry, live, position, queue, calm>>

\* The positions are fetched; the audit then looks for a stop loss.
FindsOpen(a) ==
  /\ guard[a].at = "checking" /\ IsOpen
  /\ guard' = [guard EXCEPT ![a].at = IF a = Audit THEN "looking" ELSE "listing"]
  /\ UNCHANGED <<row, mentioned, entry, live, position, queue, calm>>

\* No open position, or the exchange did not answer.
FindsClosed(a) ==
  /\ guard[a].at = "checking"
  /\ EndGuard(a, None)
  /\ UNCHANGED <<entry, live, position, queue, calm>>

\* Faulty variant: any exit order counts as a stop loss.
LooksAtExits ==
  /\ guard[Audit].at = "looking"
  /\ guard' = [guard EXCEPT ![Audit] =
                 IF live # {} THEN Idle ELSE [@ EXCEPT !.at = "listing"]]
  /\ UNCHANGED <<row, mentioned, entry, live, position, queue, calm>>

\* _check_position_has_stop_loss
Looks ==
  /\ guard[Audit].at = "looking"
  /\ guard' = [guard EXCEPT ![Audit] =
                 IF LiveStops # {} THEN Idle ELSE [@ EXCEPT !.at = "listing"]]
  /\ UNCHANGED <<row, mentioned, entry, live, position, queue, calm>>

\* get_all_open_futures_orders turns an error into an empty list.
LookFails ==
  /\ guard[Audit].at = "looking"
  /\ guard' = [guard EXCEPT ![Audit].at = "listing"]
  /\ UNCHANGED <<row, mentioned, entry, live, position, queue, calm>>

Overlaps(a) == \E b \in Guards \ {a} : guard[b].at = "cancelling"

\* Faulty variant: the stop losses found are not cancelled.
ListsNothing(a) ==
  /\ guard[a].at = "listing"
  /\ guard' = [guard EXCEPT ![a].at = "cancelling", ![a].todo = {}]
  /\ calm' = (calm /\ ~Overlaps(a))
  /\ UNCHANGED <<row, mentioned, entry, live, position, queue>>

\* _cancel_existing_stop_loss_orders: the orders it is going to cancel.
Lists(a) ==
  /\ guard[a].at = "listing"
  /\ guard' = [guard EXCEPT ![a].at = "cancelling", ![a].todo = LiveStops]
  /\ calm' = (calm /\ ~Overlaps(a))
  /\ UNCHANGED <<row, mentioned, entry, live, position, queue>>

ListFails(a) ==
  /\ guard[a].at = "listing"
  /\ guard' = [guard EXCEPT ![a].at = "cancelling"]
  /\ calm' = FALSE
  /\ UNCHANGED <<row, mentioned, entry, live, position, queue>>

Cancels(a, s) ==
  /\ guard[a].at = "cancelling" /\ s \in guard[a].todo
  /\ guard' = [guard EXCEPT ![a].todo = @ \ {s}]
  /\ IF s \in live
     THEN live' = live \ {s} /\ Publish(s, "CANCELED")
     ELSE UNCHANGED <<live, queue>>
  /\ UNCHANGED <<row, mentioned, entry, position, calm>>

\* The result of a cancellation is a pair, which counts as success.
CancelFails(a, s) ==
  /\ guard[a].at = "cancelling" /\ s \in guard[a].todo
  /\ guard' = [guard EXCEPT ![a].todo = @ \ {s}]
  /\ calm' = FALSE
  /\ UNCHANGED <<row, mentioned, entry, live, position, queue>>

\* An id that nothing refers to can stand for a new order.
Unused(s) ==
  /\ s \notin live \cup mentioned \cup {row.slId}
  /\ \A r \in Readers : \A i \in 1..Len(queue[r]) : queue[r][i].id # s
  /\ \A a \in Guards : s # guard[a].about /\ s \notin guard[a].todo

Creating(a) == guard[a].at = "cancelling" /\ guard[a].todo = {}

\* answered: the id of the new order reached the bot.
Creates(a, s, answered) ==
  /\ Creating(a)
  /\ Unused(s)
  /\ live' = live \cup {s}
  /\ Publish(s, "NEW")
  /\ EndGuard(a, IF answered THEN s ELSE None)
  /\ UNCHANGED <<entry, position, calm>>

CreateFails(a) ==
  /\ Creating(a)
  /\ EndGuard(a, None)
  /\ UNCHANGED <<entry, live, position, queue, calm>>
-----------------------------------------------------------------------------
(* Order monitor, restart *)

\* Faulty variant: the monitor writes the columns itself.
MonitoredUnvalidated ==
  \E u \in {[order |-> "FILLED", status |-> "FAILED"]} :
    /\ entry = "FILLED"
    /\ row' = [row EXCEPT !.order = u.order, !.status = u.status]

\* What _handle_order_filled and _handle_order_cancelled write through
\* update_existing_trade: OPEN for a fill, FAILED for the other ends.
Monitored ==
  LET u == [order |-> entry,
            status |-> IF entry = "FILLED" THEN "OPEN" ELSE "FAILED"]
      p == UpdatedPair(u, row, TRUE)
  IN /\ entry \notin {"NEW", "PARTIALLY_FILLED"}
     /\ ~UpdateRefused(u, row)
     /\ row' = [row EXCEPT !.order = p.order, !.status = p.status]

\* The scheduler's loop runs it when no audit is under way.  The poll began
\* when the row was PENDING; the readers may have written it since.
MonitorPolls ==
  /\ guard[Audit].at = "idle"
  /\ Monitored
  /\ UNCHANGED <<mentioned, entry, live, position, queue, guard, calm>>

\* monitor_order, started when the entry was answered, polls it beside all other
\* tasks and whatever the row says.
MonitorsEntry ==
  /\ Monitored
  /\ UNCHANGED <<mentioned, entry, live, position, queue, guard, calm>>

\* The process ends and starts again: what was under way is forgotten, and
\* the reports that come until the stream is back are lost.
Restart ==
  /\ guard' = [a \in Guards |-> Idle]
  /\ queue' = NoReports
  /\ UNCHANGED <<row, mentioned, entry, live, position, calm>>
-----------------------------------------------------------------------------

Exchange ==
  \/ \E kind \in {"PARTIALLY_FILLED", "FILLED"} : EntryFills(kind)
  \/ \E kind \in EndKinds :
       EntryEnds(kind) \/ \E o \in Exits : ExitEnds(o, kind)
  \/ \E o \in Exits : ExitFills(o) \/ ExitFillsPartly(o)

Handle(r) ==
  \E o \in Orders :
    BeginRecreation(r, o) \/ \E kind \in Kinds : Drop(r, o, kind) \/ Apply(r, o, kind)

Protect(a) ==
  \/ FindsOpen(a) \/ FindsClosed(a) \/ Lists(a) \/ ListFails(a)
  \/ \E s \in Stops : Cancels(a, s) \/ CancelFails(a, s)
  \/ \E s \in Stops, answered \in BOOLEAN : Creates(a, s, answered)
  \/ CreateFails(a)

Read(r) == Handle(r) \/ Protect(r)
Audits == AuditBegins \/ Looks \/ LookFails \/ Protect(Audit)

Next ==
  \/ Exchange
  \/ \E r \in Readers : Read(r)
  \/ Audits
  \/ MonitorPolls \/ MonitorsEntry \/ Restart

Spec == Init /\ [][Next]_vars

\* asyncio runs a reader that can go on, and the scheduler repeats the audit.
\* Neither a restart nor a refusal of the exchange meets every audit at the
\* same step.
FairSpec ==
  /\ Spec
  /\ \A r \in Readers : WF_vars(Read(r))
  /\ WF_vars(AuditBegins)
  /\ SF_vars(FindsOpen(Audit))
  /\ SF_vars(Looks \/ LookFails)
  /\ SF_vars(Lists(Audit) \/ ListFails(Audit))
  /\ SF_vars(\E s \in Stops : Cancels(Audit, s) \/ CancelFails(Audit, s))
  /\ SF_vars(\E s \in Stops : Creates(Audit, s, TRUE))
-----------------------------------------------------------------------------
(* Properties *)

\* Reports of several orders, the monitor and a write that waited for a stop
\* loss to be recreated store the pair of statuses in any order; none of them
\* leaves an inconsistent pair.
PairsLegal == PairConsistent(row)

\* The row is never ahead of the exchange: ACTIVE needs an entry that has
\* executed and CLOSED an exit order that has, although reports are late or
\* lost, reach several readers and are matched inside stored responses.
RowNotAhead ==
  /\ row.status = "ACTIVE" => position # "none"
  /\ row.status = "CLOSED" => position \in {"reduced", "closed"}

\* Cancel first, then create: as long as no two guards overlap and no list or
\* cancellation fails, the position has at most one live stop loss, also when
\* the answer to a creation is lost or the process restarts in between.
OneStop == calm => \A s, t \in LiveStops : s = t

\* An open position that has lost its stop loss gets one again, whoever
\* cancelled it and although creations fail and the process restarts.
StopRestored == (IsOpen /\ LiveStops = {}) ~> (~IsOpen \/ LiveStops # {})
=============================================================================
