-------------------------- MODULE OrderSync_proofs --------------------------
(***************************************************************************)
(* What holds of one trade's orders and row for every set of readers, of   *)
(* stop losses and every length of the queues of reports.                  *)
(***************************************************************************)
EXTENDS OrderSync, TLAPS

GuardStates == [at : Labels, about : Orders \cup {None}, todo : SUBSET Stops]

\* A reader that waits for the recreation of a stop loss knows whose report
\* it is going to store.
KnowsOrder ==
  \A r \in Readers : guard[r].at # "idle" => guard[r].about \in Orders

Typed == TypeOK /\ KnowsOrder /\ PairsLegal

\* What a report says has happened: it is read later, never earlier.
Happened(m) ==
  /\ m.kind \in {"PARTIALLY_FILLED", "FILLED"} => position # "none"
  /\ m.kind = "FILLED" /\ m.id # Entry => position \in {"reduced", "closed"}
ReportsTrue == \A r \in Readers : \A i \in 1..Len(queue[r]) : Happened(queue[r][i])

Told == ReportsTrue /\ RowNotAhead

\* As long as the guards are calm only one of them is past its list, and what
\* it has left to cancel are all the stop losses there are.
Cancelling(a) == guard[a].at = "cancelling"
OneCanceller ==
  calm => /\ \A a, b \in Guards : Cancelling(a) /\ Cancelling(b) => a = b
          /\ \A a \in Guards : Cancelling(a) => LiveStops \subseteq guard[a].todo
Guarded == OneCanceller /\ OneStop
-----------------------------------------------------------------------------
(* Lemmas *)

\* The orders and the reports the actions name have their type.
LEMMA NamesTyped ==
  /\ Entry \in Orders /\ Tp \in Orders /\ First \in Stops
  /\ Exits \subseteq Orders /\ Stops \subseteq Exits /\ Entry \notin Exits
  /\ EndKinds \subseteq Kinds
  /\ Audit \in Guards /\ Readers \subseteq Guards
BY OrdersAssumption, BoundAssumption DEF Orders, Exits, Kinds, Guards

\* A report is appended to some queues.
LEMMA PublishTyped ==
  ASSUME queue \in [Readers -> Seq(Reports)],
         NEW o \in Orders, NEW kind \in Kinds, Publish(o, kind)
  PROVE  queue' \in [Readers -> Seq(Reports)]
<1>1. [id |-> o, kind |-> kind] \in Reports
  BY DEF Reports
<1>2. QED
  BY <1>1 DEF Publish

\* What the mapping of a status of the exchange returns is legal.
LEMMA MappedLegal ==
  ASSUME NEW s
  PROVE  LET m == MapExchangeToInternal(s, TRUE)
         IN /\ m.order \in OrderStatuses /\ m.status \in PositionStatuses
            /\ Consistent(m.order, m.status)
<1>1. ToOrderStatus(s) \in OrderStatuses \ {"FAILED"}
  BY DEF ToOrderStatus, OrderStatuses
<1>2. \A o \in OrderStatuses \ {"FAILED"} :
         /\ Consistent(o, ToPositionStatus(o, TRUE))
         /\ ToPositionStatus(o, TRUE) \in PositionStatuses
  BY DEF OrderStatuses, PositionStatuses, Consistent, ValidPairs, ToPositionStatus
<1>3. QED
  BY <1>1, <1>2 DEF MapExchangeToInternal

\* What _update_trade_status computes is legal, whoever reports.
LEMMA ReportedLegal ==
  ASSUME NEW o, NEW kind
  PROVE  /\ ReportedPair(o, kind).order \in OrderStatuses
         /\ ReportedPair(o, kind).status \in PositionStatuses
         /\ Consistent(ReportedPair(o, kind).order, ReportedPair(o, kind).status)
<1>1. CASE kind = "FILLED" /\ o # Entry
  <2>1. ReportedPair(o, kind) = [order |-> "FILLED", status |-> "CLOSED"]
    BY <1>1 DEF ReportedPair
  <2>2. QED
    BY <2>1 DEF OrderStatuses, PositionStatuses, Consistent, ValidPairs
<1>2. CASE ~(kind = "FILLED" /\ o # Entry)
  <2>1. PICK s : ReportedPair(o, kind) = MapExchangeToInternal(s, TRUE)
    BY <1>2 DEF ReportedPair
  <2>2. QED
    BY <2>1, MappedLegal
<1>3. QED
  BY <1>1, <1>2

\* The write of a report keeps the row's type and its pair legal.
LEMMA StoreTyped ==
  ASSUME Typed, NEW o \in Orders, NEW kind, NEW slId \in Stops \cup {None},
         Store(o, kind, slId)
  PROVE  /\ row' \in [order : OrderStatuses, status : PositionStatuses,
                      slId : Stops \cup {None}]
         /\ mentioned' \subseteq Orders
         /\ PairsLegal'
<1> DEFINE p == ReportedPair(o, kind)
<1>1. CASE row' = [order |-> p.order, status |-> p.status, slId |-> slId]
           /\ mentioned' = {o}
  <2>1. /\ p.order \in OrderStatuses /\ p.status \in PositionStatuses
        /\ Consistent(p.order, p.status)
    BY ReportedLegal
  <2> HIDE DEF p
  <2>2. row'.order = p.order /\ row'.status = p.status
    BY <1>1
  <2>3. QED
    BY <1>1, <2>1, <2>2 DEF PairsLegal, PairConsistent
<1>2. CASE row' = [row EXCEPT !.slId = slId] /\ mentioned' = mentioned
  <2>1. row \in [order : OrderStatuses, status : PositionStatuses,
                 slId : Stops \cup {None}] /\ mentioned \subseteq Orders
    BY DEF Typed, TypeOK
  <2>2. row'.order = row.order /\ row'.status = row.status
    BY <1>2, <2>1
  <2>3. QED
    BY <1>2, <2>1, <2>2 DEF Typed, PairsLegal, PairConsistent
<1>3. QED
  BY <1>1, <1>2 DEF Store

\* The order monitor's updates are refused by the validator but for one.
LEMMA OnlyRejected ==
  ASSUME TypeOK, Monitored
  PROVE  row' = [row EXCEPT !.order = "REJECTED", !.status = "FAILED"]
<1> DEFINE s == IF entry = "FILLED" THEN "OPEN" ELSE "FAILED"
           u == [order |-> entry, status |-> s]
           p == UpdatedPair(u, row, TRUE)
<1>1. entry \in {"FILLED", "CANCELED", "REJECTED", "EXPIRED"}
  BY DEF TypeOK, EntryStatuses, Kinds, Monitored
<1>2. /\ Touches(u) /\ Effective(u, row).order = entry
      /\ Effective(u, row).status = s
      /\ entry # Unset /\ s # Unset
  BY <1>1 DEF Effective, Touches, Unset
<1>3. ~UpdateRefused(u, row)
  BY DEF Monitored
<1>4. Consistent(entry, s) \/ Consistent(entry, FixPosition(entry, s))
  BY <1>2, <1>3 DEF UpdateRefused
<1>5. entry = "REJECTED"
  BY <1>1, <1>4 DEF Consistent, ValidPairs, FixPosition
<1>6. Consistent("REJECTED", "FAILED")
  BY DEF Consistent, ValidPairs
<1>7. p.order = "REJECTED" /\ p.status = "FAILED"
  BY <1>2, <1>5, <1>6 DEF UpdatedPair
<1>8. row' = [row EXCEPT !.order = p.order, !.status = p.status]
  BY DEF Monitored
<1>9. QED
  BY <1>7, <1>8

\* The next message has its type, and so have the others.
LEMMA TakeTyped ==
  ASSUME TypeOK, NEW r \in Readers, NEW o, NEW kind, Take(r, o, kind)
  PROVE  /\ o \in Orders /\ kind \in Kinds
         /\ queue' \in [Readers -> Seq(Reports)]
<1>1. queue[r] \in Seq(Reports) /\ queue[r] # <<>>
  BY DEF TypeOK, Take
<1>2. Head(queue[r]) \in Reports /\ Tail(queue[r]) \in Seq(Reports)
  BY <1>1
<1>3. [id |-> o, kind |-> kind] \in Reports
  BY <1>2 DEF Take
<1>4. [id |-> o, kind |-> kind].id = o /\ [id |-> o, kind |-> kind].kind = kind
  OBVIOUS
<1>5. o \in Orders /\ kind \in Kinds
  BY <1>3, <1>4 DEF Reports
<1>6. QED
  BY <1>2, <1>5 DEF TypeOK, Take

\* The end of a guard.
LEMMA EndTyped ==
  ASSUME Typed, NEW a \in Guards, guard[a].at # "idle",
         NEW new \in Stops \cup {None}, EndGuard(a, new)
  PROVE  /\ row' \in [order : OrderStatuses, status : PositionStatuses,
                      slId : Stops \cup {None}]
         /\ mentioned' \subseteq Orders
         /\ PairsLegal'
         /\ guard' = [guard EXCEPT ![a] = Idle]
<1>1. CASE a = Audit
  BY <1>1 DEF EndGuard, Typed, TypeOK, PairsLegal
<1>2. CASE a # Audit
  <2>1. a \in Readers
    BY <1>2 DEF Guards
  <2>2. guard[a].about \in Orders
    BY <2>1 DEF Typed, KnowsOrder
  <2>3. EndReport(a, new)
    BY <1>2 DEF EndGuard
  <2>4. PICK slId \in {row.slId} \cup (IF new = None THEN {} ELSE {new}) :
          Store(guard[a].about, "EXPIRE_MAKER", slId)
    BY <2>3 DEF EndReport
  <2>5. slId \in Stops \cup {None}
    BY <2>4 DEF Typed, TypeOK
  <2>6. QED
    BY <2>2, <2>3, <2>4, <2>5, StoreTyped DEF EndReport
<1>3. QED
  BY <1>1, <1>2
-----------------------------------------------------------------------------
(* Types and legal pairs *)

LEMMA TypedInit == Init => Typed
<1>1. SUFFICES ASSUME Init PROVE Typed
  OBVIOUS
<1>2. queue \in [Readers -> Seq(Reports)]
  <2>1. \A o \in {Entry, Tp, First} : <<[id |-> o, kind |-> "NEW"]>> \in Seq(Reports)
    BY NamesTyped, OrdersAssumption DEF Reports, Orders, Exits, Kinds
  <2>2. <<>> \in Seq(Reports)
    OBVIOUS
  <2>3. QED
    BY <1>1, <2>1, <2>2 DEF Init
<1>3. guard \in [Guards -> GuardStates]
  BY <1>1 DEF Init, Idle, GuardStates, Labels
<1>4. row.order = "NEW" /\ row.status = "PENDING"
  BY <1>1 DEF Init
<1>5. PairsLegal
  BY <1>4 DEF PairsLegal, PairConsistent, Consistent, ValidPairs
<1>6. KnowsOrder
  BY <1>1, NamesTyped DEF Init, Idle, KnowsOrder
<1>7. /\ row \in [order : OrderStatuses, status : PositionStatuses,
                  slId : Stops \cup {None}]
      /\ mentioned \subseteq Orders /\ live \subseteq Exits
      /\ entry \in EntryStatuses
  BY <1>1, NamesTyped DEF Init, OrderStatuses, PositionStatuses, EntryStatuses,
     Kinds, Exits
<1>8. position \in {"none", "open", "reduced", "closed"} /\ calm \in BOOLEAN
  BY <1>1 DEF Init
<1>9. QED
  BY <1>2, <1>3, <1>5, <1>6, <1>7, <1>8 DEF Typed, TypeOK, GuardStates

\* A step of the exchange changes neither the row nor a guard.
LEMMA ExchangeTyped == Typed /\ Exchange => Typed'
<1>1. SUFFICES ASSUME Typed, Exchange PROVE Typed'
  OBVIOUS
<1> USE NamesTyped
<1>2. queue \in [Readers -> Seq(Reports)]
  BY <1>1 DEF Typed, TypeOK
<1>3. /\ {"PARTIALLY_FILLED", "FILLED"} \subseteq EntryStatuses
      /\ {"PARTIALLY_FILLED", "FILLED"} \subseteq Kinds
      /\ \A k \in EndKinds : (IF k = "EXPIRE_MAKER" THEN "EXPIRED" ELSE k) \in EntryStatuses
  BY BoundAssumption DEF EntryStatuses, Kinds
<1>4. ASSUME NEW kind \in {"PARTIALLY_FILLED", "FILLED"}, EntryFills(kind)
      PROVE  Typed'
  <2>1. queue' \in [Readers -> Seq(Reports)]
    BY <1>2, <1>3, <1>4, PublishTyped DEF EntryFills
  <2>2. entry' \in EntryStatuses
    BY <1>3, <1>4 DEF EntryFills
  <2>3. position' \in {"none", "open", "reduced", "closed"}
    BY <1>1, <1>4 DEF EntryFills, Typed, TypeOK
  <2>4. QED
    BY <1>1, <1>4, <2>1, <2>2, <2>3
       DEF EntryFills, Typed, TypeOK, KnowsOrder, PairsLegal
<1>5. ASSUME NEW kind \in EndKinds, EntryEnds(kind)
      PROVE  Typed'
  <2>1. queue' \in [Readers -> Seq(Reports)]
    BY <1>2, <1>5, PublishTyped DEF EntryEnds
  <2>2. entry' \in EntryStatuses
    BY <1>3, <1>5 DEF EntryEnds
  <2>3. QED
    BY <1>1, <1>5, <2>1, <2>2
       DEF EntryEnds, Typed, TypeOK, KnowsOrder, PairsLegal
<1>6. ASSUME NEW kind \in EndKinds, NEW o \in Exits, ExitEnds(o, kind)
      PROVE  Typed'
  <2>1. queue' \in [Readers -> Seq(Reports)]
    BY <1>2, <1>6, PublishTyped DEF ExitEnds
  <2>2. QED
    BY <1>1, <1>6, <2>1 DEF ExitEnds, Typed, TypeOK, KnowsOrder, PairsLegal
<1>7. ASSUME NEW o \in Exits, ExitFills(o)
      PROVE  Typed'
  <2>1. queue' \in [Readers -> Seq(Reports)]
    BY <1>2, <1>3, <1>7, PublishTyped DEF ExitFills
  <2>2. QED
    BY <1>1, <1>7, <2>1 DEF ExitFills, Typed, TypeOK, KnowsOrder, PairsLegal
<1>8. ASSUME NEW o \in Exits, ExitFillsPartly(o)
      PROVE  Typed'
  <2>1. queue' \in [Readers -> Seq(Reports)]
    BY <1>2, <1>3, <1>8, PublishTyped DEF ExitFillsPartly
  <2>2. QED
    BY <1>1, <1>8, <2>1 DEF ExitFillsPartly, Typed, TypeOK, KnowsOrder, PairsLegal
<1>9. QED
  BY <1>1, <1>4, <1>5, <1>6, <1>7, <1>8 DEF Exchange

\* A message that is dropped, stored, or begins a recreation.
LEMMA HandleTyped ==
  ASSUME Typed, NEW r \in Readers, Handle(r)
  PROVE  Typed'
<1>1. ASSUME NEW o \in Orders, NEW kind \in Kinds, Drop(r, o, kind)
      PROVE  Typed'
  BY <1>1, TakeTyped DEF Drop, Typed, TypeOK, KnowsOrder, PairsLegal
<1>2. ASSUME NEW o \in Orders, NEW kind \in Kinds, Apply(r, o, kind)
      PROVE  Typed'
  <2>1. queue' \in [Readers -> Seq(Reports)]
    BY <1>2, TakeTyped DEF Apply, Typed
  <2>2. row.slId \in Stops \cup {None}
    BY DEF Typed, TypeOK
  <2>3. /\ row' \in [order : OrderStatuses, status : PositionStatuses,
                     slId : Stops \cup {None}]
        /\ mentioned' \subseteq Orders /\ PairsLegal'
    BY <1>2, <2>2, StoreTyped DEF Apply
  <2>4. QED
    BY <1>2, <2>1, <2>3 DEF Apply, Typed, TypeOK, KnowsOrder
<1>3. ASSUME NEW o \in Orders, BeginRecreation(r, o)
      PROVE  Typed'
  <2>1. queue' \in [Readers -> Seq(Reports)]
    BY <1>3, TakeTyped DEF BeginRecreation, Typed
  <2> DEFINE g == [Idle EXCEPT !.at = "checking", !.about = o]
  <2>2. guard' = [guard EXCEPT ![r] = g]
    BY <1>3 DEF BeginRecreation
  <2>3. g \in GuardStates /\ g.about = o
    BY DEF GuardStates, Labels, Idle
  <2> HIDE DEF g
  <2>4. guard \in [Guards -> GuardStates] /\ r \in Guards
    BY NamesTyped DEF Typed, TypeOK, GuardStates
  <2>5. guard' \in [Guards -> GuardStates]
    BY <2>2, <2>3, <2>4
  <2>6. KnowsOrder'
    BY <2>2, <2>3, <2>4, NamesTyped DEF KnowsOrder, Typed
  <2>7. QED
    BY <1>3, <2>1, <2>5, <2>6
       DEF BeginRecreation, Typed, TypeOK, GuardStates, PairsLegal
<1>4. QED
  BY <1>1, <1>2, <1>3 DEF Handle

\* A guard changes its label or its list, and leaves what it is about.
LEMMA GuardStepTyped ==
  ASSUME Typed, NEW a \in Guards, guard[a].at # "idle" \/ a = Audit,
         UNCHANGED <<row, mentioned, entry, position>>,
         live' \subseteq Exits, queue' \in [Readers -> Seq(Reports)],
         calm' \in BOOLEAN,
         \/ guard' = [guard EXCEPT ![a] = Idle]
         \/ \E at \in Labels : guard' = [guard EXCEPT ![a].at = at]
         \/ \E todo \in SUBSET Stops : guard' = [guard EXCEPT ![a].todo = todo]
         \/ \E at \in Labels, todo \in SUBSET Stops :
              guard' = [guard EXCEPT ![a].at = at, ![a].todo = todo]
  PROVE  Typed'
<1>1. guard \in [Guards -> GuardStates] /\ guard[a] \in GuardStates
  BY DEF Typed, TypeOK, GuardStates
<1>2. ASSUME NEW g \in GuardStates, guard' = [guard EXCEPT ![a] = g],
             g.about = guard[a].about \/ g.at = "idle"
      PROVE  /\ guard' \in [Guards -> GuardStates]
             /\ \A b \in Guards \ {a} : guard'[b] = guard[b]
             /\ guard'[a].about = guard[a].about \/ guard'[a].at = "idle"
  BY <1>1, <1>2
<1>3. /\ guard' \in [Guards -> GuardStates]
      /\ \A b \in Guards \ {a} : guard'[b] = guard[b]
      /\ guard'[a].about = guard[a].about \/ guard'[a].at = "idle"
  <2>1. CASE guard' = [guard EXCEPT ![a] = Idle]
    <3>1. Idle \in GuardStates /\ Idle.at = "idle"
      BY DEF Idle, GuardStates, Labels
    <3>2. QED
      BY <1>2, <2>1, <3>1
  <2>2. ASSUME NEW at \in Labels, guard' = [guard EXCEPT ![a].at = at]
        PROVE  <1>3!1 /\ <1>3!2 /\ <1>3!3
    <3>1. /\ [guard[a] EXCEPT !.at = at] \in GuardStates
          /\ [guard[a] EXCEPT !.at = at].about = guard[a].about
      BY <1>1 DEF GuardStates
    <3>2. QED
      BY <1>2, <2>2, <3>1
  <2>3. ASSUME NEW todo \in SUBSET Stops, guard' = [guard EXCEPT ![a].todo = todo]
        PROVE  <1>3!1 /\ <1>3!2 /\ <1>3!3
    <3>1. /\ [guard[a] EXCEPT !.todo = todo] \in GuardStates
          /\ [guard[a] EXCEPT !.todo = todo].about = guard[a].about
      BY <1>1 DEF GuardStates
    <3>2. QED
      BY <1>2, <2>3, <3>1
  <2>4. ASSUME NEW at \in Labels, NEW todo \in SUBSET Stops,
               guard' = [guard EXCEPT ![a].at = at, ![a].todo = todo]
        PROVE  <1>3!1 /\ <1>3!2 /\ <1>3!3
    <3>1. /\ [guard[a] EXCEPT !.at = at, !.todo = todo] \in GuardStates
          /\ [guard[a] EXCEPT !.at = at, !.todo = todo].about = guard[a].about
      BY <1>1 DEF GuardStates
    <3>2. guard' = [guard EXCEPT ![a] = [guard[a] EXCEPT !.at = at, !.todo = todo]]
      BY <1>1, <2>4
    <3>3. QED
      BY <1>2, <3>1, <3>2
  <2>5. QED
    BY <2>1, <2>2, <2>3, <2>4
<1>4. KnowsOrder'
  <2>1. SUFFICES ASSUME NEW r \in Readers, guard'[r].at # "idle"
                 PROVE  guard'[r].about \in Orders
    BY DEF KnowsOrder
  <2>2. CASE r # a
    BY <1>3, <2>1, <2>2, NamesTyped DEF Typed, KnowsOrder
  <2>3. CASE r = a
    BY <1>3, <2>1, <2>3, ActorsAssumption DEF Typed, KnowsOrder
  <2>4. QED
    BY <2>2, <2>3
<1>5. QED
  BY <1>3, <1>4 DEF Typed, TypeOK, GuardStates, PairsLegal

\* A step of StopLossManager, run by a reader or by the audit.
LEMMA ProtectTyped ==
  ASSUME Typed, NEW a \in Guards, Protect(a)
  PROVE  Typed'
<1> USE NamesTyped
<1>1. /\ queue \in [Readers -> Seq(Reports)] /\ live \subseteq Exits
      /\ calm \in BOOLEAN /\ guard \in [Guards -> GuardStates]
  BY DEF Typed, TypeOK, GuardStates
<1>2. guard[a] \in GuardStates /\ guard[a].todo \subseteq Stops
  BY <1>1 DEF GuardStates
<1>3. {"looking", "listing", "cancelling"} \subseteq Labels
  BY DEF Labels
<1>4. CASE FindsOpen(a)
  BY <1>1, <1>3, <1>4, GuardStepTyped DEF FindsOpen
<1>5. CASE Lists(a)
  <2>1. LiveStops \in SUBSET Stops
    BY DEF LiveStops
  <2>2. /\ guard' = [guard EXCEPT ![a].at = "cancelling", ![a].todo = LiveStops]
        /\ guard[a].at # "idle" /\ calm' \in BOOLEAN
        /\ UNCHANGED <<row, mentioned, entry, live, position, queue>>
    BY <1>5 DEF Lists
  <2>3. QED
    BY <1>1, <1>3, <2>1, <2>2, GuardStepTyped
<1>6. CASE ListFails(a)
  BY <1>1, <1>3, <1>6, GuardStepTyped DEF ListFails
<1>7. ASSUME NEW s \in Stops, Cancels(a, s)
      PROVE  Typed'
  <2>1. guard[a].todo \ {s} \in SUBSET Stops
    BY <1>2
  <2>2. /\ guard' = [guard EXCEPT ![a].todo = guard[a].todo \ {s}]
        /\ guard[a].at # "idle"
        /\ UNCHANGED <<row, mentioned, entry, position, calm>>
    BY <1>7 DEF Cancels
  <2>3. live' \subseteq Exits /\ queue' \in [Readers -> Seq(Reports)]
    <3>1. CASE s \in live
      <4>1. live' = live \ {s} /\ Publish(s, "CANCELED")
        BY <1>7, <3>1 DEF Cancels
      <4>2. s \in Orders /\ "CANCELED" \in Kinds
        BY DEF Kinds
      <4>3. QED
        BY <1>1, <4>1, <4>2, PublishTyped
    <3>2. CASE s \notin live
      BY <1>1, <1>7, <3>2 DEF Cancels
    <3>3. QED
      BY <3>1, <3>2
  <2>4. QED
    BY <1>1, <2>1, <2>2, <2>3, GuardStepTyped
<1>8. ASSUME NEW s \in Stops, CancelFails(a, s)
      PROVE  Typed'
  <2>1. guard[a].todo \ {s} \in SUBSET Stops
    BY <1>2
  <2>2. /\ guard' = [guard EXCEPT ![a].todo = guard[a].todo \ {s}]
        /\ guard[a].at # "idle" /\ calm' \in BOOLEAN
        /\ UNCHANGED <<row, mentioned, entry, live, position, queue>>
    BY <1>8 DEF CancelFails
  <2>3. QED
    BY <1>1, <2>1, <2>2, GuardStepTyped
<1>9. ASSUME NEW new \in Stops \cup {None}, guard[a].at # "idle", EndGuard(a, new),
             live' \subseteq Exits, queue' \in [Readers -> Seq(Reports)],
             UNCHANGED <<entry, position, calm>>
      PROVE  Typed'
  <2>1. /\ row' \in [order : OrderStatuses, status : PositionStatuses,
                     slId : Stops \cup {None}]
        /\ mentioned' \subseteq Orders /\ PairsLegal'
        /\ guard' = [guard EXCEPT ![a] = Idle]
    BY <1>9, EndTyped
  <2>2. Idle \in GuardStates /\ Idle.at = "idle"
    BY DEF Idle, GuardStates, Labels
  <2>3. guard' \in [Guards -> GuardStates] /\ KnowsOrder'
    BY <1>1, <2>1, <2>2 DEF KnowsOrder, Typed
  <2>4. QED
    BY <1>9, <2>1, <2>3 DEF Typed, TypeOK, GuardStates
<1>10. CASE FindsClosed(a)
  BY <1>1, <1>9, <1>10 DEF FindsClosed
<1>11. CASE CreateFails(a)
  BY <1>1, <1>9, <1>11 DEF CreateFails, Creating
<1>12. ASSUME NEW s \in Stops, NEW answered \in BOOLEAN, Creates(a, s, answered)
       PROVE  Typed'
  <2>1. queue' \in [Readers -> Seq(Reports)]
    <3>1. Publish(s, "NEW") /\ s \in Orders /\ "NEW" \in Kinds
      BY <1>12 DEF Creates, Kinds
    <3>2. QED
      BY <1>1, <3>1, PublishTyped
  <2>2. live' \subseteq Exits
    BY <1>1, <1>12 DEF Creates
  <2>3. EndGuard(a, IF answered THEN s ELSE None) /\ guard[a].at # "idle"
        /\ UNCHANGED <<entry, position, calm>>
    BY <1>12 DEF Creates, Creating
  <2>4. QED
    BY <1>9, <2>1, <2>2, <2>3
<1>13. QED
  BY <1>4, <1>5, <1>6, <1>7, <1>8, <1>10, <1>11, <1>12 DEF Protect

LEMMA TypedNext == Typed /\ [Next]_vars => Typed'
<1>1. SUFFICES ASSUME Typed, [Next]_vars PROVE Typed'
  OBVIOUS
<1> USE NamesTyped
<1>2. /\ queue \in [Readers -> Seq(Reports)] /\ live \subseteq Exits
      /\ calm \in BOOLEAN /\ guard \in [Guards -> GuardStates]
      /\ row \in [order : OrderStatuses, status : PositionStatuses,
                  slId : Stops \cup {None}]
  BY <1>1 DEF Typed, TypeOK, GuardStates
<1>3. CASE Exchange
  BY <1>1, <1>3, ExchangeTyped
<1>4. ASSUME NEW r \in Readers, Read(r)
      PROVE  Typed'
  BY <1>1, <1>4, HandleTyped, ProtectTyped DEF Read
<1>5. CASE Audits
  <2>1. {"checking", "listing"} \subseteq Labels
    BY DEF Labels
  <2>2. CASE AuditBegins
    BY <1>1, <1>2, <2>1, <2>2, GuardStepTyped DEF AuditBegins
  <2>3. CASE LookFails
    BY <1>1, <1>2, <2>1, <2>3, GuardStepTyped DEF LookFails
  <2>4. CASE Looks
    <3>1. /\ UNCHANGED <<row, mentioned, entry, live, position, queue, calm>>
          /\ guard[Audit].at # "idle"
      BY <2>4 DEF Looks
    <3>2. CASE LiveStops # {}
      <4>1. guard' = [guard EXCEPT ![Audit] = Idle]
        BY <2>4, <3>2 DEF Looks
      <4>2. QED
        BY <1>1, <1>2, <3>1, <4>1, GuardStepTyped
    <3>3. CASE LiveStops = {}
      <4>1. guard' = [guard EXCEPT ![Audit].at = "listing"]
        BY <2>4, <3>3 DEF Looks
      <4>2. QED
        BY <1>1, <1>2, <2>1, <3>1, <4>1, GuardStepTyped
    <3>4. QED
      BY <3>2, <3>3
  <2>5. CASE Protect(Audit)
    BY <1>1, <2>5, ProtectTyped
  <2>6. QED
    BY <1>5, <2>2, <2>3, <2>4, <2>5 DEF Audits
<1>6. CASE MonitorPolls \/ MonitorsEntry
  <2>1. row' = [row EXCEPT !.order = "REJECTED", !.status = "FAILED"]
    BY <1>1, <1>6, OnlyRejected DEF MonitorPolls, MonitorsEntry, Typed
  <2>2. row'.order = "REJECTED" /\ row'.status = "FAILED"
    BY <1>2, <2>1
  <2>3. row' \in [order : OrderStatuses, status : PositionStatuses,
                  slId : Stops \cup {None}]
    BY <1>2, <2>1 DEF OrderStatuses, PositionStatuses
  <2>4. PairsLegal'
    BY <2>2 DEF PairsLegal, PairConsistent, Consistent, ValidPairs
  <2>5. QED
    BY <1>1, <1>6, <2>3, <2>4 DEF MonitorPolls, MonitorsEntry, Typed, TypeOK, KnowsOrder
<1>7. CASE Restart
  <2>1. NoReports \in [Readers -> Seq(Reports)]
    BY DEF NoReports
  <2>2. Idle \in GuardStates /\ Idle.at = "idle"
    BY DEF Idle, GuardStates, Labels
  <2>3. guard' \in [Guards -> GuardStates] /\ KnowsOrder'
    BY <1>7, <2>2 DEF Restart, KnowsOrder
  <2>4. QED
    BY <1>1, <1>7, <2>1, <2>3
       DEF Restart, Typed, TypeOK, GuardStates, PairsLegal
<1>8. CASE UNCHANGED vars
  BY <1>1, <1>8 DEF vars, Typed, TypeOK, KnowsOrder, PairsLegal
<1>9. QED
  BY <1>1, <1>3, <1>4, <1>5, <1>6, <1>7, <1>8 DEF Next

\* Every variable keeps its type, with any readers, queues and stop losses.
THEOREM SyncTyped == Spec => []TypeOK
<1>1. Spec => []Typed
  BY TypedInit, TypedNext, PTL DEF Spec
<1>2. Typed => TypeOK
  BY DEF Typed
<1>3. QED
  BY <1>1, <1>2, PTL

\* No order of the writes of reports, recreations and the order monitor
\* leaves an inconsistent pair of statuses in the row.
THEOREM SyncPairs == Spec => []PairsLegal
<1>1. Spec => []Typed
  BY TypedInit, TypedNext, PTL DEF Spec
<1>2. Typed => PairsLegal
  BY DEF Typed
<1>3. QED
  BY <1>1, <1>2, PTL
-----------------------------------------------------------------------------
(* The row is not ahead of the exchange *)

\* The position never becomes one that has not been opened, or not reduced.
Grows ==
  /\ position # "none" => position' # "none"
  /\ position \in {"reduced", "closed"} => position' \in {"reduced", "closed"}

\* A report of what has happened joins reports of what has happened.
LEMMA PublishTrue ==
  ASSUME Typed, ReportsTrue, Grows, NEW o \in Orders, NEW kind \in Kinds,
         Publish(o, kind),
         kind \in {"PARTIALLY_FILLED", "FILLED"} => position' # "none",
         kind = "FILLED" /\ o # Entry => position' \in {"reduced", "closed"}
  PROVE  ReportsTrue'
<1> DEFINE m == [id |-> o, kind |-> kind]
<1>1. SUFFICES ASSUME NEW r \in Readers, NEW i \in 1..Len(queue'[r])
               PROVE  Happened(queue[r][i])'
  BY DEF ReportsTrue
<1>2. m.id = o /\ m.kind = kind
  OBVIOUS
<1> HIDE DEF m
<1>3. queue[r] \in Seq(Reports)
  BY DEF Typed, TypeOK
<1>4. queue'[r] = queue[r] \/ queue'[r] = Append(queue[r], m)
  BY DEF Publish, m
<1>5. CASE i \in 1..Len(queue[r])
  <2>1. queue'[r][i] = queue[r][i]
    BY <1>3, <1>4, <1>5
  <2>2. QED
    BY <1>5, <2>1 DEF ReportsTrue, Happened, Grows
<1>6. CASE i \notin 1..Len(queue[r])
  <2>1. m \in Reports
    BY DEF m, Reports
  <2>2. queue'[r][i] = m
    BY <1>1, <1>3, <1>4, <1>6, <2>1
  <2>3. QED
    BY <1>2, <2>2 DEF Happened
<1>7. QED
  BY <1>5, <1>6

\* The reports that are left are still true, and so was the one taken.
LEMMA TakeTrue ==
  ASSUME Typed, ReportsTrue, NEW r \in Readers, NEW o, NEW kind,
         Take(r, o, kind), UNCHANGED position
  PROVE  /\ ReportsTrue'
         /\ kind \in {"PARTIALLY_FILLED", "FILLED"} => position # "none"
         /\ kind = "FILLED" /\ o # Entry => position \in {"reduced", "closed"}
<1>1. queue \in [Readers -> Seq(Reports)] /\ queue[r] \in Seq(Reports)
      /\ queue[r] # <<>>
  BY DEF Typed, TypeOK, Take
<1>2. 1 \in 1..Len(queue[r]) /\ queue[r][1] = Head(queue[r])
  BY <1>1
<1>3. Happened(Head(queue[r]))
  BY <1>2 DEF ReportsTrue
<1>4. Head(queue[r]).id = o /\ Head(queue[r]).kind = kind
  BY DEF Take
<1>5. ASSUME NEW q \in Readers, NEW i \in 1..Len(queue'[q])
      PROVE  Happened(queue[q][i])'
  <2>1. CASE q # r
    <3>1. queue'[q] = queue[q]
      BY <1>1, <2>1 DEF Take
    <3>2. QED
      BY <1>5, <3>1 DEF ReportsTrue, Happened
  <2>2. CASE q = r
    <3>1. queue'[q] = Tail(queue[r])
      BY <1>1, <2>2 DEF Take
    <3>2. i + 1 \in 1..Len(queue[r]) /\ queue'[q][i] = queue[r][i + 1]
      BY <1>1, <1>5, <3>1
    <3>3. Happened(queue[r][i + 1])
      BY <3>2 DEF ReportsTrue
    <3>4. QED
      BY <3>2, <3>3 DEF Happened
  <2>3. QED
    BY <2>1, <2>2
<1>6. QED
  BY <1>3, <1>4, <1>5 DEF ReportsTrue, Happened

\* A write is not ahead of the position when its report is true.
LEMMA StoreTrue ==
  ASSUME Typed, RowNotAhead, NEW o, NEW kind \in Kinds,
         NEW slId, Store(o, kind, slId), UNCHANGED position,
         kind \in {"PARTIALLY_FILLED", "FILLED"} => position # "none",
         kind = "FILLED" /\ o # Entry => position \in {"reduced", "closed"}
  PROVE  RowNotAhead'
<1> DEFINE p == ReportedPair(o, kind)
<1>1. /\ p.status = "ACTIVE" => position # "none"
      /\ p.status = "CLOSED" => position \in {"reduced", "closed"}
  <2>1. CASE kind = "FILLED" /\ o # Entry
    BY <2>1 DEF ReportedPair
  <2>2. CASE ~(kind = "FILLED" /\ o # Entry)
    <3>1. /\ p.status = "ACTIVE" => kind \in {"PARTIALLY_FILLED", "FILLED"}
          /\ p.status # "CLOSED"
      BY <2>2 DEF ReportedPair, MapExchangeToInternal, ToOrderStatus,
         ToPositionStatus, OrderStatuses, Kinds
    <3>2. QED
      BY <3>1
  <2>3. QED
    BY <2>1, <2>2
<1> HIDE DEF p
<1>2. CASE row' = [order |-> p.order, status |-> p.status, slId |-> slId]
  <2>1. row'.status = p.status
    BY <1>2
  <2>2. QED
    BY <1>1, <2>1 DEF RowNotAhead
<1>3. CASE row' = [row EXCEPT !.slId = slId]
  <2>1. row'.status = row.status
    BY <1>3 DEF Typed, TypeOK
  <2>2. QED
    BY <2>1 DEF RowNotAhead
<1>4. QED
  BY <1>2, <1>3 DEF Store, p

LEMMA ToldNext == Typed /\ Told /\ [Next]_vars => Told'
<1>1. SUFFICES ASSUME Typed, Told, [Next]_vars PROVE Told'
  OBVIOUS
<1> USE NamesTyped
<1>2. position \in {"none", "open", "reduced", "closed"}
  BY <1>1 DEF Typed, TypeOK
<1>3. CASE UNCHANGED <<row, position, queue>>
  BY <1>1, <1>3 DEF Told, ReportsTrue, Happened, RowNotAhead
<1>4. ASSUME NEW o \in Orders, NEW kind \in Kinds, Publish(o, kind),
             UNCHANGED row, Grows,
             kind \in {"PARTIALLY_FILLED", "FILLED"} => position' # "none",
             kind = "FILLED" /\ o # Entry => position' \in {"reduced", "closed"}
      PROVE  Told'
  <2>1. ReportsTrue'
    BY <1>1, <1>4, PublishTrue DEF Told
  <2>2. RowNotAhead'
    BY <1>1, <1>4 DEF Told, RowNotAhead, Grows
  <2>3. QED
    BY <2>1, <2>2 DEF Told
<1>5. CASE Exchange
  <2> DEFINE fills == {"PARTIALLY_FILLED", "FILLED"}
  <2>1. fills \subseteq Kinds
    BY DEF Kinds
  <2>2. \A k \in EndKinds : k \notin fills
    BY BoundAssumption
  <2>3. ASSUME NEW kind \in fills, EntryFills(kind)
        PROVE  Told'
    <3>1. Grows /\ position' # "none" /\ Publish(Entry, kind) /\ UNCHANGED row
      BY <1>2, <2>3 DEF EntryFills, Grows
    <3>2. QED
      BY <1>4, <2>1, <3>1
  <2>4. ASSUME NEW kind \in EndKinds, EntryEnds(kind)
        PROVE  Told'
    <3>1. Grows /\ Publish(Entry, kind) /\ UNCHANGED row
      BY <2>4 DEF EntryEnds, Grows
    <3>2. QED
      BY <1>4, <2>2, <3>1
  <2>5. ASSUME NEW kind \in EndKinds, NEW o \in Exits, ExitEnds(o, kind)
        PROVE  Told'
    <3>1. Grows /\ Publish(o, kind) /\ UNCHANGED row
      BY <2>5 DEF ExitEnds, Grows
    <3>2. QED
      BY <1>4, <2>2, <3>1
  <2>6. ASSUME NEW o \in Exits, ExitFills(o)
        PROVE  Told'
    <3>1. Grows /\ position' \in {"reduced", "closed"} /\ Publish(o, "FILLED")
          /\ UNCHANGED row
      BY <2>6 DEF ExitFills, Grows
    <3>2. QED
      BY <1>4, <2>1, <3>1
  <2>7. ASSUME NEW o \in Exits, ExitFillsPartly(o)
        PROVE  Told'
    <3>1. Grows /\ position' = "reduced" /\ Publish(o, "PARTIALLY_FILLED")
          /\ UNCHANGED row
      BY <2>7 DEF ExitFillsPartly, Grows
    <3>2. QED
      BY <1>4, <2>1, <3>1
  <2>8. QED
    BY <1>5, <2>3, <2>4, <2>5, <2>6, <2>7 DEF Exchange
<1>6. ASSUME NEW r \in Readers, Handle(r)
      PROVE  Told'
  <2>1. ASSUME NEW o \in Orders, NEW kind \in Kinds, Drop(r, o, kind)
        PROVE  Told'
    BY <1>1, <2>1, TakeTrue DEF Drop, Told, RowNotAhead
  <2>2. ASSUME NEW o \in Orders, NEW kind \in Kinds, Apply(r, o, kind)
        PROVE  Told'
    <3>1. /\ Take(r, o, kind) /\ UNCHANGED position
          /\ Store(o, kind, row.slId)
      BY <2>2 DEF Apply
    <3>2. /\ ReportsTrue'
          /\ kind \in {"PARTIALLY_FILLED", "FILLED"} => position # "none"
          /\ kind = "FILLED" /\ o # Entry => position \in {"reduced", "closed"}
      BY <1>1, <3>1, TakeTrue DEF Told
    <3>3. RowNotAhead'
      BY <1>1, <3>1, <3>2, StoreTrue DEF Told
    <3>4. QED
      BY <3>2, <3>3 DEF Told
  <2>3. ASSUME NEW o \in Orders, BeginRecreation(r, o)
        PROVE  Told'
    BY <1>1, <2>3, TakeTrue DEF BeginRecreation, Told, RowNotAhead
  <2>4. QED
    BY <1>6, <2>1, <2>2, <2>3 DEF Handle
<1>7. ASSUME NEW a \in Guards, NEW new, EndGuard(a, new), UNCHANGED position
      PROVE  RowNotAhead'
  <2>1. CASE a = Audit
    BY <1>1, <1>7, <2>1 DEF EndGuard, Told, RowNotAhead
  <2>2. CASE a # Audit
    <3>1. PICK slId : Store(guard[a].about, "EXPIRE_MAKER", slId)
      BY <1>7, <2>2 DEF EndGuard, EndReport
    <3>2. "EXPIRE_MAKER" \in Kinds
      BY DEF Kinds
    <3>3. QED
      BY <1>1, <1>7, <3>1, <3>2, StoreTrue DEF Told
  <2>3. QED
    BY <2>1, <2>2
<1>8. ASSUME NEW a \in Guards, Protect(a)
      PROVE  Told'
  <2>1. CASE FindsOpen(a) \/ Lists(a) \/ ListFails(a)
    BY <1>3, <2>1 DEF FindsOpen, Lists, ListFails
  <2>2. ASSUME NEW s \in Stops, Cancels(a, s)
        PROVE  Told'
    <3>1. CASE s \in live
      <4>1. Publish(s, "CANCELED") /\ UNCHANGED <<row, position>>
        BY <2>2, <3>1 DEF Cancels
      <4>2. s \in Orders /\ "CANCELED" \in Kinds
        BY DEF Kinds
      <4>3. QED
        BY <1>4, <4>1, <4>2 DEF Grows
    <3>2. CASE s \notin live
      BY <1>3, <2>2, <3>2 DEF Cancels
    <3>3. QED
      BY <3>1, <3>2
  <2>3. ASSUME NEW s \in Stops, CancelFails(a, s)
        PROVE  Told'
    BY <1>3, <2>3 DEF CancelFails
  <2>4. CASE FindsClosed(a) \/ CreateFails(a)
    <3>1. EndGuard(a, None) /\ UNCHANGED <<position, queue>>
      BY <2>4 DEF FindsClosed, CreateFails
    <3>2. RowNotAhead'
      BY <1>7, <3>1
    <3>3. QED
      BY <1>1, <3>1, <3>2 DEF Told, ReportsTrue, Happened
  <2>5. ASSUME NEW s \in Stops, NEW answered \in BOOLEAN, Creates(a, s, answered)
        PROVE  Told'
    <3>1. /\ EndGuard(a, IF answered THEN s ELSE None)
          /\ Publish(s, "NEW") /\ UNCHANGED position
      BY <2>5 DEF Creates
    <3>2. RowNotAhead'
      BY <1>7, <3>1
    <3>3. s \in Orders /\ "NEW" \in Kinds
      BY DEF Kinds
    <3>4. Grows
      BY <3>1 DEF Grows
    <3>5. ReportsTrue'
      BY <1>1, <3>1, <3>3, <3>4, PublishTrue DEF Told
    <3>6. QED
      BY <3>2, <3>5 DEF Told
  <2>6. QED
    BY <1>8, <2>1, <2>2, <2>3, <2>4, <2>5 DEF Protect
<1>9. CASE Audits
  <2>1. CASE AuditBegins \/ Looks \/ LookFails
    BY <1>3, <2>1 DEF AuditBegins, Looks, LookFails
  <2>2. CASE Protect(Audit)
    BY <1>8, <2>2
  <2>3. QED
    BY <1>9, <2>1, <2>2 DEF Audits
<1>10. CASE MonitorPolls \/ MonitorsEntry
  <2>1. row' = [row EXCEPT !.order = "REJECTED", !.status = "FAILED"]
    BY <1>1, <1>10, OnlyRejected DEF MonitorPolls, MonitorsEntry, Typed
  <2>2. row'.status = "FAILED"
    BY <1>1, <2>1 DEF Typed, TypeOK
  <2>3. QED
    BY <1>1, <1>10, <2>2
       DEF MonitorPolls, MonitorsEntry, Told, ReportsTrue, Happened, RowNotAhead
<1>11. CASE Restart
  <2>1. \A r \in Readers : Len(queue'[r]) = 0
    BY <1>11 DEF Restart, NoReports
  <2>2. ReportsTrue'
    BY <2>1 DEF ReportsTrue
  <2>3. QED
    BY <1>1, <1>11, <2>2 DEF Restart, Told, RowNotAhead
<1>12. CASE UNCHANGED vars
  BY <1>3, <1>12 DEF vars
<1>13. QED
  BY <1>1, <1>5, <1>6, <1>8, <1>9, <1>10, <1>11, <1>12 DEF Next, Read

LEMMA ToldInit == Init => Told
<1>1. SUFFICES ASSUME Init PROVE Told
  OBVIOUS
<1>2. RowNotAhead
  BY <1>1 DEF Init, RowNotAhead
<1>3. \A o : \A i \in 1..Len(<<[id |-> o, kind |-> "NEW"]>>) :
         <<[id |-> o, kind |-> "NEW"]>>[i].kind = "NEW"
  OBVIOUS
<1>4. \A r \in Readers : \A i \in 1..Len(queue[r]) : queue[r][i].kind = "NEW"
  BY <1>1, <1>3 DEF Init
<1>5. QED
  BY <1>2, <1>4 DEF Told, ReportsTrue, Happened

\* Whatever order the readers handle their reports in, a row that says ACTIVE
\* has an executed entry, and one that says CLOSED an executed exit.
THEOREM RowFollows == Spec => []RowNotAhead
<1>1. Init => Typed /\ Told
  BY TypedInit, ToldInit
<1>2. Typed /\ Told /\ [Next]_vars => Typed' /\ Told'
  BY TypedNext, ToldNext
<1>3. Typed /\ Told => RowNotAhead
  BY DEF Told
<1>4. QED
  BY <1>1, <1>2, <1>3, PTL DEF Spec
-----------------------------------------------------------------------------
(* One stop loss *)

LEMMA GuardedInit == Init => Guarded
<1>1. SUFFICES ASSUME Init PROVE Guarded
  OBVIOUS
<1>2. \A a \in Guards : ~Cancelling(a)
  BY <1>1 DEF Init, Idle, Cancelling
<1>3. \A s \in LiveStops : s = First
  BY <1>1, OrdersAssumption DEF Init, LiveStops
<1>4. QED
  BY <1>2, <1>3 DEF Guarded, OneCanceller, OneStop

LEMMA GuardedNext == Typed /\ Guarded /\ [Next]_vars => Guarded'
<1>1. SUFFICES ASSUME Typed, Guarded, [Next]_vars PROVE Guarded'
  OBVIOUS
<1> USE NamesTyped
<1>2. guard \in [Guards -> GuardStates] /\ \A b \in Guards : guard[b] \in GuardStates
  BY <1>1 DEF Typed, TypeOK, GuardStates
\* Nobody starts to cancel, and no order appears.
<1>3. ASSUME live' \subseteq live, calm' = calm,
             \A b \in Guards : Cancelling(b)' =>
               Cancelling(b) /\ guard'[b].todo = guard[b].todo
      PROVE  Guarded'
  <2>1. LiveStops' \subseteq LiveStops
    BY <1>3 DEF LiveStops
  <2>2. OneStop'
    BY <1>1, <1>3, <2>1 DEF Guarded, OneStop
  <2>3. OneCanceller'
    BY <1>1, <1>3, <2>1 DEF Guarded, OneCanceller
  <2>4. QED
    BY <2>2, <2>3 DEF Guarded
<1>4. CASE calm' = FALSE
  BY <1>4 DEF Guarded, OneCanceller, OneStop
<1>5. CASE live' \subseteq live /\ UNCHANGED <<guard, calm>>
  BY <1>3, <1>5 DEF Cancelling
<1>6. ASSUME NEW a \in Guards, NEW g, guard' = [guard EXCEPT ![a] = g],
             g.at # "cancelling", live' \subseteq live, calm' = calm
      PROVE  Guarded'
  <2>1. /\ \A b \in Guards \ {a} : guard'[b] = guard[b]
        /\ guard'[a] = g
    BY <1>2, <1>6
  <2>2. QED
    BY <1>3, <1>6, <2>1 DEF Cancelling
<1>7. Idle.at # "cancelling"
  BY DEF Idle
<1>8. ASSUME NEW a \in Guards, NEW new, EndGuard(a, new)
      PROVE  guard' = [guard EXCEPT ![a] = Idle]
  BY <1>8 DEF EndGuard, EndReport
<1>9. CASE Exchange
  <2>1. live' \subseteq live /\ UNCHANGED <<guard, calm>>
    BY <1>9 DEF Exchange, EntryFills, EntryEnds, ExitFills, ExitFillsPartly, ExitEnds
  <2>2. QED
    BY <1>5, <2>1
<1>10. ASSUME NEW r \in Readers, Handle(r)
       PROVE  Guarded'
  <2>1. CASE UNCHANGED <<live, guard, calm>>
    BY <1>5, <2>1
  <2>2. ASSUME NEW o \in Orders, BeginRecreation(r, o)
        PROVE  Guarded'
    <3> DEFINE g == [Idle EXCEPT !.at = "checking", !.about = o]
    <3>1. g.at # "cancelling"
      BY DEF Idle
    <3>2. guard' = [guard EXCEPT ![r] = g] /\ UNCHANGED <<live, calm>>
      BY <2>2 DEF BeginRecreation
    <3> HIDE DEF g
    <3>3. QED
      BY <1>6, <3>1, <3>2
  <2>3. QED
    BY <1>10, <2>1, <2>2 DEF Handle, Drop, Apply
\* A label other than cancelling.
<1>11. ASSUME NEW a \in Guards, NEW at, at # "cancelling",
              guard' = [guard EXCEPT ![a].at = at], UNCHANGED <<live, calm>>
       PROVE  Guarded'
  <2> DEFINE g == [guard[a] EXCEPT !.at = at]
  <2>1. g.at # "cancelling"
    BY <1>2, <1>11 DEF GuardStates
  <2>2. guard' = [guard EXCEPT ![a] = g]
    BY <1>11
  <2> HIDE DEF g
  <2>3. QED
    BY <1>6, <1>11, <2>1, <2>2
<1>12. ASSUME NEW a \in Guards, Lists(a)
       PROVE  Guarded'
  <2>1. CASE ~calm'
    BY <2>1 DEF Guarded, OneCanceller, OneStop
  <2>2. CASE calm'
    <3>1. calm /\ \A b \in Guards \ {a} : ~Cancelling(b)
      BY <1>12, <2>2 DEF Lists, Overlaps, Cancelling
    <3>2. UNCHANGED live
      BY <1>12 DEF Lists
    <3>3. /\ \A b \in Guards \ {a} : guard'[b] = guard[b]
          /\ guard'[a].todo = LiveStops
      BY <1>2, <1>12 DEF Lists, GuardStates
    <3>4. OneCanceller'
      BY <3>1, <3>2, <3>3 DEF OneCanceller, Cancelling, LiveStops
    <3>5. OneStop'
      BY <1>1, <3>1, <3>2 DEF Guarded, OneStop, LiveStops
    <3>6. QED
      BY <3>4, <3>5 DEF Guarded
  <2>3. QED
    BY <2>1, <2>2
<1>13. ASSUME NEW a \in Guards, NEW s \in Stops, Cancels(a, s)
       PROVE  Guarded'
  <2>1. live' = live \ {s} /\ calm' = calm
    BY <1>13 DEF Cancels
  <2>2. LiveStops' = LiveStops \ {s}
    BY <2>1 DEF LiveStops
  <2>3. /\ \A b \in Guards \ {a} : guard'[b] = guard[b]
        /\ guard'[a].todo = guard[a].todo \ {s} /\ guard'[a].at = guard[a].at
    BY <1>2, <1>13 DEF Cancels, GuardStates
  <2>4. OneCanceller'
    BY <1>1, <2>1, <2>2, <2>3 DEF Guarded, OneCanceller, Cancelling
  <2>5. OneStop'
    BY <1>1, <2>1, <2>2 DEF Guarded, OneStop
  <2>6. QED
    BY <2>4, <2>5 DEF Guarded
<1>14. ASSUME NEW a \in Guards, NEW s \in Stops, NEW answered \in BOOLEAN,
              Creates(a, s, answered)
       PROVE  Guarded'
  <2>1. /\ Cancelling(a) /\ guard[a].todo = {} /\ calm' = calm
        /\ live' = live \cup {s}
        /\ EndGuard(a, IF answered THEN s ELSE None)
    BY <1>14 DEF Creates, Creating, Cancelling
  <2>2. guard' = [guard EXCEPT ![a] = Idle]
    BY <1>8, <2>1
  <2>3. CASE ~calm
    BY <2>1, <2>3 DEF Guarded, OneCanceller, OneStop
  <2>4. CASE calm
    <3>1. LiveStops = {} /\ \A b \in Guards \ {a} : ~Cancelling(b)
      BY <1>1, <2>1, <2>4 DEF Guarded, OneCanceller
    <3>2. LiveStops' = {s}
      BY <2>1, <3>1 DEF LiveStops
    <3>3. /\ \A b \in Guards \ {a} : guard'[b] = guard[b]
          /\ guard'[a] = Idle
      BY <1>2, <2>2
    <3>4. \A b \in Guards : ~Cancelling(b)'
      BY <1>7, <3>1, <3>3 DEF Cancelling
    <3>5. QED
      BY <3>2, <3>4 DEF Guarded, OneCanceller, OneStop
  <2>5. QED
    BY <2>3, <2>4
<1>15. ASSUME NEW a \in Guards, Protect(a)
       PROVE  Guarded'
  <2>1. CASE FindsOpen(a)
    BY <1>11, <2>1 DEF FindsOpen
  <2>2. CASE FindsClosed(a) \/ CreateFails(a)
    <3>1. EndGuard(a, None) /\ UNCHANGED <<live, calm>>
      BY <2>2 DEF FindsClosed, CreateFails
    <3>2. QED
      BY <1>6, <1>7, <1>8, <3>1
  <2>3. CASE ListFails(a)
    BY <1>4, <2>3 DEF ListFails
  <2>4. ASSUME NEW s \in Stops, CancelFails(a, s)
        PROVE  Guarded'
    BY <1>4, <2>4 DEF CancelFails
  <2>5. QED
    BY <1>12, <1>13, <1>14, <1>15, <2>1, <2>2, <2>3, <2>4 DEF Protect
<1>16. CASE Audits
  <2>1. CASE AuditBegins \/ LookFails
    BY <1>11, <2>1 DEF AuditBegins, LookFails
  <2>2. CASE Looks
    <3>1. UNCHANGED <<live, calm>>
      BY <2>2 DEF Looks
    <3>2. CASE LiveStops # {}
      <4>1. guard' = [guard EXCEPT ![Audit] = Idle]
        BY <2>2, <3>2 DEF Looks
      <4>2. QED
        BY <1>6, <1>7, <3>1, <4>1
    <3>3. CASE LiveStops = {}
      <4>1. guard' = [guard EXCEPT ![Audit].at = "listing"]
        BY <2>2, <3>3 DEF Looks
      <4>2. QED
        BY <1>11, <3>1, <4>1
    <3>4. QED
      BY <3>2, <3>3
  <2>3. CASE Protect(Audit)
    BY <1>15, <2>3
  <2>4. QED
    BY <1>16, <2>1, <2>2, <2>3 DEF Audits
<1>17. CASE MonitorPolls \/ MonitorsEntry
  BY <1>5, <1>17 DEF MonitorPolls, MonitorsEntry
<1>18. CASE Restart
  <2>1. \A b \in Guards : ~Cancelling(b)'
    BY <1>7, <1>18 DEF Restart, Cancelling
  <2>2. QED
    BY <1>3, <1>18, <2>1 DEF Restart
<1>19. CASE UNCHANGED vars
  BY <1>5, <1>19 DEF vars
<1>20. QED
  BY <1>1, <1>9, <1>10, <1>15, <1>16, <1>17, <1>18, <1>19 DEF Next, Read

\* Cancel first, then create: without overlapping guards or failed lists and
\* cancellations there is never a second live stop loss, whatever answers,
\* reports and restarts are lost in between.
THEOREM SyncOneStop == Spec => []OneStop
<1>1. Init => Typed /\ Guarded
  BY TypedInit, GuardedInit
<1>2. Typed /\ Guarded /\ [Next]_vars => Typed' /\ Guarded'
  BY TypedNext, GuardedNext
<1>3. Typed /\ Guarded => OneStop
  BY DEF Guarded
<1>4. QED
  BY <1>1, <1>2, <1>3, PTL DEF Spec
=============================================================================
