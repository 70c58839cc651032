------------------------ MODULE FollowupSignal_proofs ------------------------
(***************************************************************************)
(* Proofs for FollowupSignal: its types, the bound on the position and     *)
(* that an alert is worked on once, for any number of deliveries, alerts   *)
(* and trades.                                                             *)
(***************************************************************************)
EXTENDS FollowupSignal, FiniteSetTheorems, TLAPS

\* An alert somebody got past the duplicate check with is remembered, or its
\* hash was not stored.
Hashed ==
  \A d \in Deliveries :
    pc[d] \notin {"received", "skipped"} => AlertOf[d] \in seen \cup unsure

IInv == TypeOK /\ WithinEntries /\ Hashed /\ ActsOnce

-----------------------------------------------------------------------------
(* Cardinalities *)

LEMMA FilledBound ==
  ASSUME TypeOK
  PROVE  /\ IsFiniteSet(Filled)
         /\ Cardinality(Filled) \in Nat
         /\ Cardinality(Filled) <= Cardinality(Trades)
         /\ Cardinality(Trades) \in Nat
<1>1. Filled \subseteq Trades
  BY DEF Filled
<1> QED
  BY <1>1, FiniteAssumption, FS_Subset, FS_CardinalityType

LEMMA PositionType ==
  ASSUME TypeOK, WithinEntries
  PROVE  pos \in 0..MaxPosition /\ MaxPosition \in Nat /\ Unit \in 0..MaxPosition \cup {2}
<1>1. /\ Cardinality(Filled) \in Nat /\ Cardinality(Trades) \in Nat
      /\ Cardinality(Filled) <= Cardinality(Trades)
  BY FilledBound
<1> QED
  BY <1>1 DEF WithinEntries, MaxPosition, Unit, TypeOK

\* A trade of a delivery exists, so the row's size is within the bound.
LEMMA UnitFits ==
  ASSUME NEW d \in Deliveries
  PROVE  Unit \in 0..MaxPosition /\ Trade(d) \in Trades
<1>1. Trade(d) \in Trades
  BY AlertAssumption DEF Trade
<1>2. Cardinality(Trades) \in Nat /\ Cardinality(Trades) # 0
  BY <1>1, FiniteAssumption, FS_CardinalityType, FS_EmptySet
<1> QED
  BY <1>1, <1>2 DEF Unit, MaxPosition

LEMMA ReducedType ==
  ASSUME pos \in Nat, NEW amount \in Nat
  PROVE  Reduced(amount) \in 0..pos
BY DEF Reduced

\* The amount a valid update begins with.
LEMMA AmountType ==
  ASSUME NEW d \in Deliveries, NEW p \in Parts, TypeOK, WithinEntries,
         NEW size \in Sizes(Trade(d), p.act)
  PROVE  /\ size \in 0..MaxPosition
         /\ (IF p.half THEN size \div 2 ELSE size) \in 0..MaxPosition
<1>1. Unit \in 0..MaxPosition /\ pos \in 0..MaxPosition /\ MaxPosition \in Nat
  BY UnitFits, PositionType
<1>2. size \in 0..MaxPosition
  BY <1>1 DEF Sizes
<1>3. size \div 2 \in 0..MaxPosition
  BY <1>1, <1>2
<1> QED
  BY <1>2, <1>3

LEMMA FreshType ==
  TypeOK /\ WithinEntries => FreshTask \in Tasks
<1> SUFFICES ASSUME TypeOK, WithinEntries PROVE FreshTask \in Tasks
  OBVIOUS
<1>1. MaxPosition \in Nat
  BY PositionType
<1> QED
  BY <1>1 DEF FreshTask, Tasks

-----------------------------------------------------------------------------
(* What a step does to the tasks: it moves at most one of them *)

\* Task d goes to a label with locals of the right type.
Moves(d) ==
  \E l \in (Waiting \cup Ended) \ {"received"}, t \in Tasks :
    GoTo(d, l) /\ Set(d, t)

LEMMA EndMoves ==
  ASSUME NEW d \in Deliveries, NEW l \in Ended, TypeOK, WithinEntries, End(d, l)
  PROVE  Moves(d)
<1>1. FreshTask \in Tasks
  BY FreshType
<1> QED
  BY <1>1 DEF End, Moves, Ended, Waiting

LEMMA SucceedMoves ==
  ASSUME NEW d \in Deliveries, TypeOK, WithinEntries, Succeed(d)
  PROVE  Moves(d)
<1>1. FreshTask \in Tasks
  BY FreshType
<1>2. CASE task[d].thenStop
  BY <1>1, <1>2 DEF Succeed, Moves, Waiting
<1>3. CASE ~task[d].thenStop
  <2>1. End(d, "processed")
    BY <1>3 DEF Succeed
  <2> QED
    BY <2>1, EndMoves DEF Ended
<1> QED
  BY <1>2, <1>3

LEMMA UpdateMoves ==
  ASSUME NEW d \in Deliveries, NEW p \in Parts, TypeOK, WithinEntries, Update(d, p)
  PROVE  Moves(d)
<1>1. FreshTask \in Tasks
  BY FreshType
<1>2. CASE Acknowledge(d, p)
  <2>1. CASE p.thenStop
    BY <1>1, <1>2, <2>1 DEF Acknowledge, Moves, Waiting
  <2>2. CASE ~p.thenStop
    <3>1. \E l \in Ended : End(d, l)
      BY <1>2, <2>2 DEF Acknowledge, Ended
    <3> QED
      BY <3>1, EndMoves
  <2> QED
    BY <2>1, <2>2
<1>3. CASE \E size \in Sizes(Trade(d), p.act) : Begin(d, p, size)
  <2>1. PICK size \in Sizes(Trade(d), p.act) : Begin(d, p, size)
    BY <1>3
  <2>2. (IF p.half THEN size \div 2 ELSE size) \in 0..MaxPosition
    BY AmountType
  <2>3. p.thenStop \in BOOLEAN
    BY DEF Parts
  <2>4. [FreshTask EXCEPT !.thenStop = p.thenStop] \in Tasks
    BY <1>1, <2>3 DEF Tasks, FreshTask
  <2>5. [FreshTask EXCEPT !.size = IF p.half THEN size \div 2 ELSE size] \in Tasks
    BY <1>1, <2>2 DEF Tasks, FreshTask
  <2>6. CASE End(d, "processed")
    BY <2>6, EndMoves DEF Ended
  <2>7. CASE ~End(d, "processed")
    BY <2>1, <2>4, <2>5, <2>7 DEF Begin, Moves, Waiting
  <2> QED
    BY <2>6, <2>7
<1> QED
  BY <1>2, <1>3 DEF Update

\* What a step of one task past the duplicate check leaves as it is.
Work(d) ==
  \/ \E p \in Parts : Update(d, p)
  \/ Refuse(d) \/ ListStops(d) \/ CancelStop(d) \/ SellPosition(d)
  \/ ReplaceStop(d) \/ CreateStop(d) \/ PlaceTake(d) \/ WithdrawEntry(d)

TaskTyped(d) ==
  /\ pc' \in [Deliveries -> Waiting \cup Ended]
  /\ task' \in [Deliveries -> Tasks]
  /\ \A e \in Deliveries : e # d => pc'[e] = pc[e]
  /\ pc'[d] # "received" \/ pc' = pc

LEMMA MovesTyped ==
  ASSUME NEW d \in Deliveries, TypeOK, Moves(d)
  PROVE  TaskTyped(d)
<1>1. PICK l \in (Waiting \cup Ended) \ {"received"}, t \in Tasks :
        GoTo(d, l) /\ Set(d, t)
  BY DEF Moves
<1>2. pc' = [pc EXCEPT ![d] = l] /\ task' = [task EXCEPT ![d] = t]
  BY <1>1 DEF GoTo, Set
<1>3. pc \in [Deliveries -> Waiting \cup Ended] /\ task \in [Deliveries -> Tasks]
  BY DEF TypeOK
<1> QED
  BY <1>1, <1>2, <1>3 DEF TaskTyped

LEMMA WorkTyped ==
  ASSUME NEW d \in Deliveries, TypeOK, WithinEntries, Work(d)
  PROVE  TaskTyped(d) /\ pc[d] \notin {"received", "skipped"}
<1> USE DEF Ended
<1>0. pc \in [Deliveries -> Waiting \cup Ended] /\ task \in [Deliveries -> Tasks]
  BY DEF TypeOK
<1>1. ASSUME NEW p \in Parts, Update(d, p) PROVE TaskTyped(d) /\ pc[d] \notin {"received", "skipped"}
  BY <1>1, UpdateMoves, MovesTyped DEF Update
<1>2. CASE Refuse(d)
  BY <1>2, EndMoves, MovesTyped DEF Refuse
<1>3. CASE ListStops(d)
  <2>1. PICK found \in {stops, {}} : task' = [task EXCEPT ![d].todo = found]
    BY <1>3 DEF ListStops
  <2>2. [task[d] EXCEPT !.todo = found] \in Tasks
    BY <1>0, <2>1 DEF Tasks, TypeOK
  <2>3. GoTo(d, "cancelling") /\ Set(d, [task[d] EXCEPT !.todo = found])
    BY <1>3, <2>1 DEF ListStops, Set
  <2> QED
    BY <1>3, <2>2, <2>3, MovesTyped DEF Moves, Waiting, ListStops
<1>4. CASE CancelStop(d)
  <2>1. PICK s \in task[d].todo : task' = [task EXCEPT ![d].todo = @ \ {s}]
    BY <1>4 DEF CancelStop
  <2>2. [task[d] EXCEPT !.todo = @ \ {s}] \in Tasks
    BY <1>0 DEF Tasks
  <2>3. task' \in [Deliveries -> Tasks]
    BY <1>0, <2>1, <2>2
  <2> QED
    BY <1>0, <1>4, <2>3 DEF CancelStop, TaskTyped
<1>5. CASE SellPosition(d)
  <2>1. Succeed(d) \/ End(d, "failed")
    BY <1>5 DEF SellPosition
  <2> QED
    BY <1>5, <2>1, SucceedMoves, EndMoves, MovesTyped DEF SellPosition
<1>6. CASE ReplaceStop(d)
  <2>1. task[d] \in Tasks /\ task = [task EXCEPT ![d] = task[d]]
    BY <1>0
  <2>2. GoTo(d, "creating") /\ Set(d, task[d])
    BY <1>6, <2>1 DEF ReplaceStop, Set
  <2> QED
    BY <1>6, <2>1, <2>2, MovesTyped DEF Moves, Waiting, ReplaceStop
<1>7. CASE CreateStop(d)
  <2>1. Succeed(d) \/ End(d, "failed")
    BY <1>7 DEF CreateStop
  <2> QED
    BY <1>7, <2>1, SucceedMoves, EndMoves, MovesTyped DEF CreateStop
<1>8. CASE PlaceTake(d)
  <2>1. Succeed(d) \/ End(d, "failed")
    BY <1>8 DEF PlaceTake
  <2> QED
    BY <1>8, <2>1, SucceedMoves, EndMoves, MovesTyped DEF PlaceTake
<1>9. CASE WithdrawEntry(d)
  <2>1. End(d, "withdrawn") \/ End(d, "failed")
    BY <1>9 DEF WithdrawEntry
  <2> QED
    BY <1>9, <2>1, EndMoves, MovesTyped DEF WithdrawEntry
<1> QED
  BY <1>1, <1>2, <1>3, <1>4, <1>5, <1>6, <1>7, <1>8, <1>9 DEF Work

-----------------------------------------------------------------------------
(* What a step does to the exchange *)

ExchangeTyped ==
  /\ entry' \in [Trades -> {"resting", "filled", "canceled"}]
  /\ stops' \subseteq StopIds
  /\ limits' \in 0..MaxTakes

\* Only an entry that fills adds to the position.
Shrinks == pos' \in 0..pos /\ Filled' = Filled

LEMMA ShrinksWithin ==
  ASSUME TypeOK, WithinEntries, Shrinks
  PROVE  pos' \in Int /\ WithinEntries'
<1>1. Cardinality(Filled) \in Nat /\ Cardinality(Filled') = Cardinality(Filled)
  BY FilledBound DEF Shrinks
<1>2. pos \in Nat
  BY DEF TypeOK, WithinEntries
<1> QED
  BY <1>1, <1>2 DEF Shrinks, WithinEntries, Unit

LEMMA SamePosition ==
  ASSUME TypeOK, WithinEntries, UNCHANGED <<entry, pos>>
  PROVE  Shrinks
BY DEF TypeOK, WithinEntries, Shrinks, Filled

LEMMA WorkExchange ==
  ASSUME NEW d \in Deliveries, TypeOK, WithinEntries, Work(d)
  PROVE  ExchangeTyped /\ Shrinks /\ UNCHANGED <<tables, audit>>
<1> USE DEF exchange, tables
<1>0. /\ entry \in [Trades -> {"resting", "filled", "canceled"}]
      /\ stops \subseteq StopIds /\ limits \in 0..MaxTakes /\ pos \in Nat
      /\ task[d] \in Tasks
  BY DEF TypeOK, WithinEntries
<1>1. ASSUME NEW p \in Parts, Update(d, p)
      PROVE  ExchangeTyped /\ Shrinks /\ UNCHANGED <<tables, audit>>
  BY <1>0, <1>1, SamePosition DEF Update, ExchangeTyped
<1>2. CASE Refuse(d) \/ ListStops(d)
  BY <1>0, <1>2, SamePosition DEF Refuse, ListStops, ExchangeTyped
<1>3. CASE CancelStop(d)
  BY <1>0, <1>3, SamePosition DEF CancelStop, ExchangeTyped
<1>4. CASE SellPosition(d)
  <2>1. UNCHANGED <<entry, stops, limits, tables, audit>>
    BY <1>4 DEF SellPosition
  <2>2. task[d].size \in Nat
    BY <1>0, PositionType DEF Tasks
  <2>3. pos' \in 0..pos
    BY <1>0, <1>4, <2>2, ReducedType DEF SellPosition
  <2> QED
    BY <1>0, <2>1, <2>3 DEF ExchangeTyped, Shrinks, Filled
<1>5. CASE ReplaceStop(d)
  BY <1>0, <1>5, SamePosition DEF ReplaceStop, ExchangeTyped
<1>6. CASE CreateStop(d)
  BY <1>0, <1>6, SamePosition DEF CreateStop, ExchangeTyped, Unused
<1>7. CASE PlaceTake(d)
  <2>1. MaxTakes \in Nat
    BY StopAssumption
  <2> QED
    BY <1>0, <1>7, <2>1, SamePosition DEF PlaceTake, ExchangeTyped
<1>8. CASE WithdrawEntry(d)
  <2>1. CASE UNCHANGED entry
    BY <1>0, <1>8, <2>1, SamePosition DEF WithdrawEntry, ExchangeTyped
  <2>2. CASE /\ entry[Trade(d)] = "resting"
             /\ entry' = [entry EXCEPT ![Trade(d)] = "canceled"]
    <3>1. entry' \in [Trades -> {"resting", "filled", "canceled"}]
      BY <1>0, <2>2
    <3>2. Filled' = Filled
      BY <1>0, <2>2 DEF Filled
    <3> QED
      BY <1>0, <1>8, <3>1, <3>2 DEF WithdrawEntry, ExchangeTyped, Shrinks
  <2> QED
    BY <1>8, <2>1, <2>2 DEF WithdrawEntry
<1> QED
  BY <1>1, <1>2, <1>3, <1>4, <1>5, <1>6, <1>7, <1>8 DEF Work

-----------------------------------------------------------------------------
(* The invariant *)

LEMMA InitIInv == Init => IInv
<1> SUFFICES ASSUME Init PROVE IInv
  OBVIOUS
<1>1. IsFiniteSet(Filled) /\ Cardinality(Filled) \in Nat
  <2>1. Filled \subseteq Trades
    BY DEF Filled
  <2> QED
    BY <2>1, FiniteAssumption, FS_Subset, FS_CardinalityType
<1>2. Cardinality(Trades) \in Nat /\ MaxTakes \in Nat
  BY FiniteAssumption, StopAssumption, FS_CardinalityType
<1>3. pos = Unit * Cardinality(Filled)
  BY DEF Init, Filled
<1>4. WithinEntries
  BY <1>1, <1>3 DEF WithinEntries, Unit
<1>5. FreshTask \in Tasks
  BY <1>2 DEF FreshTask, Tasks, MaxPosition, Unit
<1>6. Stored \subseteq StopIds
  BY DEF Init, Stored
<1>7. TypeOK
  BY <1>1, <1>2, <1>3, <1>5, <1>6
     DEF Init, TypeOK, Waiting, Audits, Idle, Unit
<1>8. Hashed /\ ActsOnce
  BY DEF Init, Hashed, ActsOnce
<1> QED
  BY <1>4, <1>7, <1>8 DEF IInv

\* A step of a task that is past the check moves no delivery through it.
LEMMA StaysOnce ==
  ASSUME Hashed, ActsOnce, seen \subseteq seen', unsure \subseteq unsure',
         NEW d \in Deliveries, pc[d] \notin {"received", "skipped"},
         \A e \in Deliveries : e # d => pc'[e] = pc[e]
  PROVE  Hashed' /\ ActsOnce'
<1>1. \A e \in Deliveries :
        pc'[e] \notin {"received", "skipped"} => pc[e] \notin {"received", "skipped"}
  OBVIOUS
<1>2. Hashed'
  BY <1>1 DEF Hashed
<1>3. ActsOnce'
  BY <1>1 DEF ActsOnce
<1> QED
  BY <1>2, <1>3

LEMMA WorkStep ==
  ASSUME IInv, NEW d \in Deliveries, Work(d)
  PROVE  IInv'
<1>1. TypeOK /\ WithinEntries /\ Hashed /\ ActsOnce
  BY DEF IInv
<1>2. TaskTyped(d) /\ pc[d] \notin {"received", "skipped"}
  BY <1>1, WorkTyped
<1>3. ExchangeTyped /\ Shrinks /\ UNCHANGED <<tables, audit>>
  BY <1>1, WorkExchange
<1>4. pos' \in Int /\ WithinEntries'
  BY <1>1, <1>3, ShrinksWithin
<1>5. TypeOK'
  BY <1>1, <1>2, <1>3, <1>4 DEF TypeOK, TaskTyped, ExchangeTyped, tables
<1>6. Hashed' /\ ActsOnce'
  BY <1>1, <1>2, <1>3, StaysOnce DEF TaskTyped, tables
<1> QED
  BY <1>4, <1>5, <1>6 DEF IInv

LEMMA SkipStep ==
  ASSUME IInv, NEW d \in Deliveries, Skip(d)
  PROVE  IInv'
<1>1. TypeOK /\ WithinEntries /\ Hashed /\ ActsOnce
  BY DEF IInv
<1>2. Moves(d)
  BY <1>1, EndMoves DEF Skip, Ended
<1>3. TaskTyped(d)
  BY <1>1, <1>2, MovesTyped
<1>4. UNCHANGED <<exchange, tables, audit>> /\ pc' = [pc EXCEPT ![d] = "skipped"]
  BY DEF Skip, End, GoTo
<1>5. WithinEntries'
  BY <1>1, <1>4 DEF WithinEntries, Filled, exchange
<1>6. TypeOK'
  BY <1>1, <1>3, <1>4 DEF TypeOK, TaskTyped, exchange, tables
<1>7. pc'[d] = "skipped"
  BY <1>1, <1>4 DEF TypeOK
<1>8. Hashed'
  BY <1>1, <1>3, <1>4, <1>7 DEF Hashed, TaskTyped, tables
<1>9. ActsOnce'
  BY <1>1, <1>3, <1>4, <1>7 DEF ActsOnce, TaskTyped, tables
<1> QED
  BY <1>5, <1>6, <1>8, <1>9 DEF IInv

\* The one step that lets a delivery through: its alert was neither seen nor
\* let through before, or it is unsure afterwards.
LEMMA AcceptStep ==
  ASSUME IInv, NEW d \in Deliveries, Accept(d)
  PROVE  IInv'
<1> DEFINE a == AlertOf[d]
<1>1. TypeOK /\ WithinEntries /\ Hashed /\ ActsOnce
  BY DEF IInv
<1>2. UNCHANGED <<exchange, stopId, closed, audit>> /\ a \in Alerts /\ pc[d] = "received"
  BY AlertAssumption DEF Accept
<1>3. /\ seen' \subseteq Alerts /\ unsure' \subseteq Alerts
      /\ seen \subseteq seen' /\ unsure \subseteq unsure'
      /\ a \in seen' \cup unsure'
      /\ a \notin unsure' => a \notin seen
  BY <1>1, <1>2 DEF Accept, Remember, TypeOK
<1>4. TaskTyped(d)
  <2>1. CASE GoTo(d, "parsing") /\ UNCHANGED task
    BY <1>1, <2>1 DEF GoTo, TaskTyped, TypeOK, Waiting
  <2>2. CASE End(d, "skipped")
    BY <1>1, <2>2, EndMoves, MovesTyped DEF Ended
  <2> QED
    BY <2>1, <2>2 DEF Accept
<1>5. WithinEntries'
  BY <1>1, <1>2 DEF WithinEntries, Filled, exchange
<1>6. TypeOK'
  BY <1>1, <1>2, <1>3, <1>4 DEF TypeOK, TaskTyped, exchange
<1>7. Hashed'
  <2> SUFFICES ASSUME NEW e \in Deliveries, pc'[e] \notin {"received", "skipped"}
               PROVE  AlertOf[e] \in seen' \cup unsure'
    BY DEF Hashed
  <2>1. CASE e = d
    BY <1>3, <2>1
  <2>2. CASE e # d
    BY <1>1, <1>3, <1>4, <2>2 DEF Hashed, TaskTyped
  <2> QED
    BY <2>1, <2>2
<1>8. ASSUME NEW e \in Deliveries, e # d, AlertOf[e] = a, a \notin unsure'
      PROVE  pc'[e] \in {"received", "skipped"}
  BY <1>1, <1>3, <1>4, <1>8 DEF Hashed, TaskTyped
<1>9. ActsOnce'
  <2> SUFFICES ASSUME NEW e \in Deliveries, NEW f \in Deliveries, e # f,
                      AlertOf[e] = AlertOf[f], AlertOf[e] \notin unsure'
               PROVE  pc'[e] \in {"received", "skipped"} \/ pc'[f] \in {"received", "skipped"}
    BY DEF ActsOnce
  <2>1. CASE e = d
    BY <1>8, <2>1
  <2>2. CASE f = d
    BY <1>8, <2>2
  <2>3. CASE e # d /\ f # d
    BY <1>1, <1>3, <1>4, <2>3 DEF ActsOnce, TaskTyped
  <2> QED
    BY <2>1, <2>2, <2>3
<1> QED
  BY <1>5, <1>6, <1>7, <1>9 DEF IInv

\* Steps that leave the tasks and the hashes alone.
LEMMA QuietStep ==
  ASSUME IInv, UNCHANGED <<pc, task, seen, unsure, stopId>>, closed' \subseteq Trades,
         audit' \in Audits, ExchangeTyped, pos' \in Int /\ WithinEntries'
  PROVE  IInv'
<1>1. TypeOK /\ Hashed /\ ActsOnce
  BY DEF IInv
<1>2. TypeOK'
  BY <1>1 DEF TypeOK, ExchangeTyped
<1>3. Hashed' /\ ActsOnce'
  BY <1>1 DEF Hashed, ActsOnce
<1> QED
  BY <1>2, <1>3 DEF IInv

LEMMA AuditStep ==
  ASSUME IInv, Audit
  PROVE  IInv'
<1>1. TypeOK /\ WithinEntries
  BY DEF IInv
<1>2. UNCHANGED <<tasks, entry, pos, limits, tables>>
  BY DEF Audit, AuditStarts, AuditLooks, AuditLists, AuditCancels, AuditCancelled,
         AuditCreates, AuditFails, exchange
<1>3. pos' \in Int /\ WithinEntries'
  BY <1>1, <1>2, SamePosition, ShrinksWithin
<1>4. audit \in Audits /\ stops \subseteq StopIds /\ Idle \in Audits
  BY <1>1 DEF TypeOK, Idle, Audits
<1>5. stops' \subseteq StopIds
  BY <1>4 DEF Audit, AuditStarts, AuditLooks, AuditLists, AuditCancels,
              AuditCancelled, AuditCreates, AuditFails, exchange, Unused
<1>6. audit' \in Audits
  <2>1. CASE AuditStarts
    BY <1>4, <2>1 DEF AuditStarts, Audits
  <2>2. CASE \E found \in {stops, {}} : AuditLooks(found)
    BY <1>4, <2>2 DEF AuditLooks, Audits, Idle
  <2>3. CASE AuditLists
    <3>1. PICK found \in {stops, {}} :
            audit' = [audit EXCEPT !.at = "cancelling", !.todo = found]
      BY <2>3 DEF AuditLists
    <3>2. found \in SUBSET StopIds
      BY <1>4, <3>1
    <3> QED
      BY <1>4, <3>1, <3>2 DEF Audits
  <2>4. CASE AuditCancels
    BY <1>4, <2>4 DEF AuditCancels, Audits
  <2>5. CASE AuditCancelled
    BY <1>4, <2>5 DEF AuditCancelled, Audits
  <2>6. CASE AuditCreates \/ AuditFails
    BY <1>4, <2>6 DEF AuditCreates, AuditFails
  <2> QED
    BY <2>1, <2>2, <2>3, <2>4, <2>5, <2>6 DEF Audit
<1>7. ExchangeTyped
  BY <1>1, <1>2, <1>5 DEF ExchangeTyped, TypeOK
<1> QED
  BY <1>1, <1>2, <1>3, <1>6, <1>7, QuietStep DEF tasks, tables, TypeOK

LEMMA FillStep ==
  ASSUME IInv, NEW t \in Trades, EntryFills(t)
  PROVE  IInv'
<1>1. TypeOK /\ WithinEntries
  BY DEF IInv
<1>2. UNCHANGED <<tasks, stops, limits, tables, audit>>
  BY DEF EntryFills
<1>3. entry' \in [Trades -> {"resting", "filled", "canceled"}] /\ t \notin Filled
      /\ Filled' = Filled \cup {t}
  BY <1>1 DEF EntryFills, TypeOK, Filled
<1>4. IsFiniteSet(Filled) /\ Cardinality(Filled) \in Nat
  BY <1>1, FilledBound
<1>5. Cardinality(Filled') = Cardinality(Filled) + 1
  BY <1>3, <1>4, FS_AddElement
<1>6. pos' \in Int /\ WithinEntries'
  BY <1>1, <1>4, <1>5 DEF EntryFills, WithinEntries, Unit, TypeOK
<1>7. ExchangeTyped
  BY <1>1, <1>2, <1>3 DEF ExchangeTyped, TypeOK
<1> QED
  BY <1>1, <1>2, <1>6, <1>7, QuietStep DEF tasks, tables, TypeOK

LEMMA ReduceStep ==
  ASSUME IInv, StopTriggers \/ TakeFills
  PROVE  IInv'
<1>1. TypeOK /\ WithinEntries /\ pos \in Nat
  BY DEF IInv, TypeOK, WithinEntries
<1>2. UNCHANGED <<tasks, entry, tables, audit>>
  BY DEF StopTriggers, TakeFills
<1>3. \E amount \in 1..MaxPosition : pos' = Reduced(amount)
  BY DEF StopTriggers, TakeFills
<1>4. PICK amount \in Nat : pos' = Reduced(amount)
  BY <1>1, <1>3, PositionType
<1>5. pos' \in Int /\ WithinEntries'
  BY <1>1, <1>2, <1>4, ReducedType, ShrinksWithin DEF Shrinks, Filled
<1>6. stops' \subseteq StopIds /\ limits' \in 0..MaxTakes
  <2>1. CASE StopTriggers
    BY <1>1, <2>1 DEF StopTriggers, TypeOK
  <2>2. CASE TakeFills
    BY <1>1, <2>2, StopAssumption DEF TakeFills, TypeOK
  <2> QED
    BY <2>1, <2>2
<1>7. ExchangeTyped
  BY <1>1, <1>2, <1>6 DEF ExchangeTyped, TypeOK
<1> QED
  BY <1>1, <1>2, <1>5, <1>7, QuietStep DEF tasks, tables, TypeOK

LEMMA CloseRowStep ==
  ASSUME IInv, NEW t \in Trades, RowCloses(t)
  PROVE  IInv'
<1>1. TypeOK /\ WithinEntries
  BY DEF IInv
<1>2. UNCHANGED <<tasks, exchange, seen, stopId, unsure, audit>>
  BY DEF RowCloses
<1>3. pos' \in Int /\ WithinEntries'
  BY <1>1, <1>2, SamePosition, ShrinksWithin DEF exchange
<1>4. ExchangeTyped
  BY <1>1, <1>2 DEF ExchangeTyped, TypeOK, exchange
<1>5. closed' \subseteq Trades
  BY <1>1 DEF RowCloses, TypeOK
<1> QED
  BY <1>1, <1>2, <1>3, <1>4, <1>5, QuietStep DEF tasks, TypeOK

LEMMA RestartStep ==
  ASSUME IInv, Restart
  PROVE  IInv'
<1>1. TypeOK /\ WithinEntries /\ Hashed /\ ActsOnce
  BY DEF IInv
<1>2. UNCHANGED <<exchange, tables>>
  BY DEF Restart
<1>3. WithinEntries'
  BY <1>1, <1>2 DEF WithinEntries, Filled, exchange
<1>4. FreshTask \in Tasks /\ Idle \in Audits
  BY <1>1, FreshType DEF Idle, Audits
<1>5. TypeOK'
  BY <1>1, <1>2, <1>4 DEF Restart, TypeOK, exchange, tables, Ended
<1>6. \A d \in Deliveries :
        pc'[d] \notin {"received", "skipped"} => pc[d] \notin {"received", "skipped"}
  BY <1>1 DEF Restart, TypeOK, Waiting
<1>7. Hashed' /\ ActsOnce'
  BY <1>1, <1>2, <1>6 DEF Hashed, ActsOnce, tables
<1> QED
  BY <1>3, <1>5, <1>7 DEF IInv

LEMMA NextIInv == IInv /\ [Next]_vars => IInv'
<1> SUFFICES ASSUME IInv, [Next]_vars PROVE IInv'
  OBVIOUS
<1>1. ASSUME NEW d \in Deliveries, Step(d) PROVE IInv'
  BY <1>1, WorkStep, SkipStep, AcceptStep DEF Step, Work
<1>2. CASE Audit
  BY <1>2, AuditStep
<1>3. CASE Environment
  BY <1>3, FillStep, CloseRowStep, ReduceStep, RestartStep DEF Environment
<1>4. CASE UNCHANGED vars
  BY <1>4 DEF IInv, TypeOK, WithinEntries, Filled, Hashed, ActsOnce, vars
<1> QED
  BY <1>1, <1>2, <1>3, <1>4 DEF Next

\* The types, the bound on the position and the duplicate check: together,
\* because the sizes the tasks carry are bounded by the position.
THEOREM Invariance == Spec => []IInv
<1> QED
  BY InitIInv, NextIInv, PTL DEF Spec

\* Every variable keeps its type.
THEOREM TypesHold == Spec => []TypeOK
<1>1. IInv => TypeOK
  BY DEF IInv
<1> QED
  BY <1>1, Invariance, PTL

\* The position of a coin is never turned around by the orders follow-ups,
\* stop losses and take profits send, whatever sizes they were computed from.
THEOREM PositionHolds == Spec => []WithinEntries
<1>1. IInv => WithinEntries
  BY DEF IInv
<1> QED
  BY <1>1, Invariance, PTL

\* However often an alert is delivered, one delivery works on it.
THEOREM AlertsActOnce == Spec => []ActsOnce
<1>1. IInv => ActsOnce
  BY DEF IInv
<1> QED
  BY <1>1, Invariance, PTL

-----------------------------------------------------------------------------
(* The refinement of PositionContract *)

Promised == [Contract!Promise]_(Contract!book)

\* With the entries as they are, less of the position is a reduction.
LEMMA ShrinksPromised ==
  ASSUME pos \in Nat, pos' \in 0..pos, UNCHANGED entry
  PROVE  Promised
<1>1. Filled' = Filled /\ Withdrawn' = Withdrawn
  BY DEF Filled, Withdrawn
<1>2. CASE pos' = pos
  BY <1>1, <1>2 DEF Promised, Contract!book
<1>3. CASE pos' # pos
  <2>1. 0 <= pos' /\ pos' < pos
    BY <1>3
  <2>2. Contract!Reduce
    BY <1>1, <2>1 DEF Contract!Reduce
  <2> QED
    BY <2>2 DEF Promised, Contract!Promise
<1> QED
  BY <1>2, <1>3

LEMMA FillPromised ==
  ASSUME TypeOK, NEW t \in Trades, EntryFills(t)
  PROVE  Promised
<1>1. /\ t \notin Filled \cup Withdrawn
      /\ Filled' = Filled \cup {t} /\ Withdrawn' = Withdrawn
  BY DEF EntryFills, TypeOK, Filled, Withdrawn
<1>2. Contract!Enter(t)
  BY <1>1 DEF EntryFills, Contract!Enter
<1> QED
  BY <1>2 DEF Promised, Contract!Promise, Contract!Entries

LEMMA WithdrawPromised ==
  ASSUME TypeOK, NEW d \in Deliveries, WithdrawEntry(d)
  PROVE  Promised
<1>1. pos' = pos /\ Trade(d) \in Trades
  BY UnitFits DEF WithdrawEntry
<1>2. CASE UNCHANGED entry
  BY <1>1, <1>2 DEF Promised, Contract!book, Filled, Withdrawn
<1>3. CASE /\ entry[Trade(d)] = "resting"
           /\ entry' = [entry EXCEPT ![Trade(d)] = "canceled"]
  <2>1. /\ Trade(d) \notin Filled \cup Withdrawn
        /\ Filled' = Filled /\ Withdrawn' = Withdrawn \cup {Trade(d)}
    BY <1>1, <1>3 DEF TypeOK, Filled, Withdrawn
  <2>2. Contract!Withdraw(Trade(d))
    BY <1>1, <2>1 DEF Contract!Withdraw
  <2> QED
    BY <1>1, <2>2 DEF Promised, Contract!Promise, Contract!Entries
<1> QED
  BY <1>2, <1>3 DEF WithdrawEntry

\* The contract counts as this module does.
LEMMA SameCount == \A S : Contract!Cardinality(S) = Cardinality(S)
BY DEF Contract!Cardinality, Cardinality

LEMMA NextPromised == IInv /\ [Next]_vars => Promised
<1> SUFFICES ASSUME IInv, [Next]_vars PROVE Promised
  OBVIOUS
<1>1. TypeOK /\ WithinEntries /\ pos \in Nat
  BY DEF IInv, TypeOK, WithinEntries
<1>2. ASSUME UNCHANGED <<entry, pos>> PROVE Promised
  BY <1>1, <1>2, ShrinksPromised
<1>3. ASSUME NEW d \in Deliveries, Work(d) PROVE Promised
  <2>1. CASE WithdrawEntry(d)
    BY <1>1, <2>1, WithdrawPromised
  <2>2. CASE ~WithdrawEntry(d)
    <3>1. UNCHANGED entry
      BY <1>3, <2>2 DEF Work, Update, Refuse, ListStops, CancelStop, SellPosition,
                        ReplaceStop, CreateStop, PlaceTake, exchange
    <3>2. pos' \in 0..pos
      BY <1>1, <1>3, WorkExchange DEF Shrinks
    <3> QED
      BY <1>1, <3>1, <3>2, ShrinksPromised
  <2> QED
    BY <2>1, <2>2
<1>4. ASSUME NEW d \in Deliveries, Skip(d) \/ Accept(d) PROVE Promised
  BY <1>2, <1>4 DEF Skip, Accept, exchange
<1>5. CASE Audit
  BY <1>2, <1>5 DEF Audit, AuditStarts, AuditLooks, AuditLists, AuditCancels,
                    AuditCancelled, AuditCreates, AuditFails, exchange
<1>6. CASE StopTriggers \/ TakeFills
  <2>1. UNCHANGED entry /\ \E amount \in 1..MaxPosition : pos' = Reduced(amount)
    BY <1>6 DEF StopTriggers, TakeFills
  <2>2. PICK amount \in Nat : pos' = Reduced(amount)
    BY <1>1, <2>1, PositionType
  <2> QED
    BY <1>1, <2>1, <2>2, ReducedType, ShrinksPromised
<1>7. CASE Environment /\ ~(StopTriggers \/ TakeFills)
  BY <1>1, <1>2, <1>7, FillPromised DEF Environment, RowCloses, Restart, exchange
<1>8. CASE UNCHANGED vars
  BY <1>2, <1>8 DEF vars
<1> QED
  BY <1>3, <1>4, <1>5, <1>6, <1>7, <1>8 DEF Next, Step, Work

\* process_update_signal, the audit of stop losses and the exchange implement
\* the promise about a coin's position: each entry counts once, a withdrawn one
\* never, and no close, stop loss or take profit crosses zero.
THEOREM ImplementsPosition == Spec => PositionHeld
<1>1. Init => Contract!Begin
  <2> SUFFICES ASSUME Init PROVE Contract!Begin
    OBVIOUS
  <2>1. Filled \subseteq Trades /\ Withdrawn \subseteq Trades \ Filled
    BY DEF Init, Filled, Withdrawn
  <2>2. Filled \cap Trades = Filled /\ Filled \cap {} = {}
    BY <2>1
  <2>3. Cardinality(Filled) \in Nat /\ Cardinality({}) = 0
    BY <2>1, FiniteAssumption, FS_Subset, FS_CardinalityType, FS_EmptySet
  <2>4. Contract!Net(Filled) = Unit * (Cardinality(Filled) - Cardinality({}))
    <3>1. Contract!Net(Filled) =
            Unit * (Contract!Cardinality(Filled \cap Trades)
                    - Contract!Cardinality(Filled \cap {}))
      BY DEF Contract!Net
    <3> QED
      BY <2>2, <3>1, SameCount
  <2>5. pos = Unit * Cardinality(Filled)
    BY DEF Init, Filled
  <2>6. pos = Contract!Net(Filled)
    BY <2>3, <2>4, <2>5 DEF Unit
  <2> QED
    BY <2>1, <2>6 DEF Contract!Begin, Contract!Entries
<1>2. IInv /\ [Next]_vars => [Contract!Promise]_(Contract!book)
  BY NextPromised DEF Promised
<1> QED
  BY <1>1, <1>2, Invariance, PTL DEF Spec, PositionHeld, Contract!Spec
=============================================================================
