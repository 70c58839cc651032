--------------------------- MODULE RowSync_proofs ---------------------------
(***************************************************************************)
(* What holds of the jobs for any rows, coins and numbers of faults.       *)
(***************************************************************************)
EXTENDS RowSync, TLAPS

Rows == [order : OrderStatuses, status : PositionStatuses]
Jobs == [venue : Kinds, open : SUBSET Trades, closing : SUBSET Trades,
         activating : SUBSET Trades, history : SUBSET Trades,
         found : SUBSET Trades, partly : SUBSET Trades, kept : [Trades -> OrderStatuses],
         trade : Trades \cup {None}, answer : Answers, held : BOOLEAN]

\* The part of TypeOK that a step can change in one variable, without the
\* counter of faults.
RowType == row \in [Trades -> Rows]
SetType == recent \subseteq Trades /\ closedAt \subseteq Trades /\ linked \subseteq Trades
WorldType ==
  /\ order \in [Trades -> EntryStatuses]
  /\ live \subseteq Venues \X Coins
  /\ report \in [Trades -> {"none", "FILLED", "PARTIALLY_FILLED", "CANCELED", "EXIT"}]
JobType ==
  /\ at \in Labels /\ job \in Jobs
  /\ at \in {"asked", "checking", "storing"} => job.trade \in Trades
FaultType == faults \in 0..MaxFaults /\ steady \in BOOLEAN

LEMMA Types == TypeOK <=> RowType /\ SetType /\ WorldType /\ JobType /\ FaultType
BY DEF TypeOK, RowType, SetType, WorldType, JobType, FaultType, Rows, Jobs

LEMMA TypesAfter == RowType' /\ SetType' /\ WorldType' /\ JobType' /\ FaultType' => TypeOK'
BY DEF TypeOK, RowType, SetType, WorldType, JobType, FaultType, Rows, Jobs

\* A row that is in line with its order and the position of its coin.
Corrected(t) ==
  /\ order[t] = "NEW" => row[t].status = "PENDING"
  /\ order[t] = "FILLED" => row[t].status = IF Held(t) THEN "ACTIVE" ELSE "CLOSED"

Undisturbed == job.venue = "binance" /\ steady

\* The rows that the history showed, all but the one in hand put right.
Pending ==
  /\ at \in {"fetching", "closing", "asked"} => job.found = {}
  /\ Undisturbed /\ at \in {"looking", "done"} => \A t \in job.found : Corrected(t)
  /\ Undisturbed /\ at \in {"checking", "storing"} =>
       \A t \in job.found : t = job.trade \/ Corrected(t)

\* What the job remembers of the exchange still holds.
Remembered ==
  /\ steady /\ at = "checking" => job.answer = "FILLED" /\ order[job.trade] = "FILLED"
  /\ steady /\ at = "storing" =>
       /\ job.answer \in {"NEW", "FILLED"} /\ order[job.trade] = job.answer
       /\ job.answer = "FILLED" => job.held = Held(job.trade)

\* What the KuCoin job is about to close has no position.
KeptOut ==
  job.venue = "kucoin" /\ steady =>
    /\ at \in {"closing", "asked"} => \A t \in job.closing : ~Held(t)
    /\ at = "asked" => ~Held(job.trade)

SyncInv == TypeOK /\ Pending /\ Remembered /\ KeptOut

-----------------------------------------------------------------------------
LEMMA TradesFacts ==
  /\ None \notin Trades
  /\ BinanceTrades \subseteq Trades /\ KucoinTrades \subseteq Trades
  /\ \A t \in Trades : CoinOf[t] \in Coins /\ VenueOf(t) \in Venues
BY TradesAssumption DEF Trades, VenueOf, Venues

LEMMA NoJobType == NoJob \in Jobs /\ NoJob.venue = "binance" /\ NoJob.found = {}
BY DEF NoJob, Jobs, Kinds, Venues, Answers, OrderStatuses

LEMMA AttemptType ==
  ASSUME FaultType, NEW ok \in BOOLEAN, Attempt(ok)
  PROVE  FaultType' /\ (steady' => steady /\ ok)
<1>1. CASE ok
  BY <1>1 DEF Attempt, FaultType
<1>2. CASE ~ok
  <2>1. faults' = faults + 1 /\ faults < MaxFaults /\ steady' = FALSE
    BY <1>2 DEF Attempt, FaultType
  <2>2. faults' \in 0..MaxFaults
    BY <2>1, BoundAssumption DEF FaultType
  <2>3. steady' \in BOOLEAN
    BY <2>1
  <2>. QED
    BY <2>1, <2>2, <2>3 DEF FaultType
<1>. QED
  BY <1>1, <1>2

\* Writing one row keeps the types of all of them.
LEMMA WriteType ==
  ASSUME RowType, NEW t \in Trades, NEW r \in Rows
  PROVE  [row EXCEPT ![t] = r] \in [Trades -> Rows]
BY DEF RowType

LEMMA FixedType == ASSUME NEW o \in OrderStatuses, NEW p \in PositionStatuses
                   PROVE  FixPosition(o, p) \in PositionStatuses
BY DEF FixPosition, PositionStatuses

LEMMA StatusNames ==
  /\ "ACTIVE" \in PositionStatuses /\ "CLOSED" \in PositionStatuses
  /\ "FAILED" \in PositionStatuses /\ "PENDING" \in PositionStatuses
  /\ "CANCELLED" \in PositionStatuses
  /\ "FILLED" \in OrderStatuses /\ "FAILED" \in OrderStatuses
  /\ "NEW" \in OrderStatuses /\ "CANCELED" \in OrderStatuses
  /\ EntryStatuses \subseteq OrderStatuses
BY DEF PositionStatuses, OrderStatuses, EntryStatuses

LEMMA MappedType ==
  ASSUME NEW s, NEW sized \in BOOLEAN PROVE MapExchangeToInternal(s, sized) \in Rows
<1>1. ToOrderStatus(s) \in OrderStatuses
  BY DEF ToOrderStatus, OrderStatuses
<1>2. \A o \in OrderStatuses : ToPositionStatus(o, sized) \in PositionStatuses
  BY DEF ToPositionStatus, PositionStatuses
<1>. QED
  BY <1>1, <1>2 DEF MapExchangeToInternal, Rows

LEMMA ForcedType == ForcedPair \in Rows
<1> DEFINE o == ToOrderStatus(IF job.answer # "none" THEN job.answer
                              ELSE IF job.trade \in job.partly THEN "PARTIALLY_FILLED"
                              ELSE "FILLED")
<1>1. o \in OrderStatuses
  BY DEF ToOrderStatus, OrderStatuses
<1>2. FixPosition(o, "CLOSED") \in PositionStatuses
  BY <1>1, FixedType, StatusNames
<1>. QED
  BY <1>1, <1>2, StatusNames DEF ForcedPair, Rows

-----------------------------------------------------------------------------
LEMMA InitSync == Init => SyncInv
<1> SUFFICES ASSUME Init PROVE SyncInv
  OBVIOUS
<1>1. PICK open \in SUBSET Trades :
        /\ row = [t \in Trades |->
                   IF t \notin linked THEN [order |-> "FAILED", status |-> "FAILED"]
                   ELSE IF t \in open THEN [order |-> "NEW", status |-> "PENDING"]
                   ELSE [order |-> "CANCELED", status |-> "CANCELLED"]]
        /\ order = [t \in Trades |-> IF t \in open THEN "NEW" ELSE "CANCELED"]
  BY DEF Init
<1>2. RowType
  BY <1>1, StatusNames DEF RowType, Rows
<1>3. SetType /\ WorldType
  BY <1>1 DEF Init, SetType, WorldType, EntryStatuses
<1>4. JobType /\ FaultType
  BY NoJobType, BoundAssumption DEF Init, JobType, FaultType, Labels
<1>5. at = "idle"
  BY DEF Init
<1>. QED
  BY <1>2, <1>3, <1>4, <1>5, Types DEF SyncInv, Pending, Remembered, KeptOut

-----------------------------------------------------------------------------
\* The exchanges and the other writers only touch what is theirs.
LEMMA WorldTypes == ASSUME TypeOK, World PROVE TypeOK'
<1>1. PICK t \in Trades :
        \/ \E kind \in {"PARTIALLY_FILLED", "FILLED"} : Fills(t, kind)
        \/ EntryEnds(t) \/ PositionCloses(t) \/ Reports(t) \/ Ages(t)
  BY DEF World
<1>2. RowType /\ SetType /\ WorldType /\ JobType /\ FaultType
  BY Types
<1>3. Position(t) \in Venues \X Coins
  BY TradesFacts DEF Position
<1>4. ASSUME NEW kind \in {"PARTIALLY_FILLED", "FILLED"}, Fills(t, kind) PROVE TypeOK'
  <2>1. WorldType'
    BY <1>2, <1>3, <1>4 DEF Fills, WorldType, EntryStatuses
  <2>2. FaultType'
    BY <1>2, <1>4 DEF Fills, Quiet, FaultType
  <2>3. RowType' /\ SetType' /\ JobType'
    BY <1>2, <1>4 DEF Fills, Quiet, RowType, SetType, JobType
  <2>. QED
    BY <2>1, <2>2, <2>3, TypesAfter
<1>5. CASE EntryEnds(t)
  <2>1. WorldType'
    BY <1>2, <1>5 DEF EntryEnds, WorldType, EntryStatuses
  <2>2. FaultType'
    BY <1>2, <1>5 DEF EntryEnds, Quiet, FaultType
  <2>3. RowType' /\ SetType' /\ JobType'
    BY <1>2, <1>5 DEF EntryEnds, Quiet, RowType, SetType, JobType
  <2>. QED
    BY <2>1, <2>2, <2>3, TypesAfter
<1>6. CASE PositionCloses(t)
  <2>1. WorldType'
    BY <1>2, <1>6 DEF PositionCloses, WorldType, EntryStatuses
  <2>2. FaultType'
    BY <1>2, <1>6 DEF PositionCloses, Quiet, FaultType
  <2>3. RowType' /\ SetType' /\ JobType'
    BY <1>2, <1>6 DEF PositionCloses, Quiet, RowType, SetType, JobType
  <2>. QED
    BY <2>1, <2>2, <2>3, TypesAfter
<1>7. CASE Reports(t)
  <2>1. WorldType'
    BY <1>2, <1>7 DEF Reports, WorldType
  <2>2. FaultType'
    BY <1>2, <1>7 DEF Reports, FaultType
  <2>3. JobType' /\ linked' = linked
    BY <1>2, <1>7 DEF Reports, JobType
  <2>4. PICK r \in Rows : row' = [row EXCEPT ![t] = r] \/ row' = row
    <3> DEFINE r == IF report[t] = "EXIT" THEN [order |-> "FILLED", status |-> "CLOSED"]
                    ELSE MapExchangeToInternal(report[t], TRUE)
    <3>1. r \in Rows
      BY MappedType, StatusNames DEF Rows
    <3>2. row' = [row EXCEPT ![t] = r] \/ row' = row
      BY <1>7 DEF Reports
    <3>. QED
      BY <3>1, <3>2
  <2>5. RowType'
    BY <1>2, <2>4, WriteType DEF RowType
  <2>6. closedAt' \subseteq Trades
    BY <1>2, <1>7 DEF Reports, SetType
  <2>. QED
    BY <1>2, <1>7, <2>1, <2>2, <2>3, <2>5, <2>6, TypesAfter DEF Reports, SetType
<1>8. CASE Ages(t)
  <2>1. RowType' /\ SetType' /\ WorldType'
    BY <1>2, <1>8 DEF Ages, RowType, SetType, WorldType
  <2>2. JobType' /\ FaultType'
    BY <1>2, <1>8 DEF Ages, JobType, FaultType
  <2>. QED
    BY <2>1, <2>2, TypesAfter
<1>. QED
  BY <1>1, <1>4, <1>5, <1>6, <1>7, <1>8

LEMMA ReadTypes ==
  ASSUME TypeOK, (\E v \in Venues : Starts(v)) \/ Reconciles \/ Fetches PROVE TypeOK'
<1>1. RowType /\ SetType /\ WorldType /\ JobType /\ FaultType
  BY Types
<1>2. ASSUME NEW v \in Venues, Starts(v) PROVE TypeOK'
  <2>1. PICK answered \in BOOLEAN :
          /\ answered \/ faults < MaxFaults
          /\ faults' = IF answered THEN faults ELSE faults + 1
          /\ job' = [NoJob EXCEPT !.venue = v,
                       !.open = {t \in Trades : answered /\ VenueOf(t) = v /\ Resting(t)}]
          /\ steady' = answered
    BY <1>2 DEF Starts
  <2>2. faults' \in 0..MaxFaults
    BY <1>1, <2>1, BoundAssumption DEF FaultType
  <2>3. FaultType'
    BY <2>1, <2>2 DEF FaultType
  <2>4. job' \in Jobs
    BY <2>1, NoJobType DEF Jobs, Kinds
  <2>5. JobType'
    BY <1>2, <2>4 DEF Starts, JobType, Labels
  <2>6. RowType' /\ SetType' /\ WorldType'
    BY <1>1, <1>2 DEF Starts, RowType, SetType, WorldType
  <2>. QED
    BY <2>3, <2>5, <2>6, TypesAfter
<1>3. CASE Fetches
  <2>1. PICK answered \in BOOLEAN, matched \in SUBSET (job.open \cap recent) :
          /\ StoreOpenOrders(matched) /\ Attempt(answered)
          /\ \E shown \in SUBSET Coins :
               job' = [job EXCEPT
                 !.open = {},
                 !.closing = {t \in recent : MustClose(t, shown)},
                 !.activating = {t \in recent : MustActivate(t, shown)},
                 !.history = IF job.venue = "binance"
                             THEN BinanceTrades \cap linked \cap recent ELSE {},
                 !.partly = {t \in recent : row[t].order = "PARTIALLY_FILLED"}]
    BY <1>3 DEF Fetches
  <2>2. FaultType'
    BY <1>1, <2>1, AttemptType
  <2>3. matched \subseteq Trades
    BY <1>1 DEF JobType, Jobs
  <2>4. job' \in Jobs
    <3>1. PICK a, b, h, p \in SUBSET Trades :
            job' = [job EXCEPT !.open = {}, !.closing = a, !.activating = b,
                      !.history = h, !.partly = p]
      <4>1. (IF job.venue = "binance" THEN BinanceTrades \cap linked \cap recent ELSE {})
              \in SUBSET Trades
        BY TradesFacts
      <4>2. \A shown \in SUBSET Coins :
              /\ {t \in recent : MustClose(t, shown)} \in SUBSET Trades
              /\ {t \in recent : MustActivate(t, shown)} \in SUBSET Trades
        BY <1>1 DEF SetType
      <4>3. {t \in recent : row[t].order = "PARTIALLY_FILLED"} \in SUBSET Trades
        BY <1>1 DEF SetType
      <4>. QED
        BY <2>1, <4>1, <4>2, <4>3
    <3>. QED
      BY <1>1, <3>1 DEF JobType, Jobs
  <2>5. JobType'
    BY <1>3, <2>4 DEF Fetches, JobType, Labels
  <2>6. linked' \subseteq Trades
    BY <1>1, <2>1, <2>3 DEF StoreOpenOrders, SetType
  <2>7. RowType'
    <3>1. CASE job.venue = "binance"
      <4>1. row' = [t \in Trades |-> IF t \in matched \cap linked
                                     THEN [row[t] EXCEPT !.order = order[t]] ELSE row[t]]
        BY <2>1, <3>1 DEF StoreOpenOrders
      <4>2. \A t \in Trades : row[t] \in Rows /\ [row[t] EXCEPT !.order = order[t]] \in Rows
        BY <1>1, StatusNames DEF RowType, WorldType, Rows
      <4>. QED
        BY <4>1, <4>2 DEF RowType
    <3>2. CASE job.venue # "binance"
      <4>1. row' = [t \in Trades |-> IF t \in matched
                                     THEN MapExchangeToInternal("OPEN", FALSE) ELSE row[t]]
        BY <2>1, <3>2 DEF StoreOpenOrders
      <4>. QED
        BY <1>1, <4>1, MappedType DEF RowType
    <3>. QED
      BY <3>1, <3>2
  <2>8. closedAt' \subseteq Trades /\ recent' \subseteq Trades /\ WorldType'
    BY <1>1, <1>3 DEF Fetches, SetType, WorldType
  <2>. QED
    BY <2>2, <2>5, <2>6, <2>7, <2>8, TypesAfter DEF SetType
<1>4. CASE Reconciles
  <2>1. PICK wrong \in SUBSET Trades :
          job' = [NoJob EXCEPT !.venue = "closed", !.closing = wrong,
                    !.kept = [t \in Trades |-> IF t \in wrong THEN row[t].order
                                               ELSE "FILLED"]]
    BY <1>1, <1>4 DEF Reconciles, SetType
  <2>2. [t \in Trades |-> IF t \in wrong THEN row[t].order ELSE "FILLED"]
          \in [Trades -> OrderStatuses]
    BY <1>1, StatusNames DEF RowType, Rows
  <2>3. job' \in Jobs
    BY <2>1, <2>2, NoJobType DEF Jobs, Kinds
  <2>4. JobType'
    BY <1>4, <2>3 DEF Reconciles, JobType, Labels
  <2>5. FaultType'
    BY <1>1, <1>4 DEF Reconciles, FaultType
  <2>6. RowType' /\ SetType' /\ WorldType'
    BY <1>1, <1>4 DEF Reconciles, RowType, SetType, WorldType
  <2>. QED
    BY <2>4, <2>5, <2>6, TypesAfter
<1>. QED
  BY <1>2, <1>3, <1>4

\* A step of the job that writes at most one row, in any pair of statuses.
LEMMA WriteStep ==
  ASSUME TypeOK, NEW t \in Trades, NEW r \in Rows,
         row' = [row EXCEPT ![t] = r] \/ row' = row,
         closedAt' \subseteq Trades, linked' = linked, recent' = recent,
         UNCHANGED <<order, live, report>>,
         JobType', FaultType'
  PROVE  TypeOK'
<1>1. RowType /\ SetType /\ WorldType
  BY Types
<1>2. RowType'
  BY <1>1, WriteType DEF RowType
<1>3. SetType' /\ WorldType'
  BY <1>1 DEF SetType, WorldType
<1>. QED
  BY <1>2, <1>3, TypesAfter

LEMMA RowStepTypes == ASSUME TypeOK, NEW t \in Trades, OnRow(t) PROVE TypeOK'
<1>1. RowType /\ SetType /\ WorldType /\ JobType /\ FaultType
  BY Types
<1>2. row[t] \in Rows
  BY <1>1 DEF RowType
<1>3. CASE Activates(t)
  <2>1. JobType'
    BY <1>1, <1>3 DEF Activates, JobType, Jobs
  <2>2. FaultType'
    BY <1>1, <1>3, AttemptType DEF Activates
  <2>3. [row[t] EXCEPT !.status = "ACTIVE"] \in Rows
    BY <1>2, StatusNames DEF Rows
  <2>4. row' = [row EXCEPT ![t] = [row[t] EXCEPT !.status = "ACTIVE"]] \/ row' = row
    BY <1>1, <1>3 DEF Activates, RowType
  <2>. QED
    BY <1>1, <1>3, <2>1, <2>2, <2>3, <2>4, WriteStep DEF Activates, SetType
<1>4. CASE MarksFailed(t)
  <2>1. JobType'
    BY <1>1, <1>4 DEF MarksFailed, Closing, JobType, Jobs
  <2>2. FaultType'
    BY <1>1, <1>4, AttemptType DEF MarksFailed
  <2>3. [order |-> "FAILED", status |-> "FAILED"] \in Rows
    BY StatusNames DEF Rows
  <2>. QED
    BY <1>1, <1>4, <2>1, <2>2, <2>3, WriteStep DEF MarksFailed, SetType
<1>5. CASE Asks(t)
  <2>1. PICK answer \in {"none"} \cup (IF t \in linked THEN {Worded(t)} ELSE {}) :
          /\ job' = [job EXCEPT !.closing = @ \ {t}, !.trade = t, !.answer = answer]
          /\ Attempt(t \in linked => answer # "none")
    BY <1>5 DEF Asks
  <2>2. answer \in Answers
    BY <1>1, <2>1 DEF Worded, WorldType, Answers
  <2>3. JobType'
    BY <1>1, <1>5, <2>1, <2>2 DEF Asks, JobType, Jobs, Labels
  <2>4. FaultType'
    BY <1>1, <2>1, AttemptType
  <2>. QED
    BY <1>1, <1>2, <1>5, <2>3, <2>4, WriteStep DEF Asks, SetType
<1>6. CASE LooksUp(t)
  <2>1. PICK answer \in {order[t], "none"}, read \in Jobs :
          /\ read = [job EXCEPT !.history = @ \ {t},
                       !.found = IF answer = "none" THEN @ ELSE @ \cup {t}]
          /\ IF answer \in {"NEW", "FILLED"}
             THEN /\ job' = [read EXCEPT !.trade = t, !.answer = answer]
                  /\ at' = IF answer = "FILLED" THEN "checking" ELSE "storing"
             ELSE job' = read /\ UNCHANGED at
    <3>1. \A answer \in {order[t], "none"} :
            [job EXCEPT !.history = @ \ {t},
               !.found = IF answer = "none" THEN @ ELSE @ \cup {t}] \in Jobs
      BY <1>1 DEF JobType, Jobs
    <3>. QED
      BY <1>6, <3>1 DEF LooksUp
  <2>2. answer \in Answers
    BY <1>1 DEF WorldType, Answers
  <2>3. JobType'
    <3>1. CASE answer \in {"NEW", "FILLED"}
      <4>1. job' = [read EXCEPT !.trade = t, !.answer = answer]
        BY <2>1, <3>1
      <4>2. job' \in Jobs /\ job'.trade = t
        BY <2>2, <4>1 DEF Jobs
      <4>3. at' \in Labels
        BY <2>1, <3>1 DEF Labels
      <4>. QED
        BY <4>2, <4>3 DEF JobType
    <3>2. CASE answer \notin {"NEW", "FILLED"}
      BY <1>1, <1>6, <2>1, <3>2 DEF LooksUp, JobType, Jobs
    <3>. QED
      BY <3>1, <3>2
  <2>4. FaultType'
    BY <1>1, <1>6 DEF LooksUp, FaultType
  <2>. QED
    BY <1>1, <1>2, <1>6, <2>3, <2>4, WriteStep DEF LooksUp, SetType
<1>7. CASE Rewrites(t)
  <2>1. JobType'
    BY <1>1, <1>7 DEF Rewrites, Closing, JobType, Jobs
  <2>2. FaultType'
    BY <1>1, <1>7, AttemptType DEF Rewrites
  <2>3. job.kept[t] \in OrderStatuses
    BY <1>1 DEF JobType, Jobs
  <2>4. [order |-> job.kept[t], status |-> FixPosition(job.kept[t], "CLOSED")] \in Rows
    BY <2>3, FixedType, StatusNames DEF Rows
  <2>. QED
    BY <1>1, <1>7, <2>1, <2>2, <2>4, WriteStep DEF Rewrites, SetType
<1>. QED
  BY <1>3, <1>4, <1>5, <1>6, <1>7 DEF OnRow

LEMMA HistoryPairType ==
  ASSUME RowType, job.trade \in Trades PROVE HistoryPair \in Rows
<1>1. row[job.trade].order \in OrderStatuses
  BY DEF RowType, Rows
<1>. QED
  BY <1>1, StatusNames DEF HistoryPair, Rows

LEMMA StepTypes ==
  ASSUME TypeOK, JobStep \/ BreaksOff PROVE TypeOK'
<1>1. RowType /\ SetType /\ WorldType /\ JobType /\ FaultType
  BY Types
<1>2. CASE Closes
  <2>1. PICK stamped \in BOOLEAN, stored \in BOOLEAN :
          /\ closedAt' = IF stamped THEN closedAt \cup {job.trade} ELSE closedAt
          /\ row' = IF stored THEN [row EXCEPT ![job.trade] = ForcedPair]
                    ELSE IF stamped THEN [row EXCEPT ![job.trade].status = "CLOSED"]
                    ELSE row
          /\ Attempt(stamped /\ stored)
    BY <1>2 DEF Closes
  <2>2. job.trade \in Trades
    BY <1>1, <1>2 DEF Closes, JobType
  <2>3. JobType'
    BY <1>1, <1>2 DEF Closes, JobType, Jobs, Labels, Answers
  <2>4. FaultType'
    BY <1>1, <2>1, AttemptType
  <2>5. row[job.trade] \in Rows /\ [row[job.trade] EXCEPT !.status = "CLOSED"] \in Rows
    BY <1>1, <2>2, StatusNames DEF RowType, Rows
  <2>6. closedAt' \subseteq Trades
    BY <1>1, <2>1, <2>2 DEF SetType
  <2>7. CASE stored
    BY <1>2, <2>1, <2>2, <2>3, <2>4, <2>6, <2>7, ForcedType, WriteStep DEF Closes
  <2>8. CASE ~stored
    <3>1. \/ row' = [row EXCEPT ![job.trade] = [row[job.trade] EXCEPT !.status = "CLOSED"]]
          \/ row' = row
      BY <1>1, <2>1, <2>2, <2>8 DEF RowType
    <3>. QED
      BY <1>2, <2>2, <2>3, <2>4, <2>5, <2>6, <3>1, WriteStep DEF Closes
  <2>. QED
    BY <2>7, <2>8
<1>3. CASE StoresHistory
  <2>1. job.trade \in Trades
    BY <1>1, <1>3 DEF StoresHistory, JobType
  <2>2. JobType'
    BY <1>1, <1>3 DEF StoresHistory, JobType, Jobs, Labels, Answers
  <2>3. FaultType'
    BY <1>1, <1>3, AttemptType DEF StoresHistory
  <2>. QED
    BY <1>1, <1>3, <2>1, <2>2, <2>3, HistoryPairType, WriteStep DEF StoresHistory, SetType
<1>4. CASE ChecksPosition
  <2>1. PICK answered \in BOOLEAN :
          /\ job' = [job EXCEPT !.held = answered /\ Held(job.trade)]
          /\ Attempt(answered)
    BY <1>4 DEF ChecksPosition
  <2>2. (answered /\ Held(job.trade)) \in BOOLEAN
    BY DEF Held
  <2>3. JobType'
    BY <1>1, <1>4, <2>1, <2>2 DEF ChecksPosition, JobType, Jobs, Labels
  <2>4. FaultType'
    BY <1>1, <2>1, AttemptType
  <2>5. RowType' /\ SetType' /\ WorldType'
    BY <1>1, <1>4 DEF ChecksPosition, RowType, SetType, WorldType
  <2>. QED
    BY <2>3, <2>4, <2>5, TypesAfter
<1>5. CASE EndsClosing \/ EndsHistory
  <2>1. RowType' /\ SetType' /\ WorldType' /\ FaultType'
    BY <1>1, <1>5 DEF EndsClosing, EndsHistory, RowType, SetType, WorldType, FaultType
  <2>2. JobType'
    BY <1>1, <1>5 DEF EndsClosing, EndsHistory, JobType, Labels
  <2>. QED
    BY <2>1, <2>2, TypesAfter
<1>6. CASE Finishes \/ BreaksOff
  <2>1. RowType' /\ SetType' /\ WorldType'
    BY <1>1, <1>6 DEF Finishes, BreaksOff, RowType, SetType, WorldType
  <2>2. FaultType'
    BY <1>1, <1>6, AttemptType DEF Finishes, BreaksOff, FaultType
  <2>3. JobType'
    BY <1>6, NoJobType DEF Finishes, BreaksOff, JobType, Labels
  <2>. QED
    BY <2>1, <2>2, <2>3, TypesAfter
<1>7. CASE Mends
  <2>1. job.trade \in Trades
    BY <1>1, <1>7 DEF Mends, JobType
  <2>2. JobType'
    BY <1>1, <1>7 DEF Mends, JobType, Jobs, Labels, Answers
  <2>3. FaultType'
    BY <1>1, <1>7, AttemptType DEF Mends
  <2>. QED
    BY <1>1, <1>7, <2>1, <2>2, <2>3, ForcedType, WriteStep DEF Mends, SetType
<1>. QED
  BY <1>2, <1>3, <1>4, <1>5, <1>6, <1>7, ReadTypes, RowStepTypes DEF JobStep

THEOREM TypeCorrect == Spec => []TypeOK
<1>1. Init => TypeOK
  BY InitSync DEF SyncInv
<1>2. TypeOK /\ [Next]_vars => TypeOK'
  <2>1. ASSUME TypeOK, UNCHANGED vars PROVE TypeOK'
    BY <2>1 DEF vars, TypeOK
  <2>. QED
    BY <2>1, WorldTypes, ReadTypes, StepTypes DEF Next
<1>. QED
  BY <1>1, <1>2, PTL DEF Spec

-----------------------------------------------------------------------------
(* The history *)

\* All that the other conjuncts of the invariant say is about a job that goes
\* on undisturbed; the others end it, or only begin it.
Memory == Pending /\ Remembered /\ KeptOut

LEMMA WorldMemory == ASSUME SyncInv, World PROVE Memory'
<1>1. CASE \E t \in Trades : Ages(t)
  <2>1. UNCHANGED <<row, order, live, at, job, steady>>
    BY <1>1 DEF Ages
  <2>2. \A t : (Corrected(t)' <=> Corrected(t)) /\ (Held(t)' <=> Held(t))
    BY <2>1 DEF Corrected, Held, Position
  <2>3. Pending'
    BY <2>1, <2>2 DEF SyncInv, Pending, Undisturbed
  <2>4. Remembered'
    BY <2>1 DEF SyncInv, Remembered, Held, Position
  <2>5. KeptOut'
    BY <2>1 DEF SyncInv, KeptOut, Held, Position
  <2>. QED
    BY <2>3, <2>4, <2>5 DEF Memory
<1>2. CASE ~ \E t \in Trades : Ages(t)
  <2>1. ~steady'
    BY <1>2 DEF World, Fills, EntryEnds, PositionCloses, Reports
  <2>2. job' = job /\ at' = at
    BY <1>2 DEF World, Fills, EntryEnds, PositionCloses, Reports, Quiet
  <2>3. Pending'
    BY <2>1, <2>2 DEF SyncInv, Pending, Undisturbed
  <2>. QED
    BY <2>1, <2>3 DEF Memory, Remembered, KeptOut
<1>. QED
  BY <1>1, <1>2

LEMMA EdgeMemory ==
  ASSUME SyncInv, (\E v \in Venues : Starts(v)) \/ Reconciles \/ Finishes \/ BreaksOff
  PROVE  Memory'
<1>1. CASE (\E v \in Venues : Starts(v)) \/ Finishes \/ BreaksOff
  <2>1. at' \in {"idle", "fetching"} /\ job'.found = {}
    <3>1. PICK open, v : job' = [NoJob EXCEPT !.venue = v, !.open = open] \/ job' = NoJob
      BY <1>1 DEF Starts, Finishes, BreaksOff
    <3>2. job'.found = {}
      BY <3>1, NoJobType DEF Jobs
    <3>. QED
      BY <1>1, <3>2 DEF Starts, Finishes, BreaksOff
  <2>. QED
    BY <2>1 DEF Memory, Pending, Remembered, KeptOut
<1>2. CASE Reconciles
  <2>1. at' = "closing"
    BY <1>2 DEF Reconciles
  <2>2. job'.venue = "closed" /\ job'.found = {}
    <3>1. PICK wrong, kept :
            job' = [NoJob EXCEPT !.venue = "closed", !.closing = wrong, !.kept = kept]
      BY <1>2 DEF Reconciles
    <3>. QED
      BY <3>1 DEF NoJob
  <2>. QED
    BY <2>1, <2>2 DEF Memory, Pending, Remembered, KeptOut
<1>. QED
  BY <1>1, <1>2

LEMMA FetchMemory == ASSUME SyncInv, Fetches PROVE Memory'
<1>1. PICK answered \in BOOLEAN, matched \in SUBSET (job.open \cap recent) :
        LET shown == {c \in Coins : answered /\ <<job.venue, c>> \in live}
        IN /\ StoreOpenOrders(matched)
           /\ job' = [job EXCEPT
                !.open = {},
                !.closing = {t \in recent : MustClose(t, shown)},
                !.activating = {t \in recent : MustActivate(t, shown)},
                !.history = IF job.venue = "binance"
                            THEN BinanceTrades \cap linked \cap recent ELSE {},
                !.partly = {t \in recent : row[t].order = "PARTIALLY_FILLED"}]
           /\ Attempt(answered)
  BY DEF Fetches
<1> DEFINE shown == {c \in Coins : answered /\ <<job.venue, c>> \in live}
<1>2. job \in Jobs /\ FaultType /\ SetType
  BY Types DEF SyncInv, JobType
<1>3. at = "fetching" /\ at' = "closing" /\ live' = live
  BY DEF Fetches
<1>4. /\ job'.venue = job.venue /\ job'.found = job.found
      /\ job'.closing = {t \in recent : MustClose(t, shown)}
  BY <1>1, <1>2 DEF Jobs
<1>5. job'.found = {}
  BY <1>3, <1>4 DEF SyncInv, Pending
<1>6. ASSUME job'.venue = "kucoin", steady', NEW t \in job'.closing PROVE ~Held(t)'
  <2>1. answered
    BY <1>1, <1>2, <1>6, AttemptType
  <2>2. t \in Trades /\ MustClose(t, shown)
    BY <1>2, <1>4, <1>6 DEF SetType
  <2>3. t \in KucoinTrades /\ CoinOf[t] \notin shown
    BY <1>4, <1>6, <2>2 DEF MustClose, Gone
  <2>4. VenueOf(t) = "kucoin" /\ CoinOf[t] \in Coins
    BY <2>2, <2>3, TradesAssumption, TradesFacts DEF VenueOf
  <2>5. <<"kucoin", CoinOf[t]>> \notin live
    BY <1>4, <1>6, <2>1, <2>3, <2>4
  <2>. QED
    BY <1>3, <2>4, <2>5 DEF Held, Position
<1>. QED
  BY <1>3, <1>5, <1>6 DEF Memory, Pending, Remembered, KeptOut

\* Steps of the closing part find nothing in the history, and take rows from
\* those to be closed.
LEMMA ClosingMemory ==
  ASSUME SyncInv, at \in {"closing", "asked"}, at' \in {"closing", "asked"},
         job'.venue = job.venue, job'.found = job.found,
         job'.closing \subseteq job.closing, live' = live,
         steady' => steady,
         at' = "asked" => job'.trade \in job.closing
  PROVE  Memory'
<1>1. Pending'
  BY DEF SyncInv, Pending
<1>2. \A t : Held(t)' <=> Held(t)
  BY DEF Held, Position
<1>3. ASSUME job'.venue = "kucoin", steady'
      PROVE  /\ \A t \in job'.closing : ~Held(t)'
             /\ at' = "asked" => ~Held(job'.trade)
  <2>1. \A t \in job.closing : ~Held(t)
    BY <1>3 DEF SyncInv, KeptOut
  <2>. QED
    BY <1>2, <2>1
<1>4. KeptOut'
  BY <1>2, <1>3 DEF KeptOut, Held, Position
<1>. QED
  BY <1>1, <1>4 DEF Memory, Remembered

LEMMA OnRowClosingMemory ==
  ASSUME SyncInv, NEW t \in Trades,
         Activates(t) \/ MarksFailed(t) \/ Asks(t) \/ Rewrites(t)
  PROVE  Memory'
<1>1. job \in Jobs /\ FaultType
  BY Types DEF SyncInv, JobType
<1>2. CASE Activates(t)
  <2>1. job' = [job EXCEPT !.activating = @ \ {t}] /\ at' = "closing" /\ at = "closing"
    BY <1>2 DEF Activates
  <2>2. steady' => steady
    BY <1>1, <1>2, AttemptType DEF Activates
  <2>3. /\ job'.venue = job.venue /\ job'.found = job.found
        /\ job'.closing = job.closing
    BY <1>1, <2>1 DEF Jobs
  <2>. QED
    BY <1>2, <2>1, <2>2, <2>3, ClosingMemory DEF Activates
<1>3. CASE MarksFailed(t)
  <2>1. job' = [job EXCEPT !.closing = @ \ {t}] /\ at' = "closing" /\ at = "closing"
    BY <1>3 DEF MarksFailed, Closing
  <2>2. steady' => steady
    BY <1>1, <1>3, AttemptType DEF MarksFailed
  <2>3. /\ job'.venue = job.venue /\ job'.found = job.found
        /\ job'.closing \subseteq job.closing
    BY <1>1, <2>1 DEF Jobs
  <2>. QED
    BY <1>3, <2>1, <2>2, <2>3, ClosingMemory DEF MarksFailed
<1>4. CASE Asks(t)
  <2>1. PICK answer :
          /\ job' = [job EXCEPT !.closing = @ \ {t}, !.trade = t, !.answer = answer]
          /\ Attempt(t \in linked => answer # "none")
    BY <1>4 DEF Asks
  <2>2. at' = "asked" /\ at = "closing" /\ t \in job.closing
    BY <1>4 DEF Asks, Closing
  <2>3. steady' => steady
    BY <1>1, <2>1, AttemptType
  <2>4. /\ job'.venue = job.venue /\ job'.found = job.found
        /\ job'.closing \subseteq job.closing /\ job'.trade = t
    BY <1>1, <2>1 DEF Jobs
  <2>. QED
    BY <1>4, <2>2, <2>3, <2>4, ClosingMemory DEF Asks
<1>5. CASE Rewrites(t)
  <2>1. job' = [job EXCEPT !.closing = @ \ {t}] /\ at' = "closing" /\ at = "closing"
    BY <1>5 DEF Rewrites, Closing
  <2>2. steady' => steady
    BY <1>1, <1>5, AttemptType DEF Rewrites
  <2>3. /\ job'.venue = job.venue /\ job'.found = job.found
        /\ job'.closing \subseteq job.closing
    BY <1>1, <2>1 DEF Jobs
  <2>. QED
    BY <1>5, <2>1, <2>2, <2>3, ClosingMemory DEF Rewrites
<1>. QED
  BY <1>2, <1>3, <1>4, <1>5

LEMMA ClosesMemory == ASSUME SyncInv, Closes \/ Mends PROVE Memory'
<1>1. job \in Jobs /\ FaultType
  BY Types DEF SyncInv, JobType
<1>2. PICK ok \in BOOLEAN : Attempt(ok)
  BY DEF Closes, Mends
<1>3. steady' => steady
  BY <1>1, <1>2, AttemptType
<1>4. job' = [job EXCEPT !.trade = None, !.answer = "none"] /\ at = "asked" /\ at' = "closing"
  BY DEF Closes, Mends
<1>5. /\ job'.venue = job.venue /\ job'.found = job.found
      /\ job'.closing = job.closing
  BY <1>1, <1>4 DEF Jobs
<1>. QED
  BY <1>3, <1>4, <1>5, ClosingMemory DEF Closes, Mends

LEMMA EndsMemory == ASSUME SyncInv, EndsClosing \/ EndsHistory PROVE Memory'
<1>1. /\ job' = job /\ row' = row /\ order' = order /\ steady' = steady
      /\ live' = live
  BY DEF EndsClosing, EndsHistory
<1>2. \A t : Corrected(t)' <=> Corrected(t)
  BY <1>1 DEF Corrected, Held, Position
<1>3. CASE EndsClosing
  <2>1. CASE job.venue = "binance"
    <3>1. at' = "looking" /\ job.found = {}
      BY <1>3, <2>1 DEF EndsClosing, SyncInv, Pending
    <3>. QED
      BY <1>1, <2>1, <3>1 DEF Memory, Pending, Remembered, KeptOut
  <2>2. CASE job.venue # "binance"
    <3>1. at' = "done"
      BY <1>3, <2>2 DEF EndsClosing
    <3>. QED
      BY <1>1, <2>2, <3>1 DEF Memory, Pending, Remembered, KeptOut, Undisturbed
  <2>. QED
    BY <2>1, <2>2
<1>4. CASE EndsHistory
  <2>1. at = "looking" /\ at' = "done"
    BY <1>4 DEF EndsHistory
  <2>2. Undisturbed => \A t \in job.found : Corrected(t)
    BY <2>1 DEF SyncInv, Pending
  <2>. QED
    BY <1>1, <1>2, <2>1, <2>2 DEF Memory, Pending, Remembered, KeptOut, Undisturbed
<1>. QED
  BY <1>3, <1>4

LEMMA LooksUpMemory == ASSUME SyncInv, NEW t \in Trades, LooksUp(t) PROVE Memory'
<1>1. job \in Jobs /\ order \in [Trades -> EntryStatuses]
  BY Types DEF SyncInv, JobType, WorldType
<1>2. PICK answer \in {order[t], "none"} :
        LET read == [job EXCEPT !.history = @ \ {t},
                       !.found = IF answer = "none" THEN @ ELSE @ \cup {t}]
        IN IF answer \in {"NEW", "FILLED"}
           THEN /\ job' = [read EXCEPT !.trade = t, !.answer = answer]
                /\ at' = IF answer = "FILLED" THEN "checking" ELSE "storing"
           ELSE job' = read /\ UNCHANGED at
  BY DEF LooksUp
<1>3. UNCHANGED <<row, order, live, steady>> /\ at = "looking"
  BY DEF LooksUp
<1>4. \A u : Corrected(u)' <=> Corrected(u)
  BY <1>3 DEF Corrected, Held, Position
<1>5. Undisturbed => \A u \in job.found : Corrected(u)
  BY <1>3 DEF SyncInv, Pending
<1>6. CASE answer \in {"NEW", "FILLED"}
  <2>1. /\ job'.venue = job.venue /\ job'.found = job.found \cup {t}
        /\ job'.trade = t /\ job'.answer = answer
    BY <1>1, <1>2, <1>6 DEF Jobs
  <2>2. at' = IF answer = "FILLED" THEN "checking" ELSE "storing"
    BY <1>2, <1>6
  <2>3. order[t] = answer
    BY <1>6
  <2>4. Pending'
    BY <1>3, <1>4, <1>5, <2>1, <2>2 DEF Pending, Undisturbed
  <2>5. Remembered'
    BY <1>3, <1>6, <2>1, <2>2, <2>3 DEF Remembered
  <2>. QED
    BY <2>2, <2>4, <2>5 DEF Memory, KeptOut
<1>7. CASE answer \notin {"NEW", "FILLED"}
  <2>1. /\ job'.venue = job.venue /\ at' = "looking"
        /\ job'.found = IF answer = "none" THEN job.found ELSE job.found \cup {t}
    BY <1>1, <1>2, <1>3, <1>7 DEF Jobs
  <2>2. answer # "none" => Corrected(t)
    BY <1>7 DEF Corrected
  <2>3. Pending'
    BY <1>3, <1>4, <1>5, <2>1, <2>2 DEF Pending, Undisturbed
  <2>. QED
    BY <2>1, <2>3 DEF Memory, Remembered, KeptOut
<1>. QED
  BY <1>6, <1>7

LEMMA ChecksMemory == ASSUME SyncInv, ChecksPosition PROVE Memory'
<1>1. job \in Jobs /\ FaultType
  BY Types DEF SyncInv, JobType
<1>2. PICK answered \in BOOLEAN :
        job' = [job EXCEPT !.held = answered /\ Held(job.trade)] /\ Attempt(answered)
  BY DEF ChecksPosition
<1>3. steady' => steady /\ answered
  BY <1>1, <1>2, AttemptType
<1>4. /\ job'.venue = job.venue /\ job'.found = job.found
      /\ job'.trade = job.trade /\ job'.answer = job.answer
      /\ job'.held = (answered /\ Held(job.trade))
  BY <1>1, <1>2 DEF Jobs
<1>5. /\ at = "checking" /\ at' = "storing" /\ row' = row
      /\ order' = order /\ live' = live
  BY DEF ChecksPosition
<1>6. \A u : (Corrected(u)' <=> Corrected(u)) /\ (Held(u)' <=> Held(u))
  BY <1>5 DEF Corrected, Held, Position
<1>7. Pending'
  BY <1>3, <1>4, <1>5, <1>6 DEF SyncInv, Pending, Undisturbed
<1>8. Held(job.trade)' <=> Held(job.trade)
  BY <1>4, <1>5 DEF Held, Position
<1>9. steady' => job'.held = Held(job.trade)'
  BY <1>3, <1>4, <1>8 DEF Held
<1>10. Remembered'
  BY <1>3, <1>4, <1>5, <1>9 DEF SyncInv, Remembered
<1>. QED
  BY <1>5, <1>7, <1>10 DEF Memory, KeptOut

LEMMA StoresMemory == ASSUME SyncInv, StoresHistory PROVE Memory'
<1>1. job \in Jobs /\ FaultType /\ RowType
  BY Types DEF SyncInv, JobType
<1>2. PICK ok \in BOOLEAN :
        /\ row' = IF ok THEN [row EXCEPT ![job.trade] = HistoryPair] ELSE row
        /\ Attempt(ok)
  BY DEF StoresHistory
<1>3. steady' => steady /\ ok
  BY <1>1, <1>2, AttemptType
<1>4. job'.venue = job.venue /\ job'.found = job.found
  BY <1>1 DEF StoresHistory, Jobs
<1>5. /\ at = "storing" /\ at' = "looking"
      /\ order' = order /\ live' = live
  BY DEF StoresHistory
<1>6. ASSUME Undisturbed', NEW u \in job.found
      PROVE  Corrected(u)'
  <2>1. steady /\ ok /\ job.venue = "binance"
    BY <1>3, <1>4, <1>6 DEF Undisturbed
  <2>2. u = job.trade \/ Corrected(u)
    BY <1>5, <1>6, <2>1 DEF SyncInv, Pending, Undisturbed
  <2>3. row' = [row EXCEPT ![job.trade] = HistoryPair]
    BY <1>2, <2>1
  <2>4. Held(u)' <=> Held(u)
    BY <1>5 DEF Held, Position
  <2>5. u \in Trades /\ u \in DOMAIN row
    BY <1>1, <1>6 DEF RowType, Jobs
  <2>6. CASE u = job.trade
    <3>1. row'[u] = HistoryPair
      BY <2>3, <2>5, <2>6
    <3>2. /\ job.answer \in {"NEW", "FILLED"} /\ order[u] = job.answer
          /\ job.answer = "FILLED" => job.held = Held(u)
      BY <1>5, <2>1, <2>6 DEF SyncInv, Remembered
    <3>3. order[u] = "NEW" => row'[u].status = "PENDING"
      BY <3>1, <3>2 DEF HistoryPair
    <3>4. order[u] = "FILLED" => row'[u].status = IF Held(u) THEN "ACTIVE" ELSE "CLOSED"
      BY <3>1, <3>2 DEF HistoryPair
    <3>. QED
      BY <1>5, <2>4, <3>3, <3>4 DEF Corrected
  <2>7. CASE u # job.trade
    <3>1. row'[u] = row[u]
      BY <2>3, <2>5, <2>7
    <3>. QED
      BY <1>5, <2>2, <2>4, <2>7, <3>1 DEF Corrected
  <2>. QED
    BY <2>6, <2>7
<1>7. Pending'
  BY <1>4, <1>5, <1>6 DEF Pending
<1>. QED
  BY <1>5, <1>7 DEF Memory, Remembered, KeptOut

LEMMA NextSync == SyncInv /\ [Next]_vars => SyncInv'
<1> SUFFICES ASSUME SyncInv, [Next]_vars PROVE SyncInv'
  OBVIOUS
<1>1. TypeOK
  BY DEF SyncInv
<1>2. CASE World
  BY <1>1, <1>2, WorldTypes, WorldMemory DEF SyncInv, Memory
<1>3. CASE (\E v \in Venues : Starts(v)) \/ Reconciles \/ Fetches
  BY <1>1, <1>3, ReadTypes, EdgeMemory, FetchMemory DEF SyncInv, Memory
<1>4. CASE BreaksOff \/ Finishes
  <2>1. TypeOK'
    BY <1>1, <1>4, StepTypes DEF JobStep
  <2>. QED
    BY <1>4, <2>1, EdgeMemory DEF SyncInv, Memory
<1>5. ASSUME NEW t \in Trades, OnRow(t) PROVE SyncInv'
  <2>1. TypeOK'
    BY <1>1, <1>5, RowStepTypes
  <2>2. Memory'
    BY <1>5, OnRowClosingMemory, LooksUpMemory DEF OnRow
  <2>. QED
    BY <2>1, <2>2 DEF SyncInv, Memory
<1>6. CASE Closes \/ Mends \/ EndsClosing \/ ChecksPosition \/ StoresHistory \/ EndsHistory
  <2>1. TypeOK'
    BY <1>1, <1>6, StepTypes DEF JobStep
  <2>2. Memory'
    BY <1>6, ClosesMemory, EndsMemory, ChecksMemory, StoresMemory
  <2>. QED
    BY <2>1, <2>2 DEF SyncInv, Memory
<1>7. CASE UNCHANGED vars
  <2>1. TypeOK'
    BY <1>1, <1>7 DEF vars, TypeOK
  <2>2. \A t : (Corrected(t)' <=> Corrected(t)) /\ (Held(t)' <=> Held(t))
    BY <1>7 DEF vars, Corrected, Held, Position
  <2>3. Pending'
    BY <1>7, <2>2 DEF vars, SyncInv, Pending, Undisturbed
  <2>4. Held(job.trade)' <=> Held(job.trade)
    BY <1>7 DEF vars, Held, Position
  <2>5. Remembered'
    BY <1>7 DEF vars, SyncInv, Remembered, Held, Position
  <2>6. KeptOut'
    BY <1>7, <2>2, <2>4 DEF vars, SyncInv, KeptOut
  <2>. QED
    BY <2>1, <2>3, <2>5, <2>6 DEF SyncInv
<1>. QED
  BY <1>2, <1>3, <1>4, <1>5, <1>6, <1>7 DEF Next, JobStep

\* A Binance job that nothing disturbs leaves each row whose order its history
\* showed in line with the order, when that is new or filled, and with the
\* position of its coin, whatever the step before the history wrote.
THEOREM HistoryCorrected == Spec => []HistoryCorrects
<1>1. SyncInv => HistoryCorrects
  BY DEF SyncInv, Pending, Undisturbed, Corrected, HistoryCorrects
<1>. QED
  BY <1>1, InitSync, NextSync, PTL DEF Spec

\* A KuCoin job that nothing disturbs closes no row whose coin has a position.
THEOREM LiveRowsKept == Spec => KucoinKeepsLive
<1>1. SyncInv /\ [Next]_vars =>
        [at = "asked" /\ job.venue = "kucoin" /\ steady' /\ Closes => ~Held(job.trade)]_vars
  <2> SUFFICES ASSUME SyncInv, at = "asked", job.venue = "kucoin", steady', Closes
               PROVE  ~Held(job.trade)
    OBVIOUS
  <2>1. FaultType
    BY Types DEF SyncInv
  <2>2. steady
    BY <2>1, AttemptType DEF Closes
  <2>. QED
    BY <2>2 DEF SyncInv, KeptOut
<1>. QED
  BY <1>1, InitSync, NextSync, PTL DEF Spec, KucoinKeepsLive
=============================================================================
