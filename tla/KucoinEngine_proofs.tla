------------------------ MODULE KucoinEngine_proofs ------------------------
(***************************************************************************)
(* Safety of KucoinEngine for any number of signals and follow-ups, any    *)
(* multiplier and any number of attempts.  Liveness (TasksEnd) is left to  *)
(* TLC.                                                                    *)
(***************************************************************************)
EXTENDS KucoinEngine, FiniteSetTheorems, TLAPS

FilledOf(side) == {s \in Signals : order[s] = "filled" /\ SideOf[s] = side}

\* The position is never more than what the filled entries bought or sold.
Bounded ==
  /\ pos <= Cardinality(FilledOf("LONG"))
  /\ -pos <= Cardinality(FilledOf("SHORT"))

\* Before it is submitted a signal has no order, after that it has one.
Submitted ==
  \A s \in Signals :
    /\ pc[s] \in {"received", "checking", "submitting"} => order[s] = "none"
    /\ pc[s] \in {"settling", "entered"} => order[s] # "none"
    /\ pc[s] = "failed" /\ s \notin lost => order[s] = "none"

\* A follow-up that has not ended has no stop loss yet, one that has sized
\* its close sells something, and one that has begun to close a filled trade
\* stays at that.
Underway ==
  \A f \in Followups :
    /\ fc[f] \notin FollowupEnded => stops[f] = 0
    /\ stops[f] <= 1
    /\ fc[f] \in {"checking", "selling"} => task[f].want >= 1
    /\ f \in stood => order[TradeOf[f]] = "filled"

Inv == TypeOK /\ Bounded /\ Submitted /\ Underway

-----------------------------------------------------------------------------
(* Numbers *)

\* The bound of the position is a number.
LEMMA MaxPositionNat == MaxPosition \in Nat
BY FiniteAssumption, FS_CardinalityType DEF MaxPosition

\* A position closer to zero, on the same side.
Shrinks(p, q) == (0 <= q /\ q <= p) \/ (p <= q /\ q <= 0)

LEMMA SameSign ==
  ASSUME NEW p \in Int, NEW q \in Int, Shrinks(p, q)
  PROVE  /\ q * p >= 0
         /\ (IF q < 0 THEN -q ELSE q) <= (IF p < 0 THEN -p ELSE p)
<1>1. CASE 0 <= q /\ q <= p
  BY <1>1
<1>2. CASE p <= q /\ q <= 0
  <2>1. -p \in Nat /\ -q \in Nat
    BY <1>2
  <2>2. (-q) * (-p) \in Nat
    BY <2>1
  <2>3. q * p = (-q) * (-p)
    OBVIOUS
  <2>4. q * p >= 0
    BY <2>2, <2>3
  <2>5. (IF q < 0 THEN -q ELSE q) <= (IF p < 0 THEN -p ELSE p)
    BY <1>2
  <2>6. QED BY <2>4, <2>5
<1>3. QED BY <1>1, <1>2 DEF Shrinks

\* A reduce-only order never opens, enlarges or turns a position around.
LEMMA ReducedShrinks ==
  ASSUME pos \in Int, NEW side, NEW n \in Nat
  PROVE  Reduced(side, n) \in Int /\ Shrinks(pos, Reduced(side, n))
BY DEF Reduced, Shrinks

\* The amounts a close is sized with are at least one contract.
LEMMA AtLeastOneNat ==
  ASSUME NEW n \in Int
  PROVE  AtLeastOne(n) \in Nat /\ AtLeastOne(n) >= 1
BY DEF AtLeastOne

LEMMA RoundedInt ==
  ASSUME NEW x \in Nat, NEW y \in Nat \ {0}
  PROVE  Rounded(x, y) \in Int
<1>1. x \div y \in Int
  OBVIOUS
<1>2. QED BY <1>1 DEF Rounded

LEMMA SizesAtLeastOne ==
  ASSUME NEW n \in Nat, NEW part \in {25, 50, 100}
  PROVE  /\ FromRow(n, part) \in Nat /\ FromRow(n, part) >= 1
         /\ FromPosition(n, part) \in Nat /\ FromPosition(n, part) >= 1
<1>1. n * part \in Nat /\ n * part * Contracts \in Nat /\ 100 * Assets \in Nat \ {0}
  BY NumberAssumption
<1>2. Rounded(n * part, 100) \in Int /\ Rounded(n * part * Contracts, 100 * Assets) \in Int
  BY <1>1, RoundedInt
<1>3. QED BY <1>2, AtLeastOneNat DEF FromRow, FromPosition

\* Division as the arithmetic of the provers knows it.
LEMMA Divides ==
  ASSUME NEW x \in Nat, NEW y \in Nat \ {0}
  PROVE  /\ x \div y \in Nat /\ x % y \in Nat /\ x % y < y
         /\ x = y * (x \div y) + (x % y)
OBVIOUS

\* Rounded is Python's round of a quotient: the nearest integer, and of two that
\* are as near the even one.
THEOREM RoundedIsNearest ==
  ASSUME NEW x \in Nat, NEW y \in Nat \ {0}
  PROVE  LET n == Rounded(x, y)
         IN /\ n \in Nat
            /\ 2 * (x - n * y) <= y /\ 2 * (n * y - x) <= y
            /\ 2 * (x - n * y) = y \/ 2 * (n * y - x) = y => n % 2 = 0
<1> DEFINE q == x \div y
           m == x % y
<1>1. q \in Nat /\ m \in Nat /\ m < y /\ x = y * q + m
  BY Divides
<1>2. Rounded(x, y) = IF 2 * m < y \/ (2 * m = y /\ q % 2 = 0) THEN q ELSE q + 1
  BY DEF Rounded
<1>3. x - q * y = m /\ (q + 1) * y - x = y - m
  <2>1. q * y \in Int /\ y * q = q * y /\ (q + 1) * y = q * y + y
    BY <1>1
  <2>2. QED BY <1>1, <2>1
<1>4. CASE 2 * m < y \/ (2 * m = y /\ q % 2 = 0)
  <2>1. Rounded(x, y) = q
    BY <1>2, <1>4
  <2>2. q * y - x = -m
    BY <1>1, <1>3
  <2>3. QED BY <1>1, <1>3, <1>4, <2>1, <2>2
<1>5. CASE ~(2 * m < y \/ (2 * m = y /\ q % 2 = 0))
  <2>1. Rounded(x, y) = q + 1
    BY <1>2, <1>5
  <2>2. x - (q + 1) * y = m - y
    BY <1>1, <1>3
  <2>3. 2 * m >= y
    BY <1>1, <1>5
  <2>4. 2 * m = y => (q + 1) % 2 = 0
    BY <1>1, <1>5
  <2>5. QED BY <1>1, <1>3, <2>1, <2>2, <2>3, <2>4
<1>6. QED BY <1>4, <1>5

\* What a whole close asks for.  A row's size is sold as it is; the size of the
\* live position, in contracts already, is divided by the multiplier once more:
\* that covers the position while a contract is at most one unit of the coin,
\* and leaves a part of it once a contract is two units or more.
THEOREM WholeCloses ==
  ASSUME NEW n \in Nat \ {0}
  PROVE  /\ FromRow(n, 100) = n
         /\ Assets <= Contracts => FromPosition(n, 100) >= n
         /\ 2 * Contracts <= Assets /\ n >= 2 => FromPosition(n, 100) < n
<1>1. /\ Contracts \in Nat \ {0} /\ Assets \in Nat \ {0}
      /\ n * 100 \in Nat /\ n * 100 * Contracts \in Nat /\ 100 * Assets \in Nat \ {0}
  BY NumberAssumption
<1>2. FromRow(n, 100) = n
  <2> DEFINE k == Rounded(n * 100, 100)
  <2>1. /\ k \in Nat /\ 2 * (n * 100 - k * 100) <= 100
        /\ 2 * (k * 100 - n * 100) <= 100
    BY <1>1, RoundedIsNearest
  <2>2. FromRow(n, 100) = IF k < 1 THEN 1 ELSE k
    BY DEF FromRow, AtLeastOne
  <2> HIDE DEF k
  <2>3. k = n
    BY <2>1
  <2>4. QED BY <2>2, <2>3
<1> DEFINE y == 100 * Assets
           r == Rounded(n * 100 * Contracts, y)
<1>3. r \in Nat /\ 2 * (n * 100 * Contracts - r * y) <= y
      /\ 2 * (r * y - n * 100 * Contracts) <= y
  BY <1>1, RoundedIsNearest
<1>4. FromPosition(n, 100) = IF r < 1 THEN 1 ELSE r
  BY DEF FromPosition, AtLeastOne
<1> HIDE DEF r
<1>5. /\ r * y = 100 * (r * Assets) /\ n * 100 * Contracts = 100 * (n * Contracts)
      /\ r * Assets \in Nat /\ n * Contracts \in Nat
  BY <1>1, <1>3
<1>6. /\ 2 * (n * Contracts - r * Assets) <= Assets
      /\ 2 * (r * Assets - n * Contracts) <= Assets
  BY <1>1, <1>3, <1>5
<1>7. ASSUME Assets <= Contracts PROVE r >= n
  <2>1. SUFFICES ASSUME r <= n - 1 PROVE FALSE
    BY <1>3
  <2>2. r * Assets <= (n - 1) * Assets
    BY <1>1, <1>3, <2>1
  <2>3. n * Assets <= n * Contracts /\ (n - 1) * Assets = n * Assets - Assets
    BY <1>1, <1>7
  <2>4. n * Assets \in Nat /\ Assets >= 1
    BY <1>1
  <2>5. n * Contracts - r * Assets >= Assets
    BY <1>1, <1>5, <2>2, <2>3, <2>4
  <2>6. QED BY <1>1, <1>5, <1>6, <2>4, <2>5
<1>8. ASSUME 2 * Contracts <= Assets, n >= 2 PROVE r < n
  <2>1. SUFFICES ASSUME r >= n PROVE FALSE
    BY <1>3
  <2>2. r * Assets >= n * Assets
    BY <1>1, <1>3, <2>1
  <2>3. n * Assets >= 2 * (n * Contracts) /\ n * Assets >= 2 * Assets
    <3>1. n * (2 * Contracts) <= n * Assets /\ n * (2 * Contracts) = 2 * (n * Contracts)
      BY <1>1, <1>8
    <3>2. 2 * Assets <= n * Assets
      BY <1>1, <1>8
    <3>3. QED BY <3>1, <3>2
  <2>4. QED BY <1>1, <1>5, <1>6, <2>2, <2>3
<1>9. r \in Nat
  BY <1>3
<1>10. Assets <= Contracts => FromPosition(n, 100) >= n
  BY <1>4, <1>7, <1>9
<1>11. 2 * Contracts <= Assets /\ n >= 2 => FromPosition(n, 100) < n
  BY <1>4, <1>8, <1>9
<1>12. QED BY <1>2, <1>10, <1>11

\* How many entries of a side have filled.
LEMMA FilledFinite ==
  ASSUME NEW side
  PROVE  /\ IsFiniteSet(FilledOf(side)) /\ Cardinality(FilledOf(side)) \in Nat
         /\ Cardinality(FilledOf(side)) <= MaxPosition
<1>1. FilledOf(side) \subseteq Signals
  BY DEF FilledOf
<1>2. QED BY <1>1, FiniteAssumption, FS_Subset, FS_CardinalityType DEF MaxPosition

\* The position and its size are within the number of signals.
LEMMA BoundedRange ==
  ASSUME pos \in Int, Bounded
  PROVE  pos \in -MaxPosition..MaxPosition /\ Magnitude \in 0..MaxPosition
BY FilledFinite, MaxPositionNat DEF Bounded, Magnitude

-----------------------------------------------------------------------------
(* The invariant *)

LEMMA InitInv == Init => Inv
<1> SUFFICES ASSUME Init PROVE Inv
  OBVIOUS
<1>1. TypeOK
  <2>1. FreshTask \in Tasks /\ 0 \in 0..MaxPosition /\ 0 \in -MaxPosition..MaxPosition
    BY MaxPositionNat, NumberAssumption DEF Tasks, FreshTask
  <2>2. QED BY <2>1 DEF Init, TypeOK
<1>2. Bounded
  BY FilledFinite DEF Init, Bounded
<1>3. Submitted /\ Underway
  BY DEF Init, Submitted, Underway, FollowupEnded
<1>4. QED BY <1>1, <1>2, <1>3 DEF Inv

\* A position closer to zero stays within the same entries.
LEMMA ShrinkBounded ==
  ASSUME Inv, pos' \in Int, Shrinks(pos, pos'), UNCHANGED order
  PROVE  Bounded' /\ pos' \in -MaxPosition..MaxPosition
<1>1. \A side : FilledOf(side)' = FilledOf(side)
  BY DEF FilledOf
<1>2. pos \in -MaxPosition..MaxPosition
  BY DEF Inv, TypeOK
<1>3. QED
  BY <1>1, <1>2, FilledFinite, MaxPositionNat DEF Inv, Bounded, Shrinks

\* An order that is not filled by the step leaves the filled ones as they are.
LEMMA UnfilledBounded ==
  ASSUME Inv, UNCHANGED pos,
         \A s \in Signals : order'[s] = "filled" <=> order[s] = "filled"
  PROVE  Bounded'
<1>1. \A side : FilledOf(side)' = FilledOf(side)
  BY DEF FilledOf
<1>2. QED BY <1>1 DEF Inv, Bounded

LEMMA SignalStepInv ==
  ASSUME Inv, NEW s \in Signals, SignalStep(s)
  PROVE  Inv'
<1> USE DEF Inv
<1>1. TypeOK'
  BY DEF TypeOK, SignalStep, CheckCooldown, Check, SubmitRefused, SubmitAccepted,
         SubmitAnswerLost, Settled, SignalTo, followVars, SignalEnded
<1>2. Bounded'
  <2>1. \A r \in Signals : order'[r] = "filled" <=> order[r] = "filled"
    BY DEF TypeOK, Submitted, SignalStep, CheckCooldown, Check, SubmitRefused,
           SubmitAccepted, SubmitAnswerLost, Settled
  <2>2. UNCHANGED pos
    BY DEF SignalStep, CheckCooldown, Check, SubmitRefused, SubmitAccepted,
           SubmitAnswerLost, Settled
  <2>3. QED BY <2>1, <2>2, UnfilledBounded
<1>3. Submitted'
  BY DEF TypeOK, Submitted, SignalStep, CheckCooldown, Check, SubmitRefused,
         SubmitAccepted, SubmitAnswerLost, Settled, SignalTo
<1>4. Underway'
  BY TradeAssumption
     DEF TypeOK, Submitted, Underway, SignalStep, CheckCooldown, Check, SubmitRefused,
         SubmitAccepted, SubmitAnswerLost, Settled, SignalTo, followVars
<1>5. QED BY <1>1, <1>2, <1>3, <1>4

\* What any step of a follow-up leaves alone.
LEMMA FollowupFrame ==
  ASSUME NEW f \in Followups, FollowupStep(f)
  PROVE  UNCHANGED <<pc, cooling, order, size, lost>>
BY DEF FollowupStep, BeginFollowup, Parse, Look, SizeIt, CheckPosition, Sell,
       Price, CancelOld, RetryPrice, PlaceStop, Frame, signalVars

\* Only Sell changes the position, and only towards zero.
LEMMA FollowupShrinks ==
  ASSUME Inv, NEW f \in Followups, FollowupStep(f)
  PROVE  pos' \in Int /\ Shrinks(pos, pos')
<1> USE DEF Inv, TypeOK
<1>1. pos \in Int /\ task[f].want \in Nat
  BY MaxPositionNat DEF Tasks
<1>2. CASE Sell(f)
  BY <1>1, <1>2, ReducedShrinks DEF Sell, Shrinks
<1>3. CASE ~Sell(f)
  <2>1. pos' = pos
    BY <1>3 DEF FollowupStep, BeginFollowup, Parse, Look, SizeIt, CheckPosition,
                Price, CancelOld, RetryPrice, PlaceStop, exchange
  <2>2. QED BY <1>1, <2>1 DEF Shrinks
<1>4. QED BY <1>2, <1>3

\* The locals of a follow-up keep their ranges.
LEMMA FollowupTask ==
  ASSUME Inv, NEW f \in Followups, FollowupStep(f)
  PROVE  task' \in [Followups -> Tasks]
<1> USE DEF Inv, TypeOK
<1>1. FreshTask \in Tasks /\ task[f] \in Tasks
  BY MaxPositionNat, NumberAssumption DEF Tasks, FreshTask
<1>2. CASE BeginFollowup(f)
  <2>1. size[TradeOf[f]] \in 0..MaxPosition
    BY TradeAssumption
  <2>2. [FreshTask EXCEPT !.row = size[TradeOf[f]]] \in Tasks
    BY <1>1, <2>1 DEF Tasks, FreshTask
  <2>3. QED BY <1>2, <2>2 DEF BeginFollowup, Keep
<1>3. CASE Parse(f)
  <2>1. \A p \in {25, 50, 100} : [task[f] EXCEPT !.part = p] \in Tasks
    BY <1>1 DEF Tasks
  <2>2. QED BY <1>1, <1>3, <2>1 DEF Parse, Keep, End
<1>4. CASE SizeIt(f)
  <2>1. Magnitude \in Nat /\ task[f].row \in Nat /\ task[f].part \in {25, 50, 100}
    BY <1>1, BoundedRange, MaxPositionNat DEF Tasks
  <2>2. /\ [FreshTask EXCEPT !.want = FromRow(task[f].row, task[f].part)] \in Tasks
        /\ [FreshTask EXCEPT !.want = FromPosition(Magnitude, task[f].part)] \in Tasks
    BY <1>1, <2>1, SizesAtLeastOne DEF Tasks, FreshTask
  <2>3. QED BY <1>1, <1>4, <2>2 DEF SizeIt, Keep, End
<1>5. CASE RetryPrice(f)
  <2>1. [task[f] EXCEPT !.attempt = @ + 1] \in Tasks
    BY <1>1, <1>5, NumberAssumption DEF RetryPrice, Tasks
  <2>2. QED BY <1>5, <2>1 DEF RetryPrice, Keep
<1>6. CASE Look(f) \/ CheckPosition(f) \/ Sell(f) \/ Price(f) \/ CancelOld(f) \/ PlaceStop(f)
  BY <1>1, <1>6 DEF Look, CheckPosition, Sell, Price, CancelOld, PlaceStop, Keep, End
<1>7. QED BY <1>2, <1>3, <1>4, <1>5, <1>6 DEF FollowupStep

LEMMA FollowupStepInv ==
  ASSUME Inv, NEW f \in Followups, FollowupStep(f)
  PROVE  Inv'
<1> USE DEF Inv
<1>1. Bounded' /\ pos' \in -MaxPosition..MaxPosition
  BY FollowupShrinks, FollowupFrame, ShrinkBounded
<1>2. TypeOK'
  <2>1. /\ fc' \in [Followups -> {"waiting", "parsing"} \cup Closing \cup Moving
                                  \cup FollowupEnded]
        /\ stops' \in [Followups -> Nat]
        /\ misled' \subseteq Followups /\ stood' \subseteq Followups
    BY DEF TypeOK, FollowupStep, BeginFollowup, Parse, Look, FindsNone, SizeIt,
           CheckPosition, Sell, Price, CancelOld, RetryPrice, PlaceStop, FollowTo,
           End, Frame, exchange, Closing, Moving, FollowupEnded
  <2>2. QED BY <1>1, <2>1, FollowupTask, FollowupFrame DEF TypeOK
<1>3. Submitted'
  BY FollowupFrame DEF Submitted
<1>4. Underway'
  <2>1. \A g \in Followups : g \in stood' => order'[TradeOf[g]] = "filled"
    BY FollowupFrame, TradeAssumption
       DEF Underway, FollowupStep, BeginFollowup, Parse, Look, SizeIt,
           CheckPosition, Sell, Price, CancelOld, RetryPrice, PlaceStop
  <2>2. \A g \in Followups : fc'[g] \notin FollowupEnded => stops'[g] = 0
    BY DEF TypeOK, Underway, FollowupStep, BeginFollowup, Parse, Look, SizeIt,
           CheckPosition, Sell, Price, CancelOld, RetryPrice, PlaceStop, FollowTo,
           End, exchange, FollowupEnded
  <2>3. \A g \in Followups : stops'[g] <= 1
    BY DEF TypeOK, Underway, FollowupStep, BeginFollowup, Parse, Look, SizeIt,
           CheckPosition, Sell, Price, CancelOld, RetryPrice, PlaceStop, FollowTo,
           End, exchange, FollowupEnded
  <2>4. \A g \in Followups : fc'[g] \in {"checking", "selling"} => task'[g].want >= 1
    <3>1. CASE SizeIt(f)
      <4>1. Magnitude \in Nat /\ task[f].row \in Nat /\ task[f].part \in {25, 50, 100}
        BY BoundedRange, MaxPositionNat DEF TypeOK, Tasks
      <4>2. /\ FromRow(task[f].row, task[f].part) >= 1
            /\ FromPosition(Magnitude, task[f].part) >= 1
        BY <4>1, SizesAtLeastOne
      <4>3. QED BY <3>1, <4>2 DEF TypeOK, Underway, SizeIt, FollowTo, Keep, End,
                                  FreshTask
    <3>2. CASE ~SizeIt(f)
      BY <3>2 DEF TypeOK, Underway, FollowupStep, BeginFollowup, Parse, Look,
                  CheckPosition, Sell, Price, CancelOld, RetryPrice, PlaceStop,
                  FollowTo, Keep, End, Frame
    <3>3. QED BY <3>1, <3>2
  <2>5. QED BY <2>1, <2>2, <2>3, <2>4 DEF Underway
<1>5. QED BY <1>1, <1>2, <1>3, <1>4

\* Only a fill moves the position away from zero.
LEMMA EntryFillsInv ==
  ASSUME Inv, NEW s \in Signals, EntryFills(s)
  PROVE  Inv'
<1> USE DEF Inv
<1>1. pos \in Int /\ s \notin FilledOf("LONG") /\ s \notin FilledOf("SHORT")
  BY MaxPositionNat DEF TypeOK, EntryFills, FilledOf
<1>2. /\ SideOf[s] = "LONG" => /\ FilledOf("LONG")' = FilledOf("LONG") \cup {s}
                               /\ FilledOf("SHORT")' = FilledOf("SHORT")
      /\ SideOf[s] = "SHORT" => /\ FilledOf("SHORT")' = FilledOf("SHORT") \cup {s}
                                /\ FilledOf("LONG")' = FilledOf("LONG")
  BY SideAssumption DEF TypeOK, EntryFills, FilledOf
<1>3. \A side \in {"LONG", "SHORT"} :
         Cardinality(FilledOf(side) \cup {s}) = Cardinality(FilledOf(side)) + 1
  BY <1>1, FilledFinite, FS_AddElement
<1>4. Bounded'
  BY <1>1, <1>2, <1>3, FilledFinite, SideAssumption DEF Bounded, EntryFills
<1>5. /\ Cardinality(FilledOf("LONG")') \in 0..MaxPosition
      /\ Cardinality(FilledOf("SHORT")') \in 0..MaxPosition
  <2>1. FilledOf("LONG")' \subseteq Signals /\ FilledOf("SHORT")' \subseteq Signals
    BY DEF FilledOf
  <2>2. QED
    BY <2>1, FiniteAssumption, FS_Subset, FS_CardinalityType, MaxPositionNat DEF MaxPosition
<1>6. pos' \in -MaxPosition..MaxPosition
  <2>1. pos' \in Int
    BY <1>1 DEF EntryFills
  <2>2. QED BY <1>4, <1>5, <2>1, MaxPositionNat DEF Bounded
<1>7. TypeOK'
  BY <1>6 DEF TypeOK, EntryFills, signalVars, followVars
<1>8. Submitted' /\ Underway'
  BY TradeAssumption DEF TypeOK, Submitted, Underway, EntryFills, signalVars, followVars
<1>9. QED BY <1>4, <1>7, <1>8

LEMMA EnvironmentInv ==
  ASSUME Inv, Environment
  PROVE  Inv'
<1> USE DEF Inv
<1>1. ASSUME NEW s \in Signals, EntryEnds(s) PROVE Inv'
  <2>1. Bounded'
    BY <1>1, UnfilledBounded DEF TypeOK, EntryEnds
  <2>2. QED
    BY <1>1, <2>1, TradeAssumption
       DEF TypeOK, Submitted, Underway, EntryEnds, signalVars, followVars
<1>2. ASSUME NEW s \in Signals, JobStoresSize(s) PROVE Inv'
  <2>1. Bounded'
    BY <1>2, UnfilledBounded DEF JobStoresSize
  <2>2. Magnitude \in 0..MaxPosition
    BY BoundedRange, MaxPositionNat DEF TypeOK
  <2>3. QED
    BY <1>2, <2>1, <2>2
       DEF TypeOK, Submitted, Underway, JobStoresSize, signalVars, followVars
<1>3. ASSUME NEW f \in Followups, StopTriggers(f) PROVE Inv'
  <2>1. pos \in Int
    BY MaxPositionNat DEF TypeOK
  <2>2. pos' \in Int /\ Shrinks(pos, pos')
    BY <1>3, <2>1, ReducedShrinks DEF StopTriggers, Shrinks
  <2>3. Bounded' /\ pos' \in -MaxPosition..MaxPosition
    BY <1>3, <2>2, ShrinkBounded DEF StopTriggers
  <2>4. QED
    BY <1>3, <2>3
       DEF TypeOK, Submitted, Underway, StopTriggers, signalVars, followVars
<1>4. CASE CooldownEnds
  <2>1. Bounded'
    BY <1>4, UnfilledBounded DEF CooldownEnds
  <2>2. QED
    BY <1>4, <2>1 DEF TypeOK, Submitted, Underway, CooldownEnds, followVars
<1>5. CASE Restart
  <2>1. Bounded'
    BY <1>5, UnfilledBounded DEF Restart
  <2>2. FreshTask \in Tasks
    BY MaxPositionNat, NumberAssumption DEF Tasks, FreshTask
  <2>3. TypeOK'
    BY <1>5, <2>2 DEF TypeOK, Restart, SignalEnded, FollowupEnded
  <2>4. QED
    BY <1>5, <2>1, <2>3
       DEF TypeOK, Submitted, Underway, Restart, SignalEnded, FollowupEnded
<1>6. QED BY <1>1, <1>2, <1>3, <1>4, <1>5, EntryFillsInv DEF Environment

LEMMA NextInv == Inv /\ [Next]_vars => Inv'
<1> SUFFICES ASSUME Inv, [Next]_vars PROVE Inv'
  OBVIOUS
<1>1. CASE UNCHANGED vars
  BY <1>1 DEF vars, Inv, TypeOK, Bounded, FilledOf, Submitted, Underway
<1>2. CASE Next
  BY <1>2, SignalStepInv, FollowupStepInv, EnvironmentInv DEF Next
<1>3. QED BY <1>1, <1>2

LEMMA Inductive == Spec => []Inv
BY InitInv, NextInv, PTL DEF Spec

-----------------------------------------------------------------------------
(* The properties *)

\* Every variable keeps its type; in particular the position and the sizes in
\* the rows stay within the number of entries.
THEOREM TypesHold == Spec => []TypeOK
<1>1. Inv => TypeOK
  BY DEF Inv
<1>2. QED BY <1>1, Inductive, PTL

\* An answer of process_signal tells whether there is an order at KuCoin,
\* unless the exchange's own answer was lost.
THEOREM SignalsAnsweredTruly == Spec => []AnswersTrue
<1>1. Inv => AnswersTrue
  BY DEF Inv, Submitted, AnswersTrue
<1>2. QED BY <1>1, Inductive, PTL

\* For any number of attempts a follow-up leaves at most one stop loss.
THEOREM RetriesPlaceOneStop == Spec => []OneStopPerUpdate
<1>1. Inv => OneStopPerUpdate
  BY DEF Inv, Underway, OneStopPerUpdate
<1>2. QED BY <1>1, Inductive, PTL

\* Only the fill of an entry opens, enlarges or turns around a position.
THEOREM ClosesOnlyReduce == Spec => OnlyEntriesGrow
<1> DEFINE Fills == \E s \in Signals : order[s] = "resting" /\ order'[s] = "filled"
           Reduces == pos' * pos >= 0 /\ Magnitude' <= Magnitude
<1>1. ASSUME pos \in Int, pos' \in Int, Shrinks(pos, pos') PROVE Reduces
  <2>1. /\ pos' * pos >= 0
        /\ (IF pos' < 0 THEN -pos' ELSE pos') <= (IF pos < 0 THEN -pos ELSE pos)
    BY <1>1, SameSign
  <2>2. QED BY <2>1 DEF Magnitude
<1>2. ASSUME Inv, Next PROVE Reduces \/ Fills
  <2>1. pos \in Int
    BY <1>2, MaxPositionNat DEF Inv, TypeOK
  <2>2. CASE \E f \in Followups : FollowupStep(f)
    BY <1>1, <1>2, <2>1, <2>2, FollowupShrinks
  <2>3. CASE \E s \in Signals : EntryFills(s)
    BY <1>2, <2>3 DEF EntryFills, Inv, TypeOK
  <2>4. CASE \E f \in Followups : StopTriggers(f)
    <3>1. pos' \in Int /\ Shrinks(pos, pos')
      BY <2>1, <2>4, ReducedShrinks DEF StopTriggers, Shrinks
    <3>2. QED BY <1>1, <2>1, <3>1
  <2>5. CASE UNCHANGED pos
    BY <1>1, <2>1, <2>5 DEF Shrinks
  <2>6. QED
    BY <1>2, <2>2, <2>3, <2>4, <2>5
       DEF Next, Environment, SignalStep, CheckCooldown, Check, SubmitRefused,
           SubmitAccepted, SubmitAnswerLost, Settled, EntryEnds, JobStoresSize,
           CooldownEnds, Restart
<1>3. Inv /\ [Next]_vars => [Reduces \/ Fills]_vars
  BY <1>2
<1>4. QED BY <1>3, Inductive, PTL DEF Spec, OnlyEntriesGrow

-----------------------------------------------------------------------------
(* A close that is answered as done *)

\* No other trade on the coin has filled.
Alone(t) == \A s \in Signals \ {t} : order[s] # "filled"

\* The position of a filled trade that is alone is its own contract, or none.
LEMMA AlonePosition ==
  ASSUME Inv, NEW t \in Signals, order[t] = "filled", Alone(t)
  PROVE  /\ SideOf[t] = "LONG" => pos \in {0, 1}
         /\ SideOf[t] = "SHORT" => pos \in {-1, 0}
<1>1. pos \in Int
  BY MaxPositionNat DEF Inv, TypeOK
<1>2. IsFiniteSet({t}) /\ Cardinality({t}) = 1 /\ Cardinality({}) = 0
  BY FS_Singleton, FS_EmptySet
<1>3. CASE SideOf[t] = "LONG"
  <2>1. FilledOf("LONG") \subseteq {t} /\ FilledOf("SHORT") = {}
    BY <1>3 DEF FilledOf, Alone
  <2>2. Cardinality(FilledOf("LONG")) <= 1
    BY <1>2, <2>1, FS_Subset
  <2>3. QED BY <1>1, <1>2, <1>3, <2>1, <2>2, FilledFinite DEF Inv, Bounded
<1>4. CASE SideOf[t] = "SHORT"
  <2>1. FilledOf("SHORT") \subseteq {t} /\ FilledOf("LONG") = {}
    BY <1>4 DEF FilledOf, Alone
  <2>2. Cardinality(FilledOf("SHORT")) <= 1
    BY <1>2, <2>1, FS_Subset
  <2>3. QED BY <1>1, <1>2, <1>4, <2>1, <2>2, FilledFinite DEF Inv, Bounded
<1>5. QED BY <1>3, <1>4, SideAssumption

\* Selling at least one contract of such a trade leaves nothing.
LEMMA AloneReduced ==
  ASSUME Inv, NEW f \in Followups, fc[f] = "selling", order[TradeOf[f]] = "filled",
         Alone(TradeOf[f])
  PROVE  Reduced(CloseSide(f), task[f].want) = 0
<1>1. task[f].want \in Nat /\ task[f].want >= 1
  BY DEF Inv, TypeOK, Tasks, Underway
<1>2. TradeOf[f] \in Signals
  BY TradeAssumption
<1>3. QED BY <1>1, <1>2, AlonePosition, SideAssumption DEF Reduced, CloseSide

Flat(f) == fc[f] \in {"sold", "closed"} /\ Alone(TradeOf[f]) => pos = 0

\* The step by which a follow-up itself is answered.
LEMMA OwnStepFlat ==
  ASSUME SameName, Inv, NEW f \in Followups, FollowupStep(f),
         f \in stood' \ misled', fc[f] \in {"sold", "closed"} => Flat(f)
  PROVE  Flat(f)'
<1> USE DEF Inv
<1>1. UNCHANGED order
  BY FollowupFrame
<1>2. SUFFICES ASSUME fc'[f] \in {"sold", "closed"}, Alone(TradeOf[f])'
               PROVE  pos' = 0
  BY DEF Flat
<1>3. Alone(TradeOf[f])
  BY <1>1, <1>2 DEF Alone
<1>4. CASE Sell(f)
  <2>1. f \in stood /\ order[TradeOf[f]] = "filled" /\ fc[f] = "selling"
    BY <1>4 DEF Sell, Underway
  <2>2. Reduced(CloseSide(f), task[f].want) = 0
    BY <1>3, <2>1, AloneReduced
  <2>3. QED BY <1>2, <1>4, <2>2 DEF Sell, End, FollowTo, TypeOK
<1>5. CASE Look(f) \/ SizeIt(f) \/ CheckPosition(f)
  BY <1>2, <1>5 DEF Look, SizeIt, CheckPosition, FindsNone, Found, End, FollowTo,
                    TypeOK, Frame
<1>6. CASE Parse(f) \/ BeginFollowup(f) \/ Price(f) \/ CancelOld(f) \/ RetryPrice(f) \/ PlaceStop(f)
  BY <1>2, <1>6 DEF Parse, BeginFollowup, Price, CancelOld, RetryPrice, PlaceStop,
                    End, FollowTo, TypeOK
<1>7. QED BY <1>4, <1>5, <1>6 DEF FollowupStep

\* What every other step does to a follow-up that was answered.
LEMMA OtherStepFlat ==
  ASSUME Inv, NEW f \in Followups, f \in stood, Flat(f),
         pos' \in Int, Shrinks(pos, pos'),
         \A s \in Signals : order[s] = "filled" => order'[s] = "filled",
         fc'[f] \in {"sold", "closed"} => fc'[f] = fc[f]
  PROVE  Flat(f)'
<1>1. Alone(TradeOf[f])' => Alone(TradeOf[f])
  BY DEF Alone
<1>2. QED BY <1>1 DEF Flat, Shrinks

LEMMA NextFlat ==
  SameName /\ Inv /\ ClosedIsFlat /\ [Next]_vars => ClosedIsFlat'
<1> SUFFICES ASSUME SameName, Inv, ClosedIsFlat, [Next]_vars PROVE ClosedIsFlat'
  OBVIOUS
<1>0. stood' \subseteq Followups
  BY NextInv DEF Inv, TypeOK
<1> SUFFICES ASSUME NEW f \in Followups, f \in stood' \ misled' PROVE Flat(f)'
  BY <1>0 DEF ClosedIsFlat, Flat, Alone
<1>1. pos \in Int /\ Shrinks(pos, pos)
  BY MaxPositionNat DEF Inv, TypeOK, Shrinks
<1>2. f \in stood \ misled => Flat(f)
  BY DEF ClosedIsFlat, Flat, Alone
<1>3. CASE UNCHANGED vars
  BY <1>2, <1>3 DEF vars, Flat, Alone
<1>4. ASSUME NEW g \in Followups, FollowupStep(g) PROVE Flat(f)'
  <2>1. CASE g = f
    <3>1. fc[f] \in {"sold", "closed"} => FALSE
      BY <1>4, <2>1
         DEF FollowupStep, BeginFollowup, Parse, Look, SizeIt, CheckPosition,
             Sell, Price, CancelOld, RetryPrice, PlaceStop
    <3>2. QED BY <1>4, <2>1, <3>1, OwnStepFlat
  <2>2. CASE g # f
    <3>1. f \in stood \ misled /\ fc'[f] = fc[f]
      BY <1>4, <2>2
         DEF Inv, TypeOK, FollowupStep, BeginFollowup, Parse, Look, FindsNone,
             SizeIt, CheckPosition, Sell, Price, CancelOld, RetryPrice, PlaceStop,
             End, FollowTo, exchange
    <3>2. QED BY <1>2, <1>4, <3>1, FollowupFrame, FollowupShrinks, OtherStepFlat
  <2>3. QED BY <2>1, <2>2
<1>5. ASSUME NEW s \in Signals, EntryFills(s) PROVE Flat(f)'
  <2>1. f \in stood \ misled /\ fc' = fc
    BY <1>5 DEF EntryFills, followVars
  <2>2. order[TradeOf[f]] = "filled" /\ TradeOf[f] \in Signals
    BY <2>1, TradeAssumption DEF Inv, Underway
  <2>3. ~Alone(TradeOf[f])'
    BY <1>5, <2>2 DEF EntryFills, Alone, Inv, TypeOK
  <2>4. QED BY <2>3 DEF Flat
<1>6. ASSUME NEW g \in Followups, StopTriggers(g) PROVE Flat(f)'
  <2>1. f \in stood \ misled /\ fc' = fc /\ order' = order
    BY <1>6 DEF StopTriggers, followVars
  <2>2. pos' \in Int /\ Shrinks(pos, pos')
    BY <1>1, <1>6, ReducedShrinks DEF StopTriggers, Shrinks
  <2>3. QED BY <1>2, <2>1, <2>2, OtherStepFlat
<1>7. CASE \/ \E s \in Signals : SignalStep(s) \/ EntryEnds(s) \/ JobStoresSize(s)
           \/ CooldownEnds \/ Restart
  <2>1. f \in stood \ misled /\ pos' = pos /\ (fc'[f] \in {"sold", "closed"} => fc'[f] = fc[f])
    BY <1>7 DEF SignalStep, CheckCooldown, Check, SubmitRefused, SubmitAccepted,
                SubmitAnswerLost, Settled, EntryEnds, JobStoresSize, CooldownEnds,
                Restart, followVars, FollowupEnded
  <2>2. \A s \in Signals : order[s] = "filled" => order'[s] = "filled"
    BY <1>7 DEF SignalStep, CheckCooldown, Check, SubmitRefused, SubmitAccepted,
                SubmitAnswerLost, Settled, EntryEnds, JobStoresSize, CooldownEnds,
                Restart, Inv, TypeOK, Submitted
  <2>3. QED BY <1>1, <1>2, <2>1, <2>2, OtherStepFlat
<1>8. QED BY <1>3, <1>4, <1>5, <1>6, <1>7 DEF Next, Environment

\* Where a contract is named after its coin, a position_closed that is
\* answered as done leaves no position of a trade alone on the coin.
THEOREM DoneMeansFlat == SameName => (Spec => []ClosedIsFlat)
<1> SUFFICES ASSUME SameName PROVE Spec => []ClosedIsFlat
  OBVIOUS
<1>1. Init => ClosedIsFlat
  BY DEF Init, ClosedIsFlat
<1>2. Inv /\ ClosedIsFlat /\ [Next]_vars => ClosedIsFlat'
  BY NextFlat
<1>3. QED BY <1>1, <1>2, Inductive, PTL DEF Spec

-----------------------------------------------------------------------------
(* The refinement of PositionContract *)

Promised == [Contract!Promise]_(Contract!book)

\* Steps that neither fill nor end an entry: the position at most shrinks.
LEMMA ShrinksPromised ==
  ASSUME pos \in Int, pos' \in Int, Shrinks(pos, pos'),
         \A s \in Signals : /\ order'[s] = "filled" <=> order[s] = "filled"
                            /\ order'[s] = "gone" <=> order[s] = "gone"
  PROVE  Promised
<1>1. OrdersIn("filled")' = OrdersIn("filled") /\ OrdersIn("gone")' = OrdersIn("gone")
  BY DEF OrdersIn
<1>2. CASE pos' = pos
  BY <1>1, <1>2 DEF Promised, Contract!book
<1>3. CASE pos' # pos
  <2>1. (0 <= pos' /\ pos' < pos) \/ (pos < pos' /\ pos' <= 0)
    BY <1>3 DEF Shrinks
  <2>2. Contract!Reduce
    BY <1>1, <2>1 DEF Contract!Reduce
  <2>3. QED BY <2>2 DEF Promised, Contract!Promise
<1>4. QED BY <1>2, <1>3

LEMMA Sides ==
  ASSUME NEW s \in Signals
  PROVE  /\ s \in Contract!Entries
         /\ s \in OnSide("LONG") <=> SideOf[s] = "LONG"
BY SideAssumption DEF Contract!Entries, OnSide

LEMMA FillPromised ==
  ASSUME TypeOK, NEW s \in Signals, EntryFills(s)
  PROVE  Promised
<1>1. /\ s \notin OrdersIn("filled") \cup OrdersIn("gone")
      /\ OrdersIn("filled")' = OrdersIn("filled") \cup {s}
      /\ OrdersIn("gone")' = OrdersIn("gone")
  BY DEF EntryFills, TypeOK, OrdersIn
<1>2. pos' = IF s \in OnSide("LONG") THEN pos + 1 ELSE pos - 1
  BY Sides DEF EntryFills
<1>3. Contract!Enter(s)
  BY <1>1, <1>2 DEF Contract!Enter
<1>4. QED BY <1>3, Sides DEF Promised, Contract!Promise

LEMMA EndPromised ==
  ASSUME TypeOK, NEW s \in Signals, EntryEnds(s)
  PROVE  Promised
<1>1. /\ s \notin OrdersIn("filled") \cup OrdersIn("gone")
      /\ OrdersIn("gone")' = OrdersIn("gone") \cup {s}
      /\ OrdersIn("filled")' = OrdersIn("filled")
  BY DEF EntryEnds, TypeOK, OrdersIn
<1>2. Contract!Withdraw(s)
  BY <1>1 DEF EntryEnds, Contract!Withdraw
<1>3. QED BY <1>2, Sides DEF Promised, Contract!Promise

LEMMA NextPromised == Inv /\ [Next]_vars => Promised
<1> SUFFICES ASSUME Inv, [Next]_vars PROVE Promised
  OBVIOUS
<1>1. TypeOK /\ pos \in Int /\ Shrinks(pos, pos)
  BY MaxPositionNat DEF Inv, TypeOK, Shrinks
<1>2. ASSUME UNCHANGED <<order, pos>> PROVE Promised
  BY <1>1, <1>2, ShrinksPromised
\* A signal is submitted once: it had no order, and has one that rests.
<1>3. ASSUME NEW s \in Signals, SignalStep(s) PROVE Promised
  <2>1. UNCHANGED pos
    BY <1>3 DEF SignalStep, CheckCooldown, Check, SubmitRefused, SubmitAccepted,
                SubmitAnswerLost, Settled
  <2>2. \A r \in Signals : /\ order'[r] = "filled" <=> order[r] = "filled"
                           /\ order'[r] = "gone" <=> order[r] = "gone"
    BY <1>3 DEF Inv, TypeOK, Submitted, SignalStep, CheckCooldown, Check, SubmitRefused,
                SubmitAccepted, SubmitAnswerLost, Settled
  <2>3. QED BY <1>1, <2>1, <2>2, ShrinksPromised
<1>4. ASSUME NEW f \in Followups, FollowupStep(f) PROVE Promised
  <2>1. UNCHANGED order /\ pos' \in Int /\ Shrinks(pos, pos')
    BY <1>4, FollowupFrame, FollowupShrinks
  <2>2. QED BY <1>1, <2>1, ShrinksPromised
<1>5. ASSUME NEW f \in Followups, StopTriggers(f) PROVE Promised
  <2>1. UNCHANGED order /\ pos' \in Int /\ Shrinks(pos, pos')
    BY <1>1, <1>5, ReducedShrinks DEF StopTriggers
  <2>2. QED BY <1>1, <2>1, ShrinksPromised
<1>6. CASE Environment
  <2>1. ASSUME NEW s \in Signals, JobStoresSize(s) PROVE Promised
    BY <1>2, <2>1 DEF JobStoresSize
  <2>2. CASE CooldownEnds \/ Restart
    BY <1>2, <2>2 DEF CooldownEnds, Restart
  <2>3. QED BY <1>1, <1>5, <1>6, <2>1, <2>2, FillPromised, EndPromised DEF Environment
<1>7. CASE UNCHANGED vars
  BY <1>2, <1>7 DEF vars
<1>8. QED BY <1>3, <1>4, <1>6, <1>7 DEF Next

\* The contract counts as this module does.
LEMMA SameCount == \A S : Contract!Cardinality(S) = Cardinality(S)
BY DEF Contract!Cardinality, Cardinality

\* KucoinTradingEngine and KuCoin implement the promise about a coin's position:
\* each signal's entry counts once and in its own direction, one that ended
\* without a fill never, and no close or stop loss crosses zero, whatever size
\* it was given and in whatever unit.
THEOREM ImplementsPosition == Spec => PositionHeld
<1>1. Init => Contract!Begin
  <2> SUFFICES ASSUME Init PROVE Contract!Begin
    OBVIOUS
  <2>1. OrdersIn("filled") = {} /\ OrdersIn("gone") = {}
    BY DEF Init, OrdersIn
  <2>2. Contract!Net({}) = 1 * (Cardinality({}) - Cardinality({}))
    <3>1. Contract!Net({}) = 1 * (Contract!Cardinality({} \cap OnSide("LONG"))
                                  - Contract!Cardinality({} \cap OnSide("SHORT")))
      BY DEF Contract!Net
    <3>2. {} \cap OnSide("LONG") = {} /\ {} \cap OnSide("SHORT") = {}
      OBVIOUS
    <3>3. QED BY <3>1, <3>2, SameCount
  <2>3. pos = Contract!Net({})
    BY <2>2, FS_EmptySet DEF Init
  <2>4. QED BY <2>1, <2>3 DEF Contract!Begin
<1>2. Inv /\ [Next]_vars => [Contract!Promise]_(Contract!book)
  BY NextPromised DEF Promised
<1>3. QED BY <1>1, <1>2, Inductive, PTL DEF Spec, PositionHeld, Contract!Spec
=============================================================================
