-------------------------- MODULE PositionContract --------------------------
(***************************************************************************)
(* What both engines promise about the one position an exchange keeps per  *)
(* coin, without the tasks, reads, retries and racing orders they are made *)
(* of: each trade enters once, with its whole amount, or withdraws; and    *)
(* whatever else is sent only takes the position nearer to zero and stops  *)
(* there.  FollowupSignal (Binance) and KucoinEngine implement it.         *)
(***************************************************************************)
EXTENDS Integers, FiniteSets

CONSTANTS Longs, Shorts, Amount

VARIABLES
  entered, withdrawn,  \* trades
  position             \* positive when long

book == <<entered, withdrawn, position>>

Entries == Longs \cup Shorts

\* What the entries of these trades make of no position.
Net(trades) ==
  Amount * (Cardinality(trades \cap Longs) - Cardinality(trades \cap Shorts))

Begin ==
  /\ entered \subseteq Entries /\ withdrawn \subseteq Entries \ entered
  /\ position = Net(entered)

Enter(t) ==
  /\ t \notin entered \cup withdrawn
  /\ entered' = entered \cup {t}
  /\ position' = IF t \in Longs THEN position + Amount ELSE position - Amount
  /\ UNCHANGED withdrawn

Withdraw(t) ==
  /\ t \notin entered \cup withdrawn
  /\ withdrawn' = withdrawn \cup {t}
  /\ UNCHANGED <<entered, position>>

Reduce ==
  /\ \/ 0 <= position' /\ position' < position
     \/ position < position' /\ position' <= 0
  /\ UNCHANGED <<entered, withdrawn>>

Promise == Reduce \/ \E t \in Entries : Enter(t) \/ Withdraw(t)

Spec == Begin /\ [][Promise]_book
=============================================================================
