----------------------- MODULE InitialSignalContract -----------------------
(***************************************************************************)
(* InitialSignal implements EntryContract.  The promise about a signal is  *)
(* void from the moment the history variable clean[s] is FALSE.            *)
(***************************************************************************)
EXTENDS InitialSignal

OrdersOf(s) == {o \in OrderIds : ord[o].sig = s}

\* What the rest of the program can read from a row nobody works on.
OutcomeOf(s) ==
  IF ~clean[s] THEN "void"
  ELSE IF row[s].oid # None
       THEN IF row[s].order = "FILLED" THEN "executed" ELSE "open"
  ELSE IF row[s].status = "FAILED" /\ WorkingOn(s) = {} THEN "failed"
  ELSE "open"

Held == [s \in Signals |-> IF clean[s] THEN OrdersOf(s) ELSE {}]
Kept == [s \in Signals |-> IF clean[s] THEN row[s].oid ELSE None]
Outcome == [s \in Signals |-> OutcomeOf(s)]
Filled == {o \in OrderIds : ord[o].filled}

Contract == INSTANCE EntryContract WITH
  held <- Held, kept <- Kept, outcome <- Outcome, filled <- Filled

\* Whatever the awaits, retries, redeliveries and events in between, what
\* process_initial_signal and the fills do to the orders of a signal and to
\* its row is one order entered, stored and filled in this order, or a
\* failure without an order.
ContractHolds == Contract!Spec
=============================================================================
