--------------------------- MODULE EntryContract ---------------------------
(***************************************************************************)
(* What BuyBot promises about the entry of a signal, without the tasks,    *)
(* awaits and writes it is made of: a signal fails without an order, or    *)
(* enters the market with one order, whose id is then kept for ever and    *)
(* whose fill is learnt after it happened and never forgotten.  A failed   *)
(* signal may be tried again.  Overlapping deliveries, a lost answer of    *)
(* the exchange and a lost write of the order id void the promise.         *)
(***************************************************************************)
CONSTANTS Signals, OrderIds, None

VARIABLES
  held,     \* the orders a signal has at the exchange
  kept,     \* the order its row stores
  outcome,  \* what the row says
  filled    \* the orders the exchange has filled

contract == <<held, kept, outcome, filled>>

Outcomes == {"open", "failed", "executed", "void"}

Begin ==
  /\ held = [s \in Signals |-> {}]
  /\ kept = [s \in Signals |-> None]
  /\ outcome = [s \in Signals |-> "open"]
  /\ filled = {}

Enter(s, o) ==
  /\ outcome[s] = "open" /\ held[s] = {}
  /\ \A q \in Signals : o \notin held[q]
  /\ held' = [held EXCEPT ![s] = {o}]
  /\ UNCHANGED <<kept, outcome, filled>>

Store(s, o) ==
  /\ outcome[s] = "open" /\ held[s] = {o} /\ kept[s] = None
  /\ kept' = [kept EXCEPT ![s] = o]
  /\ UNCHANGED <<held, outcome, filled>>

Learn(s) ==
  /\ outcome[s] = "open" /\ kept[s] \in held[s] \cap filled
  /\ outcome' = [outcome EXCEPT ![s] = "executed"]
  /\ UNCHANGED <<held, kept, filled>>

FailSignal(s) ==
  /\ outcome[s] = "open" /\ held[s] = {}
  /\ outcome' = [outcome EXCEPT ![s] = "failed"]
  /\ UNCHANGED <<held, kept, filled>>

TryAgain(s) ==
  /\ outcome[s] = "failed"
  /\ outcome' = [outcome EXCEPT ![s] = "open"]
  /\ UNCHANGED <<held, kept, filled>>

Void(s) ==
  /\ outcome' = [outcome EXCEPT ![s] = "void"]
  /\ held' = [held EXCEPT ![s] = {}]
  /\ kept' = [kept EXCEPT ![s] = None]
  /\ UNCHANGED filled

FillOrder(o) ==
  /\ o \notin filled
  /\ filled' = filled \cup {o}
  /\ UNCHANGED <<held, kept, outcome>>

Promise ==
  \/ \E s \in Signals :
       \/ Learn(s) \/ FailSignal(s) \/ TryAgain(s) \/ Void(s)
       \/ \E o \in OrderIds : Enter(s, o) \/ Store(s, o)
  \/ \E o \in OrderIds : FillOrder(o)

Spec == Begin /\ [][Promise]_contract
=============================================================================
