-------------------------- MODULE InitialSignalMC --------------------------
(***************************************************************************)
(* Instances of InitialSignal: signal s1 is delivered up to three times,   *)
(* s2 once, both for the same coin, by different traders.               *)
(***************************************************************************)
EXTENDS InitialSignalContract, TLC

CONSTANTS d1, d2, d3, s1, s2, c1, t1, t2, o1, o2, o3

\* Deliveries of one signal.
DuplicateSignalOf == [d \in Deliveries |-> s1]
DuplicateCoinOf == s1 :> c1
DuplicateTraderOf == s1 :> t1

\* The deliveries of one signal are interchangeable, and so are order ids:
\* only safety is checked under this symmetry.
DuplicateSymmetry == Permutations(Deliveries) \cup Permutations(OrderIds)

\* Two signals of two traders for one coin.
RivalSignalOf == d1 :> s1 @@ d2 :> s2
RivalCoinOf == s1 :> c1 @@ s2 :> c1
RivalTraderOf == s1 :> t1 @@ s2 :> t2
=============================================================================
