-------------------------- MODULE FollowupSignalMC --------------------------
(* Instances of FollowupSignal: one alert about the trade t1, delivered    *)
(* once or twice; t2 is another trade on the coin.                         *)
EXTENDS FollowupSignal, TLC

CONSTANTS d1, d2, a1, t1, t2

OneDelivery == d1 :> a1
TwoDeliveries == (d1 :> a1) @@ (d2 :> a1)
OneTrade == a1 :> t1

DuplicateSymmetry == Permutations(Deliveries)
=============================================================================
