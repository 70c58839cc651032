--------------------------- MODULE KucoinEngineMC ---------------------------
(* Instances of KucoinEngine: two trades on a coin, of equal or opposite   *)
(* sides, and two follow-ups about the first of them.                      *)
EXTENDS KucoinEngine, TLC

CONSTANTS s1, s2, f1, f2

BothOnFirst == (f1 :> s1) @@ (f2 :> s1)
OppositeSides == (s1 :> "LONG") @@ (s2 :> "SHORT")
EqualSides == (s1 :> "LONG") @@ (s2 :> "LONG")
=============================================================================
