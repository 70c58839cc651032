---------------------------- MODULE SignalRoutingMC ----------------------------
(* An instance of SignalRouting: the signals of "@-Tareeq", a name whose    *)
(* lower case does not find the row under the name itself, among signals    *)
(* that come with the name in lower case and find the row under that only.  *)
EXTENDS SignalRouting, TLC

CONSTANTS s1, f1, bin, kuc

OneTrade == f1 :> s1
BothExchanges == (bin :> "binance") @@ (kuc :> "kucoin")
Contents == ("@-Tareeq" :> {bin, kuc}) @@ ("@-tareeq" :> {kuc})
Lowered == ("@-Tareeq" :> "@-tareeq") @@ ("@-tareeq" :> "@-tareeq")
Tareeq == ("@-Tareeq" :> {"@-Tareeq", "@-tareeq"}) @@ ("@-tareeq" :> {"@-tareeq"})
=============================================================================
