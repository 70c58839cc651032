----------------------------- MODULE RowSyncMC ------------------------------
(* A row of each exchange, of the same coin. *)
EXTENDS RowSync

CONSTANTS b1, k1, btc

OneCoin == [t \in Trades |-> btc]
=============================================================================
