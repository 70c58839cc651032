---------------------------- MODULE OrderSyncMC ----------------------------
(***************************************************************************)
(* Instances of OrderSync: one reader and two or three stop losses.        *)
(***************************************************************************)
EXTENDS OrderSync

CONSTANTS r1, s1, s2, s3
=============================================================================
