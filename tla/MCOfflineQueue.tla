--------------------------- MODULE MCOfflineQueue ---------------------------
(***************************************************************************)
(* Small instances of OfflineQueue: every order is worth 1.                *)
(***************************************************************************)
EXTENDS OfflineQueue, TLC

OneEach == [k \in Keys |-> 1]
=============================================================================
