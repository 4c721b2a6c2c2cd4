--------------------------- MODULE MCOrderCreate ---------------------------
(***************************************************************************)
(* Small instances of OrderCreate: every order is worth 1; calls are only  *)
(* told apart by what they do.                                             *)
(***************************************************************************)
EXTENDS OrderCreate, TLC

OneEach == [k \in Keys |-> 1]

AnyCall == Permutations(Calls)
=============================================================================
