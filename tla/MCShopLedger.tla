---------------------------- MODULE MCShopLedger ----------------------------
(* Small instances of ShopLedger; orders and payment ids are interchangeable. *)
EXTENDS ShopLedger, TLC

Permuted == Permutations(Orders) \cup Permutations(Payments)
=============================================================================
