-------------------------- MODULE MCOrderLifecycle --------------------------
(***************************************************************************)
(* Small instances of OrderLifecycle.  ShopOf is given by OneShop (every   *)
(* order belongs to the same shop, so recalcShopDebt makes its handlers    *)
(* wait for each other) or by OwnShops (each order has a shop of its own). *)
(***************************************************************************)
EXTENDS OrderLifecycle, TLC

CONSTANTS o1, o2, s1, s2

MCOrders == {o1, o2}
OneOrder == {o1}
MCShops  == {s1, s2}

OneShop  == [o \in MCOrders |-> s1]
OnlyShop == [o \in OneOrder |-> s1]
OwnShops == (o1 :> s1) @@ (o2 :> s2)

AllStatuses == OpenStatuses \cup ClosedStatuses

\* Statuses that differ in what they do to the stock: one or two open ones.
FewStatuses == {"new", "shipped", "delivered", "cancelled"}
=============================================================================
