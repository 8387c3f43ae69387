-------------------------- MODULE MCOrderFulfilment --------------------------
(***************************************************************************)
(* Order 1 has two lines stocked in two warehouses, order 2 one line that  *)
(* competes for the first; one account pays for both, and its limit is too *)
(* small for both.  Request 2 is a second, smaller confirmation of order   *)
(* 1; request 4 reuses a reservation number of another order, and request  *)
(* 3 its key, with the credit exception approved.                          *)
(***************************************************************************)
EXTENDS OrderFulfilment, TLC

CONSTANTS a1, b1, b2, l1, l2, l3, w1, w2, sku, k1, k2

MCAccounts == {a1}
MCAccountOf == <<a1, a1>>
MCPermanent == a1 :> 2
MCTemporary == a1 :> 1
MCReceivable == a1 :> 0
MCFrozen == {}
MCBalances == {b1, b2}
MCLines == {l1, l2, l3}
MCBalanceSku == [b \in MCBalances |-> sku]
MCLineSku == [l \in MCLines |-> sku]
MCWarehouseOf == b1 :> w1 @@ b2 :> w2
MCOrdered == l1 :> 2 @@ l2 :> 1 @@ l3 :> 1
MCOrderOf == l1 :> 1 @@ l2 :> 1 @@ l3 :> 2
MCOpening == b1 :> 2 @@ b2 :> 2
MCLocked == b1 :> 0 @@ b2 :> 1
MCDeltas == {-1, 1}
MCKeys == {k1, k2}

At(l, b) == [line |-> l, balance |-> b]
MCRequests == {
  [order |-> 1, key |-> k1, version |-> 1, place |-> <<At(l1, b1), At(l2, b2)>>,
   quantity |-> <<2, 1>>, credit |-> 2, counted |-> FALSE, approved |-> FALSE],
  [order |-> 1, key |-> k2, version |-> 1, place |-> <<At(l1, b1), At(l2, b2)>>,
   quantity |-> <<1, 0>>, credit |-> 2, counted |-> TRUE, approved |-> FALSE],
  [order |-> 2, key |-> k2, version |-> 1, place |-> <<At(l3, b1), At(l3, b1)>>,
   quantity |-> <<0, 1>>, credit |-> 2, counted |-> FALSE, approved |-> TRUE],
  [order |-> 2, key |-> k2, version |-> 1, place |-> <<At(l3, b2), At(l3, b1)>>,
   quantity |-> <<1, 0>>, credit |-> 2, counted |-> TRUE, approved |-> FALSE]}
=============================================================================
