------------------------------ MODULE MCDelivery ------------------------------
(***************************************************************************)
(* Two pools of one label, an order line of two numbered pieces and one of *)
(* ordinary goods, a shipment of each piece and one of the goods; a task   *)
(* of each type; two cases for the same goods, one of them with refunds,   *)
(* and a draft of another company, which an edit may give a refund to.     *)
(***************************************************************************)
EXTENDS Delivery, TLC

CONSTANTS p1, p2, l1, l2, d1, d2, d3, t1, t2, t3, c1, c2, c3, f1, f2, dock, shelf, fit, unfit,
          k1, k2, k3, u1, u2, e1, e2

MCRule == p1 :> [start |-> 1, maximum |-> 4, excluded |-> {2}, label |-> "K"]
       @@ p2 :> [start |-> 3, maximum |-> 4, excluded |-> {}, label |-> "K"]
MCLimit == p1 :> 2 @@ p2 :> 2
MCSoldQty == [l \in SoldLines |-> 2]
MCLineOf == d1 :> l1 @@ d2 :> l2 @@ d3 :> l1
MCDeliveredQty == d1 :> 1 @@ d2 :> 2 @@ d3 :> 1
MCTaskType == t1 :> "pick" @@ t2 :> "pack" @@ t3 :> "putaway"
MCTaskDelivery == [t \in Tasks |-> d1]
MCCaseLine == c1 :> l2 @@ c2 :> l2 @@ c3 :> l1
MCRequestedQty == c1 :> 2 @@ c2 :> 1 @@ c3 :> 3
MCRequester == [c \in Cases |-> u1]
MCFirstCase == f1 :> c1 @@ f2 :> c1
MCCompanyOf == c1 :> "A" @@ c2 :> "A" @@ c3 :> "B"
MCStock == [b \in Balances |-> IF b = dock THEN 3 ELSE 0]
MCHeld == [b \in Balances |-> IF b = dock THEN 1 ELSE 0]
MCMade == {<<"K", 1>>, <<"K", 3>>}
MCHalls == {{"making", "holding"}, {"holding", "shipping"}, {"holding", "tasks"},
            {"shipping", "refunds", "returns"}}

\* The keys of clients, the provider's numbers and the two refunds are interchangeable.
Symmetry == Permutations({k1, k2}) \cup Permutations({e1, e2}) \cup Permutations({f1, f2})
=============================================================================
