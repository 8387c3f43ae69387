-------------------------------- MODULE MCSupply --------------------------------
(***************************************************************************)
(* One purchase order of two lines and one that a quote makes; two         *)
(* requisitions, each with a request for quotation that an edit may point  *)
(* to the other; two returns of the same line, one of them of goods that   *)
(* were accepted.  Three BOMs, three routings and two plans of one         *)
(* product; one production order of two pieces and two materials, and one  *)
(* more a suggestion makes; one outside order, one prepack order.          *)
(***************************************************************************)
EXTENDS Supply, TLC

CONSTANTS o1, o2, q1, q2, f1, f2, t1, t2, t3, u1, u2, r1, r2, k1, k2,
          m1, m2, good, bad, loose1, packed, box, w1, w2, w3, n1, n2, n3, g1, g2, po1, po2, s1, x1, p1

MCOpening == [b \in Balances |-> CASE b \in {m1, m2, box} -> 4 [] b = loose1 -> 2 [] b = good -> 1 [] OTHER -> 0]
MCHeld == [b \in Balances |-> IF b \in {good, m1} THEN 1 ELSE 0]
MCGood == [l \in Lines |-> good]
MCBad == [l \in Lines |-> bad]
Delivery(first, second) ==
  [l \in Lines |-> IF l = <<o1, 1>> THEN first
                                ELSE IF l = <<o1, 2>> THEN second ELSE 0]
MCDeliveries == {Delivery(1, 1), Delivery(1, 0)}
MCWanted == o1 :> <<2, 1>> @@ o2 :> <<1>>
MCReturnLines ==
  r1 :> {[line |-> <<o1, 1>>, balance |-> bad, qty |-> 1]} @@
  r2 :> {[line |-> <<o1, 1>>, balance |-> good, qty |-> 1]}
MCReturnOrder == r1 :> o1 @@ r2 :> o1
MCReturnRequester == r1 :> u1 @@ r2 :> u1
MCRequester == [q \in Requisitions |-> u1]
MCFirstFor == f1 :> q1 @@ f2 :> q2
MCRequested == q1 :> <<2, 1>> @@ q2 :> <<1>>
MCQuotedFor == t1 :> q1 @@ t2 :> q1 @@ t3 :> q2
MCQuoted == t1 :> <<2, 1>> @@ t2 :> <<3, 1>> @@ t3 :> <<1>>
MCScope == [v \in Versions |-> "product"]
MCWindow == [v \in Versions |-> IF v \in {w2, n2} THEN [from |-> 1, to |-> 3]
  ELSE IF v \in {w3, n3} THEN [from |-> 2, to |-> 4] ELSE [from |-> 0, to |-> 2]]
MCWindows == {[from |-> 2, to |-> 3]}
MCBomOf == po1 :> w1 @@ po2 :> w2
MCRoutingOf == [o \in ProdOrders |-> n1]
MCPlanned == [o \in ProdOrders |-> 2]
MCPerUnit == <<1, 1>>
MCComponentAt == <<m1, m2>>
MCIssues == {<<2, 2>>, <<1, 1>>, <<0, 1>>}
MCOutputs == {[good |-> 1, rejected |-> 0], [good |-> 1, rejected |-> 1], [good |-> 0, rejected |-> 1]}
MCUses == {<<1, 1>>, <<2, 1>>, <<2, 2>>}
MCSent == [s \in SubOrders |-> {[material |-> 1, balance |-> box, qty |-> 1]}]
MCOrderedQty == [s \in SubOrders |-> 2]
MCSubRequester == [s \in SubOrders |-> u1]
MCPlanOf == [p \in Packs |-> g1]
MCPackPlanned == [p \in Packs |-> 2]
MCItemAt == <<box>>
MCUsed == {<<1>>, <<2>>}
MCBack == {<<0>>, <<1>>}
MCPlants == {{"sourcing"}, {"buying"}, {"versions", "suggestions"},
             {"production", "suggestions"}, {"outside", "packing"}}

\* The keys of a client are interchangeable.
KeySymmetry == Permutations({k1, k2})
=============================================================================
