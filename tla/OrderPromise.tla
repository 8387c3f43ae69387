---------------------------- MODULE OrderPromise ----------------------------
(***************************************************************************)
(* What a sales order promises its customer, with no stock, reservation or *)
(* shipment in sight: an order is accepted once, delivers no more than was *)
(* ordered, is completed by the delivery that finishes it and by nothing   *)
(* else, and can be withdrawn only while nothing was delivered.            *)
(* OrderFulfilment implements it.                                          *)
(***************************************************************************)
EXTENDS Integers

CONSTANTS Orders, Lines, OrderOf, Ordered

VARIABLES
  phase,         \* of each order: "draft", "open", "completed", "withdrawn"
  delivered      \* of each line

pVars == <<phase, delivered>>

Own(o) == {l \in Lines : OrderOf[l] = o}

PInit ==
  /\ phase = [o \in Orders |-> "draft"]
  /\ delivered = [l \in Lines |-> 0]

Accept(o) ==
  /\ phase[o] = "draft"
  /\ phase' = [phase EXCEPT ![o] = "open"]
  /\ UNCHANGED delivered

\* One delivery brings more of some lines of one open order.
Deliver(o) ==
  /\ phase[o] = "open"
  /\ \E l \in Own(o) : delivered'[l] > delivered[l]
  /\ \A l \in Lines : delivered'[l] \in delivered[l]..(IF OrderOf[l] = o THEN Ordered[l]
                                                       ELSE delivered[l])
  /\ DOMAIN delivered' = Lines
  /\ phase' = [phase EXCEPT ![o] =
       IF \A l \in Own(o) : delivered'[l] = Ordered[l] THEN "completed" ELSE "open"]

Withdraw(o) ==
  /\ phase[o] \in {"draft", "open"}
  /\ \A l \in Own(o) : delivered[l] = 0
  /\ phase' = [phase EXCEPT ![o] = "withdrawn"]
  /\ UNCHANGED delivered

PNext == \E o \in Orders : Accept(o) \/ Deliver(o) \/ Withdraw(o)

PSpec == PInit /\ [][PNext]_pVars
=============================================================================
