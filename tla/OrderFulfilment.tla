--------------------------- MODULE OrderFulfilment ---------------------------
(***************************************************************************)
(* A sales order from draft to delivery: sales/services.py (confirm),      *)
(* sales/cancellation_services.py, sales/fulfillment_services.py and the   *)
(* creation of shipments in sales/serializers.py.  It composes the stock   *)
(* side, Reservations, with the credit side, CreditLines: every action     *)
(* below is one database transaction, and calls their batches.             *)
(*                                                                         *)
(* Creating a shipment is two steps: the request is validated against rows *)
(* it neither locks nor reads again, and inserted later by a transaction   *)
(* of its own.  In between the shipment has the status "validated", which  *)
(* no row of the database shows.                                           *)
(***************************************************************************)
EXTENDS Reservations, CreditLines, Sequences, FiniteSets

CONSTANTS
  OrderOf,       \* the order of a line; orders are numbered 1..NO
  WarehouseOf,   \* the warehouse of a balance
  Requests,      \* confirmation requests clients send, as often as they like
  Keys,          \* idempotency keys of confirmations and of shipments
  NoKey

Orders == 1..NO
Shipments == 1..NS

ASSUME OrderAssumption ==
  /\ OrderOf \in [Lines -> Orders]
  /\ \A o \in Orders : \E l \in Lines : OrderOf[l] = o
  /\ \A l \in Lines : Ordered[l] > 0
  /\ NoKey \notin Keys
  /\ \A r \in Requests :
       /\ r.order \in Orders /\ r.key \in Keys /\ r.version \in Nat
       /\ r.place \in [Rows -> [line : Lines, balance : Balances]]
       /\ r.quantity \in Quantities
       /\ r.credit \in 0..MaxAmount /\ r.counted \in BOOLEAN /\ r.approved \in BOOLEAN

VARIABLES
  order,         \* status and version of each order
  history,       \* sal_order_status_history: the rows of each order
  confirmation,  \* sal_order_confirmation, by idempotency key
  shipment       \* sal_shipment with its lines

oVars == <<order, history, confirmation, shipment>>
vars == <<rVars, cVars, oVars>>

LinesOf(o) == {l \in Lines : OrderOf[l] = o}
RowsOf(o) == {n \in Rows : reservation[n].line \in LinesOf(o)}

\* A fault: one reserved line is enough.
TargetStatus_AnyLine(o, ln) ==
  IF \E l \in LinesOf(o) : ln[l].reserved > 0 THEN "allocated" ELSE "confirmed"

\* _target_status, on the lines as the allocations of the request left them.
TargetStatus(o, ln) ==
  IF \A l \in LinesOf(o) : ln[l].reserved = Ordered[l] THEN "allocated"
  ELSE IF \E l \in LinesOf(o) : ln[l].reserved > 0 THEN "allocating"
  ELSE "confirmed"

\* A fault: no new version.
MoveOrder_SameVersion(o, s) ==
  /\ order' = [order EXCEPT ![o].status = s]
  /\ history' = [history EXCEPT ![o] = Append(@, <<order[o].status, s>>)]

\* The order takes status s; a row of the history records it.
MoveOrder(o, s) ==
  /\ order' = [order EXCEPT ![o] = [status |-> s, version |-> @.version + 1]]
  /\ history' = [history EXCEPT ![o] = Append(@, <<order[o].status, s>>)]

NoConfirmation == [order |-> 0, version |-> 0, result |-> "none"]
NoShipment == [status |-> "none", version |-> 0, order |-> 0, key |-> NoKey,
               quantity |-> [n \in Rows |-> 0]]

OInit ==
  /\ RInit /\ CInit
  /\ order = [o \in Orders |-> [status |-> "draft", version |-> 1]]
  /\ history = [o \in Orders |-> <<>>]
  /\ confirmation = [k \in Keys |-> NoConfirmation]
  /\ shipment = [s \in Shipments |-> NoShipment]
-----------------------------------------------------------------------------
\* confirm_sales_order with a key not seen before.  A reservation number that
\* already exists is skipped without a word (reservation_services.py:30-34).
Confirm(r) ==
  LET o == r.order
      fresh == [n \in Rows |-> IF reservation[n] = EmptyRow THEN r.quantity[n] ELSE 0]
  IN
  /\ confirmation[r.key] = NoConfirmation
  /\ order[o].status = "draft" /\ order[o].version = r.version
  /\ \A n \in Rows : r.quantity[n] > 0 => r.place[n].line \in LinesOf(o)
  /\ \A l \in LinesOf(o) :
       Total([n \in Rows |-> IF r.place[n].line = l THEN r.quantity[n] ELSE 0], NR) <= Ordered[l]
  /\ ReserveAll(r.place, fresh)
  /\ IF r.credit = 0 THEN UNCHANGED cVars
     ELSE CommitCredit(o, r.credit, r.counted, r.approved)
  /\ MoveOrder(o, TargetStatus(o, line'))
  /\ confirmation' = [confirmation EXCEPT ![r.key] =
       [order |-> o, version |-> order'[o].version, result |-> order'[o].status]]
  /\ UNCHANGED shipment

\* The part of cancel_unshipped_order that frees the order's credit.
FreeCredit(o) ==
  IF commitment[o].status = "active" THEN ReleaseCredit(o, Outstanding(commitment[o]))
  ELSE UNCHANGED cVars

\* cancel_unshipped_order: everything the order holds goes back at once.
Cancel(o) ==
  /\ order[o].status \notin {"completed", "cancelled"}
  /\ \A l \in LinesOf(o) : line[l].shipped = 0
  /\ ReleaseAll([n \in Rows |-> IF n \in RowsOf(o) /\ reservation[n].status = "active"
                                THEN Remaining(reservation[n]) ELSE 0],
                LinesOf(o))
  /\ FreeCredit(o)
  /\ MoveOrder(o, "cancelled")
  /\ UNCHANGED <<confirmation, shipment>>
-----------------------------------------------------------------------------
\* Shipments whose lines SalesShipmentSerializer.validate counts as pending.
Pending(n) ==
  Total([s \in Shipments |->
           IF shipment[s].status \in {"draft", "picking", "picked", "verified"}
           THEN shipment[s].quantity[n] ELSE 0], NS)

\* SalesShipmentSerializer.validate: the request asks for q of the order's
\* reservations, and passes.
ValidateShipment(s, o, q) ==
  LET asked == {n \in Rows : q[n] > 0} IN
  /\ shipment[s] = NoShipment
  /\ asked # {} /\ asked \subseteq RowsOf(o)
  /\ \A n, m \in asked :
       WarehouseOf[reservation[n].balance] = WarehouseOf[reservation[m].balance]
  /\ \A n \in asked : q[n] <= Remaining(reservation[n]) - Pending(n)
  /\ shipment' = [shipment EXCEPT ![s] =
       [status |-> "validated", version |-> 0, order |-> o, key |-> NoKey, quantity |-> q]]
  /\ UNCHANGED <<rVars, cVars, order, history, confirmation>>

\* SalesShipmentSerializer.create.
InsertShipment(s) ==
  /\ shipment[s].status = "validated"
  /\ shipment' = [shipment EXCEPT ![s].status = "draft", ![s].version = 1]
  /\ UNCHANGED <<rVars, cVars, order, history, confirmation>>

\* The steps of transition_shipment's three actions.
Transitions == {<<"draft", "picking">>, <<"picking", "picked">>, <<"picked", "verified">>}

\* The statuses an order leaves when its first shipment is picked.
Waiting == {"confirmed", "allocating", "allocated"}

\* transition_shipment: start_picking, complete_picking and verify.  The first
\* one also moves its order, unless that is already being fulfilled or over.
TransitionShipment(s, step, expected) ==
  LET o == shipment[s].order IN
  /\ shipment[s].status = step[1] /\ shipment[s].version = expected
  /\ shipment' = [shipment EXCEPT ![s].status = step[2], ![s].version = @ + 1]
  /\ IF step[1] = "draft" /\ order[o].status \in Waiting
     THEN MoveOrder(o, "fulfilling")
     ELSE UNCHANGED <<order, history>>
  /\ UNCHANGED <<rVars, cVars, confirmation>>

\* The status of an order after a shipment, on the lines as it left them.  A fault:
\* having nothing reserved any more completes it.
DeliveryStatus_NoneHeld(o, ln) ==
  IF \A l \in LinesOf(o) : ln[l].reserved = 0 THEN "completed" ELSE "fulfilling"
DeliveryStatus(o, ln) ==
  IF \A l \in LinesOf(o) : ln[l].shipped + ln[l].cancelled = Ordered[l]
  THEN "completed" ELSE "fulfilling"

\* ship_sales_shipment under a key no shipment has used.
Ship(s, k) ==
  LET o == shipment[s].order
      status == DeliveryStatus(o, line')
  IN
  /\ \A t \in Shipments : shipment[t].key # k
  /\ shipment[s].status = "verified"
  /\ ConsumeAll(s, shipment[s].quantity)
  /\ order' = [order EXCEPT ![o] = [status |-> status, version |-> @.version + 1]]
  /\ history' = IF status = order[o].status THEN history
                ELSE [history EXCEPT ![o] = Append(@, <<order[o].status, status>>)]
  /\ shipment' = [shipment EXCEPT ![s].status = "shipped", ![s].key = k,
                                  ![s].version = @ + 1]
  /\ UNCHANGED <<cVars, confirmation>>

\* Stock moves outside of sales: receipts, transfers, counts, production.
Restock(a, b, delta) == AdjustOnHand(a, b, delta) /\ UNCHANGED <<cVars, oVars>>

ONext ==
  \/ \E r \in Requests : Confirm(r)
  \/ \E o \in Orders : Cancel(o)
  \/ \E s \in Shipments, o \in Orders, q \in Quantities : ValidateShipment(s, o, q)
  \/ \E s \in Shipments : InsertShipment(s)
  \/ \E s \in Shipments, step \in Transitions, expected \in 1..3 :
       TransitionShipment(s, step, expected)
  \/ \E s \in Shipments, k \in Keys : Ship(s, k)
  \/ \E a \in 1..NA, b \in Balances, delta \in Deltas : Restock(a, b, delta)

OSpec == OInit /\ [][ONext]_vars
-----------------------------------------------------------------------------
OTypeOK ==
  /\ RTypeOK /\ CTypeOK
  /\ order \in [Orders -> [status : {"draft", "confirmed", "allocating", "allocated",
                                     "fulfilling", "completed", "cancelled"},
                           version : Nat]]
  /\ \A o \in Orders : \A i \in 1..Len(history[o]) : history[o][i][1] # history[o][i][2]
  /\ confirmation \in [Keys -> [order : 0..NO, version : Nat,
                                result : {"none", "confirmed", "allocating", "allocated"}]]
  /\ shipment \in [Shipments -> [status : {"none", "validated", "draft", "picking",
                                           "picked", "verified", "shipped"},
                                 version : Nat, order : 0..NO, key : Keys \cup {NoKey},
                                 quantity : [Rows -> Nat]]]

\* A cancelled order holds no stock and no credit, delivered nothing, and every
\* line of it is cancelled, whatever shipments of it were being picked when
\* cancel_unshipped_order ran (cancellation_services.py).
CancelledHoldsNothing ==
  \A o \in Orders : order[o].status = "cancelled" =>
    /\ \A l \in LinesOf(o) : /\ line[l].reserved = 0 /\ line[l].shipped = 0
                              /\ line[l].cancelled = Ordered[l]
    /\ \A n \in RowsOf(o) : reservation[n].status = "released" /\ reservation[n].consumed = 0
    /\ Outstanding(commitment[o]) = 0

\* An order is completed exactly when every unit of it left the stock: the last
\* of its shipments completes it, in whatever order they are shipped, and
\* nothing of it stays reserved.
CompletedIsDelivered ==
  \A o \in Orders :
    order[o].status = "completed" <=>
      \A l \in LinesOf(o) : line[l].shipped = Ordered[l] /\ line[l].reserved = 0

\* "Allocated" promises a full reservation: a request whose reservation number
\* was already taken does not earn it (confirm_sales_order, _target_status).
AllocatedIsReserved ==
  \A o \in Orders :
    /\ order[o].status = "allocated" => \A l \in LinesOf(o) : line[l].reserved = Ordered[l]
    /\ order[o].status = "confirmed" => \A l \in LinesOf(o) : line[l].reserved = 0

\* The status of an order tells what is reserved and delivered of it.
StatusTellsLines == CancelledHoldsNothing /\ CompletedIsDelivered /\ AllocatedIsReserved

\* An order that left draft by confirmation has one confirmation, whichever key
\* won; it says what the order became, and no draft has one.
ConfirmedOnce ==
  \A o \in Orders :
    LET keys == {k \in Keys : confirmation[k].order = o} IN
    IF \E i \in 1..Len(history[o]) : history[o][i][1] = "draft" /\ history[o][i][2] # "cancelled"
    THEN \E k \in Keys : keys = {k} /\ confirmation[k].result = history[o][1][2]
                                    /\ confirmation[k].version = 2
    ELSE keys = {}

\* The order keeps the promise of OrderPromise.
Promise == INSTANCE OrderPromise WITH
  phase <- [o \in Orders |->
              CASE order[o].status = "draft" -> "draft"
                [] order[o].status = "completed" -> "completed"
                [] order[o].status = "cancelled" -> "withdrawn"
                [] OTHER -> "open"],
  delivered <- [l \in Lines |-> line[l].shipped]

KeepsPromise == Promise!PSpec

\* SalesShipmentSerializer.validate (serializers.py:165-169) refuses a line when
\* "quantity > reservation.remaining_qty - pending": the shipments being picked
\* never ask for more of a reservation than remains of it.
PendingFits == \A n \in Rows : Pending(n) <= Remaining(reservation[n])
=============================================================================
