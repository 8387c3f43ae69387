------------------------------- MODULE Serials -------------------------------
(***************************************************************************)
(* Goods that carry a number each: the pools they are numbered from, their *)
(* production, their reservation for an order line and their way into a    *)
(* shipment (products/serial_services.py), with the steps of a shipment    *)
(* that look at them (sales/fulfillment_services.py).                      *)
(*                                                                         *)
(* Each service locks the rows it decides on first, so that each is one    *)
(* action.  Of an order line and of a shipment only what these services    *)
(* read and write is here; OrderFulfilment has the rest.  A shipment has   *)
(* one line, and an order one.                                             *)
(***************************************************************************)
EXTENDS Integers, Sequences, FiniteSetsExt

CONSTANTS
  Pools,         \* prd_limited_edition_pool, all of one SKU
  Rule,          \* numbering_rule of a pool: [start, maximum, excluded, label]
  Limit,         \* total_limit of a pool
  Maker,         \* the pool of pieces that were made before
  SoldLines,     \* order lines
  SoldQty,       \* ordered_qty of a line
  Numbered,      \* the lines of the serialized SKU
  Deliveries,    \* shipments
  LineOf,        \* the order line of a shipment
  DeliveredQty,  \* quantity of a shipment
  AttemptKeys, ReserveKeys,   \* idempotency keys
  Batches        \* bound: quantities serials are generated in

ASSUME SerialsAssumption ==
  /\ \A p \in Pools : Rule[p].start \in Nat /\ Rule[p].maximum \in Nat
  /\ Limit \in [Pools -> Nat] /\ Maker \in Pools /\ Numbered \subseteq SoldLines
  /\ SoldQty \in [SoldLines -> Nat]
  /\ LineOf \in [Deliveries -> SoldLines] /\ DeliveredQty \in [Deliveries -> Nat]
  /\ Batches \subseteq Nat

VARIABLES
  pool,          \* [status, next, allocated, good] of a pool
  serial,        \* prd_product_serial: [pool, status], by number and label
  attempt,       \* prd_serial_production_attempt, by key: [serial, no, result]
  hold,          \* prd_serial_reservation, by key: [serial, line, status]
  parcel,        \* prd_serial_shipment_assignment, by serial: [hold, delivery, status]
  sold,          \* [shipped, cancelled, returned] of an order line
  delivery       \* [status, version] of a shipment

serialVars == <<pool, serial, attempt, hold, parcel, sold, delivery>>

PoolRow == [status : {"draft", "active"}, next : Nat, allocated : Nat, good : Nat]
SerialRow == [pool : Pools, status : {"waiting_production", "in_production", "in_stock", "reserved",
  "picked", "shipped", "ng", "waiting_rework", "waiting_reproduction", "scrapped", "void"}]
AttemptRow == [serial : DOMAIN serial, no : Nat, result : {"in_progress", "good", "ng"}]
HoldRow == [serial : DOMAIN serial, line : SoldLines, status : {"active", "released", "consumed"}]
SoldRow == [shipped : Nat, cancelled : Nat, returned : Nat]
ParcelRow == [hold : DOMAIN hold, delivery : Deliveries, status : {"assigned", "picked", "shipped"}]

\* Either nothing was made yet, or all pieces of the pool Maker are in stock,
\* each from one attempt (its key is the piece's own).
SerialsInit(made) ==
  /\ pool = [p \in Pools |->
       IF p = Maker /\ made # {}
       THEN [status |-> "active", next |-> Rule[p].maximum + 1, allocated |-> Cardinality(made),
             good |-> Cardinality(made)]
       ELSE [status |-> "draft", next |-> 1, allocated |-> 0, good |-> 0]]
  /\ serial = [s \in made |-> [pool |-> Maker, status |-> "in_stock"]]
  /\ attempt = [s \in made |-> [serial |-> s, no |-> 1, result |-> "good"]]
  /\ hold = <<>> /\ parcel = <<>>
  /\ sold = [l \in SoldLines |-> [shipped |-> 0, cancelled |-> 0, returned |-> 0]]
  /\ delivery = [d \in Deliveries |-> [status |-> "draft", version |-> 1]]

With(f, x, row) == [y \in DOMAIN f \cup {x} |-> IF y = x THEN row ELSE f[y]]
SetSerial(s, status) == serial' = [serial EXCEPT ![s].status = status]
-----------------------------------------------------------------------------
ActivatePool(p) ==
  /\ pool[p].status = "draft"
  /\ pool' = [pool EXCEPT ![p].status = "active", ![p].next = Rule[p].start]
  /\ UNCHANGED <<serial, attempt, hold, parcel, sold, delivery>>

\* The first n numbers from a candidate on that the rule does not leave out.
Free(p, from) == {i \in from..Rule[p].maximum : i \notin Rule[p].excluded}
Chosen(p, n) ==
  LET free == Free(p, IF pool[p].next > Rule[p].start THEN pool[p].next ELSE Rule[p].start)
  IN  {i \in free : Cardinality({j \in free : j <= i}) <= n}

\* A fault: the limit is held against the batch alone.
WithinLimit_Batch(p, n) == n <= Limit[p]
WithinLimit(p, n) == pool[p].allocated + n <= Limit[p]

\* generate_serials; two pools of a SKU whose labels are the same cannot both
\* give out a number (prd_serial_company_sku_no_uniq).
Generate(p, n) ==
  LET fresh == {<<Rule[p].label, i>> : i \in Chosen(p, n)} IN
  /\ pool[p].status = "active" /\ n > 0 /\ WithinLimit(p, n)
  /\ Cardinality(fresh) = n /\ fresh \cap DOMAIN serial = {}
  /\ serial' = [s \in DOMAIN serial \cup fresh |->
                  IF s \in fresh THEN [pool |-> p, status |-> "waiting_production"] ELSE serial[s]]
  /\ pool' = [pool EXCEPT ![p].next = Max(Chosen(p, n)) + 1, ![p].allocated = @ + n]
  /\ UNCHANGED <<attempt, hold, parcel, sold, delivery>>

AttemptsOf(s) == {k \in DOMAIN attempt : attempt[k].serial = s}

\* start_serial_production, for an order that is being produced.
StartProduction(s, k) ==
  /\ k \notin DOMAIN attempt
  /\ serial[s].status \in {"waiting_production", "ng", "waiting_reproduction", "waiting_rework"}
  /\ attempt' = With(attempt, k, [serial |-> s, no |-> Cardinality(AttemptsOf(s)) + 1,
                                  result |-> "in_progress"])
  /\ SetSerial(s, "in_production")
  /\ UNCHANGED <<pool, hold, parcel, sold, delivery>>

\* complete_serial_production; an attempt that has a result is left alone.
CompleteAttempt(k, result) ==
  LET s == attempt[k].serial
      p == serial[s].pool
  IN
  /\ attempt[k].result = "in_progress" /\ serial[s].status = "in_production"
  /\ attempt' = [attempt EXCEPT ![k].result = result]
  /\ SetSerial(s, IF result = "good" THEN "in_stock" ELSE "ng")
  /\ pool' = [pool EXCEPT ![p].good = IF result = "good" THEN @ + 1 ELSE @]
  /\ UNCHANGED <<hold, parcel, sold, delivery>>

DisposeNg(s, target) ==
  /\ serial[s].status = "ng"
  /\ SetSerial(s, target)
  /\ UNCHANGED <<pool, attempt, hold, parcel, sold, delivery>>
-----------------------------------------------------------------------------
HoldsOf(l, status) == {k \in DOMAIN hold : hold[k].line = l /\ hold[k].status = status}

\* What an order line may still reserve.
Open(l) == Cardinality(HoldsOf(l, "active")) < SoldQty[l] - sold[l].shipped - sold[l].cancelled

\* reserve_product_serial, of a serial the client names or the service chose.
Hold(l, k, s) ==
  /\ k \notin DOMAIN hold /\ l \in Numbered /\ Open(l)
  /\ serial[s].status = "in_stock"
  /\ hold' = With(hold, k, [serial |-> s, line |-> l, status |-> "active"])
  /\ SetSerial(s, "reserved")
  /\ UNCHANGED <<pool, attempt, parcel, sold, delivery>>

\* The lowest number in stock; a serial another request has locked is passed
\* over (skip_locked), so that a busy one may be left out.
AutoHold(l, k, busy) ==
  \E s \in DOMAIN serial \ busy :
    /\ \A r \in DOMAIN serial \ busy : serial[r].status = "in_stock" => s[2] <= r[2]
    /\ Hold(l, k, s)

\* A fault: a serial that is assigned to a shipment is released.
MayRelease_Always(k) == hold[k].status = "active"
MayRelease(k) == hold[k].status = "active" /\ \A s \in DOMAIN parcel : parcel[s].hold # k

ReleaseHold(k) ==
  /\ serial[hold[k].serial].status \in {"reserved", "picked"} /\ MayRelease(k)
  /\ hold' = [hold EXCEPT ![k].status = "released"]
  /\ SetSerial(hold[k].serial, "in_stock")
  /\ UNCHANGED <<pool, attempt, parcel, sold, delivery>>

Parcels(d) == {s \in DOMAIN parcel : parcel[s].delivery = d}

\* assign_serial_to_shipment; a serial is assigned once and for all (OneToOne).
Assign(k, d) ==
  LET s == hold[k].serial IN
  /\ \A r \in DOMAIN parcel : parcel[r].hold # k
  /\ hold[k].status = "active" /\ hold[k].line = LineOf[d] /\ delivery[d].status = "draft"
  /\ Cardinality(Parcels(d)) < DeliveredQty[d]
  /\ s \notin DOMAIN parcel
  /\ parcel' = With(parcel, s, [hold |-> k, delivery |-> d, status |-> "assigned"])
  /\ UNCHANGED <<pool, serial, attempt, hold, sold, delivery>>
-----------------------------------------------------------------------------
Step == [start_picking |-> <<"draft", "picking">>, complete_picking |-> <<"picking", "picked">>,
         verify |-> <<"picked", "verified">>]

\* Every piece of the shipment, no more and no fewer, in the state asked for.
Complete(d, status) ==
  Cardinality(Parcels(d)) = DeliveredQty[d] /\ \A s \in Parcels(d) : parcel[s].status = status

\* The serials of a shipment move on together with their assignments.
Carry(d, status) ==
  /\ serial' = [s \in DOMAIN serial |->
                  IF s \in Parcels(d) THEN [serial[s] EXCEPT !.status = status] ELSE serial[s]]
  /\ parcel' = [s \in DOMAIN parcel |->
                  IF s \in Parcels(d) THEN [parcel[s] EXCEPT !.status = status] ELSE parcel[s]]

\* transition_shipment.
MoveDelivery(d, expected, action) ==
  /\ delivery[d].version = expected /\ delivery[d].status = Step[action][1]
  /\ delivery' = [delivery EXCEPT ![d] = [status |-> Step[action][2], version |-> @.version + 1]]
  /\ IF action = "complete_picking" /\ LineOf[d] \in Numbered
     THEN Complete(d, "assigned") /\ Carry(d, "picked")
     ELSE UNCHANGED <<serial, parcel>>
  /\ UNCHANGED <<pool, attempt, hold, sold>>

\* ship_sales_shipment; what it takes is still reserved for the line
\* (consume_reservation).
ShipDelivery(d) ==
  LET l == LineOf[d] IN
  /\ delivery[d].status = "verified"
  /\ sold[l].shipped + sold[l].cancelled + DeliveredQty[d] <= SoldQty[l]
  /\ IF l \in Numbered
     THEN /\ Complete(d, "picked") /\ Carry(d, "shipped")
          /\ hold' = [k \in DOMAIN hold |->
                        IF \E s \in Parcels(d) : parcel[s].hold = k
                        THEN [hold[k] EXCEPT !.status = "consumed"] ELSE hold[k]]
     ELSE UNCHANGED <<serial, parcel, hold>>
  /\ sold' = [sold EXCEPT ![l].shipped = @ + DeliveredQty[d]]
  /\ delivery' = [delivery EXCEPT ![d] = [status |-> "shipped", version |-> @.version + 1]]
  /\ UNCHANGED <<pool, attempt>>

\* cancel_unshipped_order: it looks at no serial.
CancelLine(l) ==
  /\ sold[l].shipped = 0 /\ sold[l].cancelled = 0
  /\ sold' = [sold EXCEPT ![l].cancelled = SoldQty[l]]
  /\ UNCHANGED <<pool, serial, attempt, hold, parcel, delivery>>

MakingNext ==
  \/ \E p \in Pools : ActivatePool(p) \/ \E n \in Batches : Generate(p, n)
  \/ \E s \in DOMAIN serial :
       \/ \E k \in AttemptKeys : StartProduction(s, k)
       \/ \E t \in {"waiting_rework", "waiting_reproduction", "scrapped", "void"} : DisposeNg(s, t)
  \/ \E k \in DOMAIN attempt, result \in {"good", "ng"} : CompleteAttempt(k, result)

HoldingNext ==
  \/ \E l \in SoldLines, k \in ReserveKeys :
       \/ \E s \in DOMAIN serial : Hold(l, k, s)
       \/ \E busy \in SUBSET DOMAIN serial : AutoHold(l, k, busy)
  \/ \E k \in DOMAIN hold : ReleaseHold(k) \/ \E d \in Deliveries : Assign(k, d)

ShippingNext ==
  \/ \E d \in Deliveries, a \in DOMAIN Step : MoveDelivery(d, delivery[d].version, a)
  \/ \E d \in Deliveries : ShipDelivery(d)
  \/ \E l \in SoldLines : CancelLine(l)
-----------------------------------------------------------------------------
SerialsTypeOK ==
  /\ pool \in [Pools -> PoolRow]
  /\ \A s \in DOMAIN serial : serial[s] \in SerialRow
  /\ \A k \in DOMAIN attempt : attempt[k] \in AttemptRow
  /\ \A k \in DOMAIN hold : hold[k] \in HoldRow
  /\ \A s \in DOMAIN parcel : parcel[s] \in ParcelRow
  /\ sold \in [SoldLines -> SoldRow]

\* A pool counts what it gave out and what of it came out good; it gives out no
\* more than its limit, never a number its rule leaves out, and a number once
\* however often a production is tried (generate_serials,
\* complete_serial_production).
PoolsAreCounted ==
  SerialsTypeOK /\
  \A p \in Pools :
    LET mine == {s \in DOMAIN serial : serial[s].pool = p} IN
    /\ pool[p].allocated = Cardinality(mine) /\ pool[p].allocated <= Limit[p]
    /\ pool[p].good = Cardinality({s \in mine : \E k \in AttemptsOf(s) : attempt[k].result = "good"})
    /\ pool[p].good = Cardinality({k \in DOMAIN attempt :
                         attempt[k].serial \in mine /\ attempt[k].result = "good"})
    /\ \A s \in mine : s[2] \notin Rule[p].excluded /\ s[2] < pool[p].next

\* An order line of numbered goods has shipped as many pieces as it says, and
\* holds no more than it still waits for, unless it was cancelled meanwhile.
PiecesAreCounted ==
  \A l \in Numbered :
    /\ sold[l].shipped = Cardinality(HoldsOf(l, "consumed"))
    /\ sold[l].cancelled = 0 =>
         Cardinality(HoldsOf(l, "active")) + sold[l].shipped <= SoldQty[l]

\* A numbered piece is promised to one order line at most, from its reservation
\* to its delivery; it is in a shipment of that line, leaves with it, and the line
\* counts it (reserve_product_serial, release_product_serial, assign_serial_to_shipment,
\* transition_shipment, ship_sales_shipment).
PiecesHaveOneOwner ==
  /\ PiecesAreCounted
  /\ \A s \in DOMAIN serial :
       LET owners == {k \in DOMAIN hold : hold[k].serial = s /\ hold[k].status # "released"} IN
       /\ Cardinality(owners) = (IF serial[s].status \in {"reserved", "picked", "shipped"} THEN 1 ELSE 0)
       /\ \A k \in owners : hold[k].status = "consumed" <=> serial[s].status = "shipped"
       /\ s \in DOMAIN parcel =>
            /\ parcel[s].hold \in owners /\ hold[parcel[s].hold].line = LineOf[parcel[s].delivery]
            /\ serial[s].status = IF parcel[s].status = "assigned" THEN "reserved" ELSE parcel[s].status
       /\ serial[s].status \in {"picked", "shipped"} => s \in DOMAIN parcel
=============================================================================
