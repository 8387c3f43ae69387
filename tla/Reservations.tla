---------------------------- MODULE Reservations ----------------------------
(***************************************************************************)
(* Stock on hand, what sales orders have reserved of it, and the ledger    *)
(* that explains it: inventory/services.py, inventory/reservation_         *)
(* services.py and the tables they write.                                  *)
(*                                                                         *)
(* Every service call runs inside the transaction of its caller: a         *)
(* confirmation reserves for each allocation, a cancellation releases each *)
(* open reservation, a shipment consumes for each of its lines.  An action *)
(* here is therefore a batch: q[n] is the quantity the transaction moves   *)
(* on reservation n, 0 where it leaves the reservation alone.  The rows a  *)
(* call touches are locked until the commit, so a batch is one step;       *)
(* OrderLocking models the locks themselves.                               *)
(*                                                                         *)
(* Reservation numbers, shipments and adjustment keys are numbered 1..NR,  *)
(* 1..NS and 1..NA.  Quantities are whole units, at most MaxQty a move.    *)
(***************************************************************************)
EXTENDS Totals

CONSTANTS
  Balances,      \* inv_balance rows
  Lines,         \* sales_order_line rows
  NR,            \* bound: reservation numbers in use
  NS,            \* bound: shipments that can consume
  NA,            \* bound: idempotency keys of stock adjustments
  MaxQty,        \* bound: the most one call moves on one reservation
  Deltas,        \* the changes an adjustment may make to stock on hand
  BalanceSku,    \* the SKU of a balance
  LineSku,       \* the SKU of an order line
  Ordered,       \* ordered_qty of a line
  Opening,       \* on_hand_qty of a balance when the system starts
  Locked,        \* locked_qty of a balance: no code of the program writes it
  NoRow          \* the balance, line or status of a row that does not exist

ASSUME RowsAssumption == NR \in Nat /\ NS \in Nat /\ NA \in Nat /\ MaxQty \in Nat
ASSUME StockAssumption ==
  /\ Ordered \in [Lines -> Nat]
  /\ Opening \in [Balances -> Nat] /\ Locked \in [Balances -> Nat]
  /\ \A b \in Balances : Locked[b] <= Opening[b]
  /\ Deltas \subseteq Int
  /\ NoRow \notin Balances \cup Lines \cup {"active", "consumed", "released"}

VARIABLES
  balance,       \* on hand and reserved quantity of each balance
  line,          \* reserved, shipped and cancelled quantity of each line
  reservation,   \* inv_reservation, by number
  issue,         \* ledger rows of shipments: issue[s][n] left stock for n
  adjustment     \* ledger rows of adjustments, by idempotency key

rVars == <<balance, line, reservation, issue, adjustment>>

Rows == 1..NR
Quantities == [Rows -> 0..MaxQty]

\* InventoryReservation.remaining_qty and InventoryBalance.physical_free_qty.
Remaining(r) == r.reserved - r.consumed - r.released
Free(b) == balance[b].onHand - balance[b].reserved - Locked[b]

\* What the batch q moves on balance b, and on line l, given the rows of res.
QtyOn(b, res, q) == Total([n \in Rows |-> IF res[n].balance = b THEN q[n] ELSE 0], NR)
QtyOf(l, res, q) == Total([n \in Rows |-> IF res[n].line = l THEN q[n] ELSE 0], NR)

\* A fault: a partial quantity closes the whole reservation.
Settled_Closes(r, done) ==
  IF done = "released" THEN [r EXCEPT !.status = done, !.released = r.reserved - r.consumed]
  ELSE [r EXCEPT !.status = done, !.consumed = r.reserved - r.released]

\* The status a reservation takes when nothing of it remains.
Settled(r, done) == [r EXCEPT !.status = IF Remaining(r) = 0 THEN done ELSE "active"]

EmptyRow == [status |-> NoRow, line |-> NoRow, balance |-> NoRow,
             reserved |-> 0, consumed |-> 0, released |-> 0]

RInit ==
  /\ balance = [b \in Balances |-> [onHand |-> Opening[b], reserved |-> 0]]
  /\ line = [l \in Lines |-> [reserved |-> 0, shipped |-> 0, cancelled |-> 0]]
  /\ reservation = [n \in Rows |-> EmptyRow]
  /\ issue = [s \in 1..NS |-> [n \in Rows |-> 0]]
  /\ adjustment = [a \in 1..NA |-> [balance |-> NoRow, delta |-> 0]]

\* reserve_inventory for each n with q[n] > 0, on the line and balance place[n]
\* names.  The last guard is the CHECK of sales_order_line: a reservation that
\* broke it would roll the transaction back.
ReserveAll(place, q) ==
  LET made == [n \in Rows |->
                 IF q[n] = 0 THEN reservation[n]
                 ELSE [status |-> "active", line |-> place[n].line,
                       balance |-> place[n].balance,
                       reserved |-> q[n], consumed |-> 0, released |-> 0]]
  IN
  /\ \A n \in Rows : q[n] > 0 =>
       /\ reservation[n] = EmptyRow
       /\ BalanceSku[place[n].balance] = LineSku[place[n].line]
  /\ \A b \in Balances : QtyOn(b, made, q) <= Free(b)
  /\ \A l \in Lines : line[l].reserved + line[l].shipped + line[l].cancelled
                        + QtyOf(l, made, q) <= Ordered[l]
  /\ reservation' = made
  /\ balance' = [b \in Balances |->
                   [balance[b] EXCEPT !.reserved = @ + QtyOn(b, made, q)]]
  /\ line' = [l \in Lines |-> [line[l] EXCEPT !.reserved = @ + QtyOf(l, made, q)]]
  /\ UNCHANGED <<issue, adjustment>>

\* release_reservation for each n with q[n] > 0; the lines in dropped are
\* cancelled by the same transaction, which the CHECK of sales_order_line allows
\* when nothing of them stays reserved or was shipped.
ReleaseAll(q, dropped) ==
  /\ \A n \in Rows : q[n] <= Remaining(reservation[n])
  /\ \A l \in dropped :
       line[l].reserved = QtyOf(l, reservation, q) /\ line[l].shipped = 0
  /\ reservation' = [n \in Rows |->
       IF q[n] = 0 THEN reservation[n]
       ELSE Settled([reservation[n] EXCEPT !.released = @ + q[n]], "released")]
  /\ balance' = [b \in Balances |->
       [balance[b] EXCEPT !.reserved = @ - QtyOn(b, reservation, q)]]
  /\ line' = [l \in Lines |->
       [line[l] EXCEPT !.reserved = @ - QtyOf(l, reservation, q),
                       !.cancelled = IF l \in dropped THEN Ordered[l] ELSE @]]
  /\ UNCHANGED <<issue, adjustment>>

\* consume_reservation for each n with q[n] > 0, by shipment s.  The ledger key
\* of the pair is unique: a second call with it changes nothing.
ConsumeAll(s, q) ==
  /\ \A n \in Rows : q[n] <= Remaining(reservation[n])
  /\ \A n \in Rows : q[n] > 0 => issue[s][n] = 0
  /\ reservation' = [n \in Rows |->
       IF q[n] = 0 THEN reservation[n]
       ELSE Settled([reservation[n] EXCEPT !.consumed = @ + q[n]], "consumed")]
  /\ balance' = [b \in Balances |->
       [onHand   |-> balance[b].onHand - QtyOn(b, reservation, q),
        reserved |-> balance[b].reserved - QtyOn(b, reservation, q)]]
  /\ line' = [l \in Lines |->
       [line[l] EXCEPT !.reserved = @ - QtyOf(l, reservation, q),
                       !.shipped  = @ + QtyOf(l, reservation, q)]]
  /\ issue' = [issue EXCEPT ![s] = [n \in Rows |-> @[n] + q[n]]]
  /\ UNCHANGED adjustment

\* adjust_on_hand: a receipt, an issue, a transfer leg or a count difference
\* books delta under its key.  A key already in the ledger changes nothing.
AdjustOnHand(a, b, delta) ==
  /\ delta # 0
  /\ adjustment[a].delta = 0
  /\ balance[b].onHand + delta >= balance[b].reserved + Locked[b]
  /\ balance' = [balance EXCEPT ![b].onHand = @ + delta]
  /\ adjustment' = [adjustment EXCEPT ![a] = [balance |-> b, delta |-> delta]]
  /\ UNCHANGED <<line, reservation, issue>>

RNext ==
  \/ \E q \in Quantities, place \in [Rows -> [line : Lines, balance : Balances]] :
       ReserveAll(place, q)
  \/ \E q \in Quantities, dropped \in SUBSET Lines : ReleaseAll(q, dropped)
  \/ \E s \in 1..NS, q \in Quantities : ConsumeAll(s, q)
  \/ \E a \in 1..NA, b \in Balances, delta \in Deltas : AdjustOnHand(a, b, delta)

RSpec == RInit /\ [][RNext]_rVars
-----------------------------------------------------------------------------
BalanceRows == [onHand : Int, reserved : Int]
LineRows == [reserved : Int, shipped : Int, cancelled : Int]
ReservationRows == [status : {NoRow, "active", "consumed", "released"},
                    line : Lines \cup {NoRow}, balance : Balances \cup {NoRow},
                    reserved : Nat, consumed : Nat, released : Nat]
IssueRows == [Rows -> Nat]

RTypeOK ==
  /\ balance \in [Balances -> BalanceRows]
  /\ line \in [Lines -> LineRows]
  /\ reservation \in [Rows -> ReservationRows]
  /\ issue \in [1..NS -> IssueRows]
  /\ adjustment \in [1..NA -> [balance : Balances \cup {NoRow}, delta : Int]]

\* A reservation never uses more than it reserved; it is active exactly while
\* something of it remains; the number of a row that does not exist is blank.
RowsConsistent ==
  \A n \in Rows :
    LET r == reservation[n] IN
    /\ Remaining(r) >= 0
    /\ (r.status = "active") <=> (Remaining(r) > 0)
    /\ (r.status = NoRow) => r = EmptyRow
    /\ (r.status # NoRow) => r.line \in Lines /\ r.balance \in Balances

RemainingOf == [n \in Rows |-> Remaining(reservation[n])]
ConsumedOf == [n \in Rows |-> reservation[n].consumed]

\* The counter of a balance is what its reservations still hold: the two are
\* separate rows, written by different calls (reservation_services.py).
ReservedIsHeld ==
  \A b \in Balances : balance[b].reserved = QtyOn(b, reservation, RemainingOf)

\* The counters of an order line are what its reservations hold and consumed.
LineIsHeld ==
  \A l \in Lines :
    /\ line[l].reserved = QtyOf(l, reservation, RemainingOf)
    /\ line[l].shipped = QtyOf(l, reservation, ConsumedOf)

\* No stock is promised twice: the CHECK constraints of inv_balance hold
\* without ever having to roll a transaction back.
NeverOversold ==
  \A b \in Balances : /\ balance[b].reserved >= 0
                      /\ balance[b].reserved + Locked[b] <= balance[b].onHand

\* Every unit a reservation consumed is in the ledger, once, and the ledger has
\* no other sale.
ConsumedIsIssued ==
  \A n \in Rows : reservation[n].consumed = Total([s \in 1..NS |-> issue[s][n]], NS)

\* Opening stock plus every ledger row is the stock on hand.
LedgerExplainsStock ==
  \A b \in Balances :
    balance[b].onHand =
      Opening[b]
      + Total([a \in 1..NA |->
                 IF adjustment[a].balance = b THEN adjustment[a].delta ELSE 0], NA)
      - QtyOn(b, reservation, ConsumedOf)

\* The books of the stock agree: what is reserved is what reservations hold, no
\* more is reserved than there is, and the ledger explains what there is.
StockIsSound == ReservedIsHeld /\ NeverOversold /\ LedgerExplainsStock

\* The ledger is append-only and a settled reservation is final.
HistoryIsKept ==
  [][/\ \A s \in 1..NS, n \in Rows : issue[s][n] > 0 => issue'[s][n] = issue[s][n]
     /\ \A a \in 1..NA : adjustment[a].delta # 0 => adjustment'[a] = adjustment[a]
     /\ \A n \in Rows : reservation[n].status \in {"consumed", "released"}
                          => reservation'[n] = reservation[n]]_rVars
=============================================================================
