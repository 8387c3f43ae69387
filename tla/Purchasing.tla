------------------------------ MODULE Purchasing ------------------------------
(***************************************************************************)
(* Purchase orders, goods receipts, inspections and returns to suppliers:  *)
(* purchasing/services.py over the stock of StockBooks.                    *)
(*                                                                         *)
(* Orders, receipts and inspections are changed under locks of all rows    *)
(* concerned: one action each.  dispatch_purchase_return is not: it locks  *)
(* the return, reads its order lines without a lock, and adds to the       *)
(* returned quantity it read.  It is two actions, OpenDispatch and         *)
(* CloseDispatch, and so is an edit of a return (PATCH), which saves every *)
(* column of the copy it read, its status and version_no too.  The outbox  *)
(* admits one event of a kind per aggregate and version                    *)
(* (evt_outbox_aggregate_event_version_uniq); a dispatch writes the third  *)
(* version of its return, and fails with its event the second time.        *)
(*                                                                         *)
(* Receipts are numbered 1..NR, and a receipt has at most one inspection,  *)
(* kept in its row.  A line is <<order, line number>>.                     *)
(***************************************************************************)
EXTENDS StockBooks, Totals, Sequences

CONSTANTS
  Orders, MaxLines,
  NR,            \* bound: receipt numbers in use
  NI,            \* bound: inspection numbers in use
  MaxQty,        \* bound: the most one receipt takes of a line
  Deliveries,    \* bound: the quantities a supplier delivers at once
  GoodBalance,   \* of a line: the balance accepted goods go to
  BadBalance,    \* of a line: the exception balance rejected goods go to
  Returns,
  ReturnLines,   \* of a return: [line, balance, qty] records, one of a line (pur_return_order_line_uniq)
  ReturnOrder, Staff, ReturnRequester,
  Keys, NoKey,   \* the idempotency keys of dispatches
  None,          \* no row, no copy
  MaxForms       \* bound: edits of returns

ASSUME PurchasingAssumption ==
  /\ NR \in Nat /\ NI \in Nat /\ MaxQty \in Nat /\ MaxLines \in Nat
  /\ GoodBalance \in [Orders \X (1..MaxLines) -> Balances]
  /\ BadBalance \in [Orders \X (1..MaxLines) -> Balances]
  /\ Deliveries \subseteq [Orders \X (1..MaxLines) -> 0..MaxQty]
  /\ ReturnLines \in [Returns -> SUBSET [line : Orders \X (1..MaxLines), balance : Balances, qty : Nat \ {0}]]
  /\ \A r \in Returns : \A x, y \in ReturnLines[r] : x.line = y.line => x = y
  /\ \A r \in Returns : IsFiniteSet(ReturnLines[r])
  /\ IsFiniteSet(Returns) /\ IsFiniteSet(Orders)
  /\ None \notin Orders /\ NoKey \notin Keys /\ Returns \cap {"line", "material"} = {}

VARIABLES
  order,         \* status and version of a purchase order
  line,          \* the five quantities of an order line
  receipt,       \* receipts with their lines and their inspection
  return,        \* status and key of a return
  dispatching,   \* key and read quantities of a dispatch under way
  form,          \* the copy an edit of a return holds
  forms,         \* edits begun
  returnEvents,  \* evt_outbox: the returns with an event "purchase.return.dispatched"
  raced          \* history: lines that were read by a dispatch before another wrote them

orderVars == <<order, line, receipt>>
returnVars == <<return, dispatching, form, forms, returnEvents, raced>>
purchasingVars == <<stockVars, orderVars, returnVars>>

Lines == Orders \X (1..MaxLines)
ReceiptRows == 1..NR
Quantities == [Lines -> 0..MaxQty]

\* The rows of orders, of their lines, of receipts (with their inspection) and of returns.
OrderRows == [status : {"none", "draft", "approved", "issued", "partially_received",
                        "received", "cancelled"}, version : Nat]
LineRows == [ordered : Nat, received : Nat, accepted : Nat, rejected : Nat, returned : Nat]
ReceiptRowSet == [status : {"none", "inspection", "completed"}, order : Orders \cup {None},
                  inspection : 0..NI, qty : Quantities, good : Quantities]
ReturnRows == [status : {"draft", "approved", "dispatched"}, key : Keys \cup {NoKey}]

NoLine == [ordered |-> 0, received |-> 0, accepted |-> 0, rejected |-> 0, returned |-> 0]
NoReceipt == [status |-> "none", order |-> None, inspection |-> 0,
              qty |-> [l \in Lines |-> 0], good |-> [l \in Lines |-> 0]]
NoReturn == [status |-> "draft", key |-> NoKey]

PurchasingInit ==
  /\ StockInit
  /\ order = [o \in Orders |-> [status |-> "none", version |-> 1]]
  /\ line = [l \in Lines |-> NoLine]
  /\ receipt = [n \in ReceiptRows |-> NoReceipt]
  /\ return = [r \in Returns |-> NoReturn]
  /\ dispatching = [r \in Returns |-> None] /\ form = [r \in Returns |-> None]
  /\ forms = 0 /\ returnEvents = {} /\ raced = {}

LinesOf(o) == {l \in Lines : l[1] = o /\ line[l].ordered > 0}

\* PurchaseOrderSerializer.create, and the order award_quote makes of a quote:
\* quantities by line number.
CreateOrder(o, wanted) ==
  /\ order[o].status = "none" /\ wanted # <<>>
  /\ order' = [order EXCEPT ![o].status = "draft"]
  /\ line' = [l \in Lines |-> IF l[1] = o /\ l[2] \in DOMAIN wanted
                              THEN [NoLine EXCEPT !.ordered = wanted[l[2]]] ELSE line[l]]
  /\ UNCHANGED <<stockVars, receipt, returnVars>>

\* The endpoints that move an order.
OrderActions == {"approve", "issue", "cancel"}

\* The transitions of an order; a received one cannot be cancelled.
Target(o, action) ==
  CASE action = "approve" /\ order[o].status = "draft" -> "approved"
    [] action = "issue" /\ order[o].status = "approved" -> "issued"
    [] action = "cancel" /\ order[o].status \in {"draft", "approved", "issued"}
                         /\ \A l \in LinesOf(o) : line[l].received = 0 -> "cancelled"
    [] OTHER -> "refused"

TransitionOrder(o, action, expected) ==
  /\ order[o].version = expected /\ Target(o, action) # "refused"
  /\ order' = [order EXCEPT ![o] = [status |-> Target(o, action), version |-> @.version + 1]]
  /\ UNCHANGED <<stockVars, line, receipt, returnVars>>

\* The status after a receipt: all lines of the order count, not only those received.
ReceivedStatus(o, after, q) ==
  IF \A l \in LinesOf(o) : after[l].received = after[l].ordered
  THEN "received" ELSE "partially_received"

\* receive_purchase_order of q[l] of each line.  The goods wait for their
\* inspection: no stock moves.
Receive(o, n, q) ==
  LET after == [l \in Lines |-> [line[l] EXCEPT !.received = @ + q[l]]] IN
  /\ receipt[n] = NoReceipt
  /\ order[o].status \in {"issued", "partially_received"}
  /\ \E l \in Lines : q[l] > 0
  /\ \A l \in Lines : q[l] > 0 => l \in LinesOf(o)
  /\ \A l \in LinesOf(o) : line[l].received + q[l] <= line[l].ordered
  /\ receipt' = [receipt EXCEPT ![n] = [NoReceipt EXCEPT !.status = "inspection",
                                                         !.order = o, !.qty = q]]
  /\ line' = after
  /\ order' = [order EXCEPT ![o] = [status |-> ReceivedStatus(o, after, q),
                                    version |-> @.version + 1]]
  /\ UNCHANGED <<stockVars, returnVars>>

\* The movements of an inspection: what is good to a normal location, the rest
\* to an exception location.
InspectionRows(n, i, good) ==
     {[key |-> <<"inspection", i, l, "A">>, balance |-> GoodBalance[l], delta |-> good[l]] :
        l \in {m \in Lines : good[m] > 0}}
  \cup
     {[key |-> <<"inspection", i, l, "R">>, balance |-> BadBalance[l],
       delta |-> receipt[n].qty[l] - good[l]] :
        l \in {m \in Lines : receipt[n].qty[m] > good[m]}}

\* What an inspector may find good in a receipt: all lines, nothing left pending.
Findings(n) == {good \in Quantities : \A l \in Lines : good[l] <= receipt[n].qty[l]}

\* A line after its inspection; the fault rejects all that came.
Judged_Rejects(x, came, good) == [x EXCEPT !.accepted = @ + good, !.rejected = @ + came]
Judged(x, came, good) == [x EXCEPT !.accepted = @ + good, !.rejected = @ + came - good]

\* complete_purchase_inspection number i of receipt n, all lines at once.
Inspect(n, i, good) ==
  /\ receipt[n].status = "inspection"
  /\ \A m \in ReceiptRows : receipt[m].inspection # i
  /\ good \in Findings(n)
  /\ Book(InspectionRows(n, i, good))
  /\ receipt' = [receipt EXCEPT ![n] = [status |-> "completed", order |-> @.order, inspection |-> i,
                                        qty |-> @.qty, good |-> good]]
  /\ line' = [l \in Lines |-> Judged(line[l], receipt[n].qty[l], good[l])]
  /\ UNCHANGED <<order, returnVars>>
-----------------------------------------------------------------------------
\* A dispatch holds the lock of its return's row.
Unlocked(r) == dispatching[r] = None

\* approve_purchase_return.  What it reads of the lines is not locked, and
\* nothing is set aside for the return.
ApproveReturn(r, actor) ==
  /\ Unlocked(r)
  /\ return[r].status = "draft" /\ ReturnLines[r] # {}
  /\ actor # ReturnRequester[r]
  /\ \A x \in ReturnLines[r] :
       /\ x.line \in LinesOf(ReturnOrder[r])
       /\ x.qty <= line[x.line].accepted - line[x.line].returned
  /\ return' = [return EXCEPT ![r].status = "approved"]
  /\ UNCHANGED <<stockVars, orderVars, dispatching, form, forms, returnEvents, raced>>

\* dispatch_purchase_return, until it has read the lines.
OpenDispatch(r, k) ==
  /\ Unlocked(r)
  /\ return[r].status = "approved" /\ return[r].key # k
  /\ dispatching' = [dispatching EXCEPT ![r] =
       [key |-> k, read |-> [x \in ReturnLines[r] |-> line[x.line].returned]]]
  /\ UNCHANGED <<stockVars, orderVars, return, form, forms, returnEvents, raced>>

\* The returned quantity a dispatch leaves in a line; the fault forgets what it read.
Returned_Resets(read, x) == x.qty
Returned(read, x) == read[x] + x.qty

\* The rest of it, and the commit: the goods leave, the quantities are written.
\* A key belongs to one return, so that the line stands for the primary key in
\* "<key>:line:<line.pk>"; CHECK pur_po_line_returned_lte_rejected_ck admits no
\* more returned goods than were rejected, and the outbox no second event.
CloseDispatch(r) ==
  LET d == dispatching[r] IN
  /\ d # None /\ r \notin returnEvents
  /\ \A s \in Returns \ {r} : return[s].key # d.key
  /\ Book({[key |-> <<d.key, r, x.line>>, balance |-> x.balance, delta |-> -x.qty] :
             x \in ReturnLines[r]})
  /\ \A x \in ReturnLines[r] : Returned(d.read, x) <= line[x.line].rejected
  /\ line' = [l \in Lines |->
       IF \E x \in ReturnLines[r] : x.line = l
       THEN [line[l] EXCEPT !.returned =
               Returned(d.read, CHOOSE x \in ReturnLines[r] : x.line = l)]
       ELSE line[l]]
  /\ return' = [return EXCEPT ![r] = [status |-> "dispatched", key |-> d.key]]
  /\ dispatching' = [dispatching EXCEPT ![r] = None]
  /\ raced' = raced \cup {x.line : x \in {y \in ReturnLines[r] :
                                            d.read[y] # line[y.line].returned}}
  /\ returnEvents' = returnEvents \cup {r}
  /\ UNCHANGED <<order, receipt, form, forms>>

\* A refusal, an error or a lost connection rolls the dispatch back.
AbortDispatch(r) ==
  /\ dispatching[r] # None
  /\ dispatching' = [dispatching EXCEPT ![r] = None]
  /\ UNCHANGED <<stockVars, orderVars, return, form, forms, returnEvents, raced>>

\* PATCH of a return: get_object, and later save.
OpenForm(r) ==
  /\ forms < MaxForms /\ form[r] = None
  /\ form' = [form EXCEPT ![r] = return[r]]
  /\ forms' = forms + 1
  /\ UNCHANGED <<stockVars, orderVars, return, dispatching, returnEvents, raced>>

SaveForm(r) ==
  /\ form[r] # None /\ Unlocked(r)
  /\ return' = [return EXCEPT ![r] = form[r]]
  /\ form' = [form EXCEPT ![r] = None]
  /\ UNCHANGED <<stockVars, orderVars, dispatching, forms, returnEvents, raced>>

PurchasingNext ==
  \/ \E o \in Orders :
       \/ \E action \in OrderActions, expected \in 1..3 :
            TransitionOrder(o, action, expected)
       \/ \E n \in ReceiptRows, q \in Deliveries : Receive(o, n, q)
  \/ \E n \in ReceiptRows, i \in 1..NI, good \in Quantities : Inspect(n, i, good)
  \/ \E r \in Returns :
       \/ \E actor \in Staff : ApproveReturn(r, actor)
       \/ \E k \in Keys : OpenDispatch(r, k)
       \/ CloseDispatch(r)
       \/ AbortDispatch(r)
       \/ OpenForm(r)
       \/ SaveForm(r)
-----------------------------------------------------------------------------
PurchasingTypeOK ==
  /\ order \in [Orders -> OrderRows]
  /\ line \in [Lines -> LineRows]
  /\ receipt \in [ReceiptRows -> ReceiptRowSet]
  /\ return \in [Returns -> ReturnRows]

\* What the receipts and the inspections say of a line.
ReceivedOn(l) == Total([n \in ReceiptRows |-> receipt[n].qty[l]], NR)
AcceptedOn(l) == Total([n \in ReceiptRows |-> receipt[n].good[l]], NR)
InspectedOn(l) == Total([n \in ReceiptRows |-> IF receipt[n].status = "completed"
                                               THEN receipt[n].qty[l] ELSE 0], NR)

\* An order says that it is received exactly when nothing of it is due, that it
\* is partly received exactly when something came and something is due, and a
\* cancelled one received nothing (receive_purchase_order, transition_purchase_order).
StatusTellsReceipts ==
  \A o \in Orders :
    LET came == \E l \in LinesOf(o) : line[l].received > 0
        due == \E l \in LinesOf(o) : line[l].received < line[l].ordered
    IN /\ order[o].status = "received" <=> came /\ ~due
       /\ order[o].status = "partially_received" <=> came /\ due

\* The counters of an order line are what its receipts and inspections add up
\* to, no line takes more than was ordered, and the status of the order tells it
\* (receive_purchase_order, complete_purchase_inspection).
LinesAreCounted ==
  /\ PurchasingTypeOK
  /\ \A l \in Lines :
       /\ line[l].received = ReceivedOn(l) /\ line[l].received <= line[l].ordered
       /\ line[l].accepted = AcceptedOn(l)
       /\ line[l].accepted + line[l].rejected = InspectedOn(l)
  /\ StatusTellsReceipts

\* What a return takes of a line, and what the returns that left took of it.
TakenFrom(r, l) ==
  IF \E x \in ReturnLines[r] : x.line = l THEN (CHOOSE x \in ReturnLines[r] : x.line = l).qty ELSE 0
DispatchedFrom(l) ==
  SumOver([r \in Returns |-> IF r \in returnEvents THEN TakenFrom(r, l) ELSE 0], Returns)

\* The returned quantity of a line is what the returns that left took of it, each
\* once, though edits put them back and they are approved and dispatched again.
\* Where two dispatches overlapped on a line it may be less, and never more
\* (dispatch_purchase_return, PurchaseReturnViewSet).
ReturnsAreCounted ==
  /\ \A r \in Returns : return[r].status = "dispatched" => r \in returnEvents
  /\ \A l \in Lines :
       /\ line[l].returned <= DispatchedFrom(l)
       /\ l \notin raced => line[l].returned = DispatchedFrom(l)

\* What inspections let in and returns took out.
LetIn(n, b) ==
  SumOver([l \in Lines |-> (IF GoodBalance[l] = b THEN receipt[n].good[l] ELSE 0)
      + (IF BadBalance[l] = b THEN receipt[n].qty[l] - receipt[n].good[l] ELSE 0)], Lines)
TakenIn(b) ==
  SumOver([n \in ReceiptRows |-> LetIn(n, b)],
          {n \in ReceiptRows : receipt[n].status = "completed"})
LeavesWith(r, b) ==
  SumOver([x \in ReturnLines[r] |-> x.qty], {x \in ReturnLines[r] : x.balance = b})
SentBack(b) ==
  SumOver([r \in Returns |-> LeavesWith(r, b)], returnEvents)
=============================================================================
