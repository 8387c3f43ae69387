------------------------------ MODULE AfterSales ------------------------------
(***************************************************************************)
(* Goods that come back and money that is paid back:                       *)
(* aftersales/services.py, and the refunds as aftersales/api.py lets       *)
(* clients create, edit and delete them.  A case has one line here.        *)
(*                                                                         *)
(* The services lock the case, the refund or the order line they decide    *)
(* on.  A case cannot be edited or deleted: its serializer refuses nested  *)
(* lines, and its lines protect it.  A refund can, in any status; an edit  *)
(* saves every column of the copy it was opened with, and may give the     *)
(* refund to another case.                                                 *)
(*                                                                         *)
(* A payment is two steps: it locks its refund, case and company, looks    *)
(* for its number among all refunds, and writes later.  Until then who     *)
(* locks these rows waits, and who inserts an event of the company does.   *)
(* The events of a refund carry the version of its case, which a refund    *)
(* does not change: the outbox admits one approval and one payment while   *)
(* a case has one status (evt_outbox_aggregate_event_version_uniq).        *)
(***************************************************************************)
EXTENDS Serials, StockBooks

CONSTANTS
  Cases,         \* sal_aftersales_case
  CaseLine,      \* the order line a case is about
  Goods,         \* the cases of type return or exchange
  RequestedQty,  \* requested_qty of a case's line
  CaseRequester, Staff,
  AcceptAt, ExceptAt,   \* balances of goods that came back fit and unfit for sale
  Refunds, FirstCase,   \* sal_refund, and the case it is made for
  CompanyOf,     \* of a case
  External,      \* the payment provider's numbers
  ReturnKeys, ReturnQty, MaxRefundForms,   \* bounds
  NoRefund       \* no row, no form, no number

ASSUME AfterSalesAssumption ==
  /\ CaseLine \in [Cases -> SoldLines] /\ RequestedQty \in [Cases -> Nat]
  /\ ReturnQty \subseteq Nat /\ FirstCase \in [Refunds -> Cases]

VARIABLES
  case,          \* [status, received] of a case and its line
  receipt,       \* sal_return_receipt, by key: [case, accepted, rejected]
  refund,        \* [case, status, external] of a refund
  refundForm,    \* the copy an edit of a refund holds
  refundForms,   \* edits begun
  paying,        \* the number of a payment under way
  refundEvents,  \* evt_outbox: [case, its status, kind] of the refunds' events
  drawn,         \* the refunds that were made: an id is drawn once
  timesPaid,     \* history: how often a refund was paid
  takenBack,     \* history: how often an edit or a deletion took a payment back
  payouts        \* history: [refund, external, company] of every payment

refundVars == <<refund, refundForm, refundForms, paying, refundEvents, drawn, timesPaid, takenBack, payouts>>
afterVars == <<case, receipt, refundVars>>

CaseRow == [status : {"draft", "pending_approval", "approved", "rejected", "processing", "completed"},
            received : Nat]
ReceiptRow == [case : Cases, accepted : Nat, rejected : Nat]
RefundRow == [case : Cases, status : {"pending", "approved", "paid"}, external : External \cup {NoRefund}]

AfterSalesInit ==
  /\ case = [c \in Cases |-> [status |-> "draft", received |-> 0]]
  /\ receipt = <<>>
  /\ refund = [r \in Refunds |-> NoRefund]
  /\ refundForm = [r \in Refunds |-> NoRefund] /\ refundForms = 0
  /\ paying = [r \in Refunds |-> NoRefund] /\ refundEvents = {} /\ drawn = {}
  /\ timesPaid = [r \in Refunds |-> 0] /\ takenBack = [r \in Refunds |-> 0] /\ payouts = {}

\* The rows a payment under way holds: of its case, and of its company.
CaseHeld(c) == \E r \in Refunds : paying[r] # NoRefund /\ refund[r].case = c
CompanyHeld(c) ==
  \E r \in Refunds : paying[r] # NoRefund /\ CompanyOf[refund[r].case] = CompanyOf[c]

\* submit_case: what was delivered and has not come back yet.
Submit(c) ==
  /\ ~CompanyHeld(c) /\ case[c].status = "draft"
  /\ RequestedQty[c] <= sold[CaseLine[c]].shipped - sold[CaseLine[c]].returned
  /\ case' = [case EXCEPT ![c].status = "pending_approval"]
  /\ UNCHANGED <<serialVars, stockVars, receipt, refundVars>>

ApproveCase(c, actor, approved) ==
  /\ ~CompanyHeld(c) /\ case[c].status = "pending_approval" /\ actor # CaseRequester[c]
  /\ case' = [case EXCEPT ![c].status = IF approved THEN "approved" ELSE "rejected"]
  /\ UNCHANGED <<serialVars, stockVars, receipt, refundVars>>

ReturnRows(c, k, accepted, rejected) ==
  {r \in {[key |-> <<k, "accepted", c>>, balance |-> AcceptAt, delta |-> accepted],
          [key |-> <<k, "exception", c>>, balance |-> ExceptAt, delta |-> rejected]} : r.delta # 0}

\* What an order line has got back; the table admits no more than was shipped
\* (sales_order_line's CHECK).  A fault writes this receipt's quantity only.
Returns_Last(l, n) == n
Returns(l, n) == sold[l].returned + n

\* receive_return: the whole case at once, once per key and once per case.
Receive(c, k, accepted, rejected) ==
  LET n == accepted + rejected
      l == CaseLine[c]
  IN
  /\ ~CompanyHeld(c) /\ k \notin DOMAIN receipt
  /\ case[c].status = "approved" /\ c \in Goods
  /\ \A j \in DOMAIN receipt : receipt[j].case # c
  /\ n > 0 /\ n <= RequestedQty[c] /\ Returns(l, n) <= sold[l].shipped
  /\ Book(ReturnRows(c, k, accepted, rejected))
  /\ receipt' = With(receipt, k, [case |-> c, accepted |-> accepted, rejected |-> rejected])
  /\ sold' = [sold EXCEPT ![l].returned = Returns(l, n)]
  /\ case' = [case EXCEPT ![c] = [status |-> "processing", received |-> n]]
  /\ UNCHANGED <<pool, serial, attempt, hold, parcel, delivery, refundVars>>

\* complete_case: every refund is paid.
CompleteCase(c) ==
  /\ ~CompanyHeld(c) /\ case[c].status \in {"approved", "processing"}
  /\ \A r \in Refunds : refund[r] # NoRefund /\ refund[r].case = c => refund[r].status = "paid"
  /\ case' = [case EXCEPT ![c].status = "completed"]
  /\ UNCHANGED <<serialVars, stockVars, receipt, refundVars>>
-----------------------------------------------------------------------------
Exists(r) == refund[r] # NoRefund
Paid(r) == Exists(r) /\ refund[r].status = "paid"

\* The endpoint asks neither for the case's status nor for its refunds.
CreateRefund(r) ==
  /\ r \notin drawn /\ ~CaseHeld(FirstCase[r])
  /\ refund' = [refund EXCEPT ![r] = [case |-> FirstCase[r], status |-> "pending", external |-> NoRefund]]
  /\ drawn' = drawn \cup {r}
  /\ UNCHANGED <<refundForm, refundForms, paying, refundEvents, timesPaid, takenBack, payouts>>

\* The event of a refund, and what the outbox has.
Event(r, kind) == [case |-> refund[r].case, status |-> case[refund[r].case].status, kind |-> kind]
Emit(r, kind) ==
  /\ Event(r, kind) \notin refundEvents
  /\ refundEvents' = refundEvents \cup {Event(r, kind)}

\* approve_refund locks the case with the refund.
ApproveRefund(r, actor) ==
  /\ Exists(r) /\ ~CompanyHeld(refund[r].case) /\ refund[r].status = "pending"
  /\ actor # CaseRequester[refund[r].case]
  /\ case[refund[r].case].status \in {"approved", "processing"}
  /\ refund' = [refund EXCEPT ![r].status = "approved"]
  /\ Emit(r, "refund_approved")
  /\ UNCHANGED <<refundForm, refundForms, paying, drawn, timesPaid, takenBack, payouts>>

\* A fault: the number is looked for among this refund's own.
Taken_Own(r, e) == refund[r].external = e
Taken(r, e) == \E q \in Refunds \ {r} : Exists(q) /\ refund[q].external = e

\* mark_refund_paid, until it has looked for the number.
BeginPay(r, e) ==
  /\ Exists(r) /\ ~CompanyHeld(refund[r].case)
  /\ refund[r].status = "approved" /\ ~Taken(r, e)
  /\ paying' = [paying EXCEPT ![r] = e]
  /\ UNCHANGED <<refund, refundForm, refundForms, refundEvents, drawn, timesPaid, takenBack, payouts>>

\* The rest of it, and the commit.
MarkPaid(r) ==
  /\ paying[r] # NoRefund
  /\ refund' = [refund EXCEPT ![r] = [case |-> @.case, status |-> "paid", external |-> paying[r]]]
  /\ Emit(r, "refund_paid")
  /\ paying' = [paying EXCEPT ![r] = NoRefund]
  /\ timesPaid' = [timesPaid EXCEPT ![r] = @ + 1]
  /\ payouts' = payouts \cup {[refund |-> r, external |-> paying[r], company |-> CompanyOf[refund[r].case]]}
  /\ UNCHANGED <<refundForm, refundForms, drawn, takenBack>>

\* A second event of the case's version, or an error, rolls the payment back.
AbortPay(r) ==
  /\ paying[r] # NoRefund
  /\ paying' = [paying EXCEPT ![r] = NoRefund]
  /\ UNCHANGED <<refund, refundForm, refundForms, refundEvents, drawn, timesPaid, takenBack, payouts>>

OpenRefundForm(r) ==
  /\ refundForms < MaxRefundForms /\ Exists(r) /\ refundForm[r] = NoRefund
  /\ refundForm' = [refundForm EXCEPT ![r] = refund[r]] /\ refundForms' = refundForms + 1
  /\ UNCHANGED <<refund, paying, refundEvents, drawn, timesPaid, takenBack, payouts>>

\* What an edit or a deletion takes back of a payment.
TakeBack(r, stays) ==
  takenBack' = [takenBack EXCEPT ![r] = IF Paid(r) /\ ~stays THEN @ + 1 ELSE @]

\* Saving updates the row, or inserts it again when it was deleted meanwhile.
\* The serializer leaves the case open to the edit (RefundSerializer).
SaveRefundForm(r, c) ==
  /\ refundForm[r] # NoRefund /\ paying[r] = NoRefund
  /\ ~CaseHeld(c) \/ (Exists(r) /\ refund[r].case = c)
  /\ refund' = [refund EXCEPT ![r] = [refundForm[r] EXCEPT !.case = c]]
  /\ refundForm' = [refundForm EXCEPT ![r] = NoRefund]
  /\ TakeBack(r, refundForm[r].status = "paid")
  /\ UNCHANGED <<refundForms, paying, refundEvents, drawn, timesPaid, payouts>>

DeleteRefund(r) ==
  /\ Exists(r) /\ paying[r] = NoRefund
  /\ refund' = [refund EXCEPT ![r] = NoRefund]
  /\ TakeBack(r, FALSE)
  /\ UNCHANGED <<refundForm, refundForms, paying, refundEvents, drawn, timesPaid, payouts>>

ReturnsNext ==
  \E c \in Cases :
    \/ Submit(c) \/ CompleteCase(c)
    \/ \E actor \in Staff, approved \in BOOLEAN : ApproveCase(c, actor, approved)
    \/ \E k \in ReturnKeys, a \in ReturnQty, b \in ReturnQty : Receive(c, k, a, b)

RefundsNext ==
  /\ UNCHANGED <<serialVars, stockVars, case, receipt>>
  /\ \E r \in Refunds :
       \/ CreateRefund(r) \/ OpenRefundForm(r) \/ DeleteRefund(r) \/ MarkPaid(r) \/ AbortPay(r)
       \/ \E c \in Cases : SaveRefundForm(r, c)
       \/ \E actor \in Staff : ApproveRefund(r, actor)
       \/ \E e \in External : BeginPay(r, e)
-----------------------------------------------------------------------------
AfterSalesTypeOK ==
  /\ case \in [Cases -> CaseRow]
  /\ \A k \in DOMAIN receipt : receipt[k] \in ReceiptRow
  /\ refund \in [Refunds -> RefundRow \cup {NoRefund}]

\* What came back under a key, and what of it went to a balance.
Came(k) == receipt[k].accepted + receipt[k].rejected
CameTo(b, k) == (IF b = AcceptAt THEN receipt[k].accepted ELSE 0)
              + (IF b = ExceptAt THEN receipt[k].rejected ELSE 0)

\* What an order line got back is what its cases received, each once; it is no
\* more than was delivered, though two cases may each have been submitted for
\* the whole delivery; and what came back is in the stock (receive_return).
ReturnsAreReceived ==
  AfterSalesTypeOK /\
  /\ \A l \in SoldLines :
       /\ sold[l].returned =
            SumOver([k \in DOMAIN receipt |-> Came(k)],
                    {k \in DOMAIN receipt : CaseLine[receipt[k].case] = l})
       /\ sold[l].returned <= sold[l].shipped
  /\ \A k \in DOMAIN receipt : case[receipt[k].case].received = Came(k)
  /\ \A b \in Balances :
       Moved(b, {r \in booked : r.key[1] \in DOMAIN receipt}) =
         SumOver([k \in DOMAIN receipt |-> CameTo(b, k)], DOMAIN receipt)

\* A refund is paid again only as often as an edit or a deletion took its payment
\* back; and two refunds of one company never have the same number of the payment
\* provider, unless a payment of one was taken back.  Payments of two companies
\* may each look for the number before the other writes it (mark_refund_paid,
\* RefundViewSet).
PaidOnce ==
  /\ \A r \in Refunds : timesPaid[r] <= takenBack[r] + IF Paid(r) THEN 1 ELSE 0
  /\ \A x, y \in payouts : x.refund # y.refund /\ x.external = y.external =>
       x.company # y.company \/ takenBack[x.refund] > 0 \/ takenBack[y.refund] > 0
=============================================================================
