------------------------------- MODULE Sourcing -------------------------------
(***************************************************************************)
(* From a requisition to the quote that wins: submit_requisition,          *)
(* approve_requisition, issue_rfq and the sourcing half of award_quote of  *)
(* purchasing/services.py, and the edits of a request for quotation that   *)
(* RfqViewSet allows.  Supply joins the award to the order it makes.       *)
(*                                                                         *)
(* An edit (PATCH) reads the row with get_object, and saves every column   *)
(* of that copy later: reading and saving are two actions.  It may be of   *)
(* an RFQ in any status, and may name another requisition.  Quotes are     *)
(* edited in the same way, their RFQ and their supplier included, so that  *)
(* a quote is one of any RFQ and of any invited supplier when it is        *)
(* awarded; only its lines, which are those of one requisition, stand.     *)
(* Requisitions cannot be edited: their serializer demands lines, and      *)
(* refuses to write nested ones.                                           *)
(*                                                                         *)
(* An edit puts the row's version back with its status, so that an issued  *)
(* RFQ always has version 2 and its award would always be event 3 of it.   *)
(* The outbox takes that event once (evt_outbox_aggregate_event_version_   *)
(* uniq): a second award fails there, and is rolled back.                  *)
(***************************************************************************)
EXTENDS Integers, Sequences

CONSTANTS
  Requisitions, Rfqs, Quotes, Users,
  Requester,     \* who asked for a requisition
  FirstFor,      \* the requisition an RFQ is made for
  Inviting,      \* RFQs with suppliers
  Requested,     \* quantities of a requisition's lines, by line number
  QuotedFor,       \* the requisition whose lines a quote names
  Quoted,        \* quantities of a quote's lines, by the requisition's line number
  Nobody,        \* no awarded quote, no form
  MaxRfqForms    \* bound: edits of RFQs

ASSUME SourcingAssumption ==
  /\ FirstFor \in [Rfqs -> Requisitions] /\ QuotedFor \in [Quotes -> Requisitions]
  /\ Quoted \in [Quotes -> Seq(Nat)]
  /\ Nobody \notin [status : {"draft", "issued", "awarded"}, awarded : Quotes \cup {Nobody},
                    requisition : Requisitions]

VARIABLES
  requisition,   \* status of a requisition
  rfq,           \* status, awarded quote and requisition of an RFQ
  rfqForm,       \* the copy an edit of an RFQ holds
  rfqForms,      \* edits begun
  sourced,       \* history: the RFQs that were issued on a requisition
  awardEvents,   \* evt_outbox: the RFQs with an event "purchase.rfq.awarded"
  awards         \* history: how often an RFQ was awarded

sourcingVars == <<requisition, rfq, rfqForm, rfqForms, sourced, awardEvents, awards>>

RequisitionStatus == {"draft", "submitted", "approved", "sourcing", "ordered", "rejected"}
RfqRows == [status : {"draft", "issued", "awarded"}, awarded : Quotes \cup {Nobody},
            requisition : Requisitions]

SourcingInit ==
  /\ requisition = [q \in Requisitions |-> "draft"]
  /\ rfq = [f \in Rfqs |-> [status |-> "draft", awarded |-> Nobody, requisition |-> FirstFor[f]]]
  /\ rfqForm = [f \in Rfqs |-> Nobody] /\ rfqForms = 0
  /\ sourced = [q \in Requisitions |-> <<>>]
  /\ awardEvents = {} /\ awards = [f \in Rfqs |-> 0]

SubmitRequisition(q) ==
  /\ requisition[q] = "draft" /\ DOMAIN Requested[q] # {}
  /\ requisition' = [requisition EXCEPT ![q] = "submitted"]
  /\ UNCHANGED <<rfq, rfqForm, rfqForms, sourced, awardEvents, awards>>

\* The requester and the approver are different persons.
ApproveRequisition(q, actor, approved) ==
  /\ requisition[q] = "submitted" /\ actor # Requester[q]
  /\ requisition' = [requisition EXCEPT ![q] = IF approved THEN "approved" ELSE "rejected"]
  /\ UNCHANGED <<rfq, rfqForm, rfqForms, sourced, awardEvents, awards>>

\* What issuing an RFQ makes of its requisition.  A fault leaves it approved, and
\* a second RFQ can be issued.
AfterIssue_Approved(status) == status
AfterIssue(status) == "sourcing"

\* issue_rfq locks the requisition as well (select_related without of=).
IssueRfq(f) ==
  LET q == rfq[f].requisition IN
  /\ rfq[f].status = "draft" /\ f \in Inviting
  /\ requisition[q] = "approved"
  /\ rfq' = [rfq EXCEPT ![f].status = "issued"]
  /\ requisition' = [requisition EXCEPT ![q] = AfterIssue(@)]
  /\ sourced' = [sourced EXCEPT ![q] = Append(@, f)]
  /\ UNCHANGED <<rfqForm, rfqForms, awardEvents, awards>>

\* A quote covers the requisition's lines, and orders no more of any than was
\* requested (CHECK pur_requisition_line_qty_ck).
Covers(t, q) ==
  /\ QuotedFor[t] = q /\ DOMAIN Quoted[t] = DOMAIN Requested[q]
  /\ \A i \in DOMAIN Quoted[t] : Quoted[t][i] <= Requested[q][i]

\* award_quote, but for the order it makes.  The status of the requisition is not
\* looked at.
Award(f, t) ==
  /\ rfq[f].status = "issued"
  /\ Covers(t, rfq[f].requisition) /\ f \notin awardEvents
  /\ rfq' = [rfq EXCEPT ![f].status = "awarded", ![f].awarded = t]
  /\ requisition' = [requisition EXCEPT ![rfq[f].requisition] = "ordered"]
  /\ awardEvents' = awardEvents \cup {f} /\ awards' = [awards EXCEPT ![f] = @ + 1]
  /\ UNCHANGED <<rfqForm, rfqForms, sourced>>

OpenRfqForm(f) ==
  /\ rfqForms < MaxRfqForms /\ rfqForm[f] = Nobody
  /\ rfqForm' = [rfqForm EXCEPT ![f] = rfq[f]]
  /\ rfqForms' = rfqForms + 1
  /\ UNCHANGED <<requisition, rfq, sourced, awardEvents, awards>>

\* The edit writes what was read, and may point the RFQ to another requisition.
SaveRfqForm(f, q) ==
  /\ rfqForm[f] # Nobody
  /\ rfq' = [rfq EXCEPT ![f] = [rfqForm[f] EXCEPT !.requisition = q]]
  /\ rfqForm' = [rfqForm EXCEPT ![f] = Nobody]
  /\ UNCHANGED <<requisition, rfqForms, sourced, awardEvents, awards>>

\* Everything but the award, which makes an order too.
SourcingNext ==
  \/ \E q \in Requisitions : SubmitRequisition(q)
  \/ \E q \in Requisitions, actor \in Users, approved \in BOOLEAN :
       ApproveRequisition(q, actor, approved)
  \/ \E f \in Rfqs : IssueRfq(f) \/ OpenRfqForm(f) \/ \E q \in Requisitions : SaveRfqForm(f, q)
-----------------------------------------------------------------------------
SourcingTypeOK ==
  /\ requisition \in [Requisitions -> RequisitionStatus]
  /\ rfq \in [Rfqs -> RfqRows]
=============================================================================
