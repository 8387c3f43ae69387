----------------------------- MODULE Subcontract -----------------------------
(***************************************************************************)
(* Work done outside: approve_subcontract, send_subcontract_materials and  *)
(* receive_subcontract of manufacturing/extended_services.py, and the      *)
(* edits of an order that SubcontractViewSet allows.  The services lock    *)
(* the order's row; an edit saves the copy it read, its status and         *)
(* version_no too, with the quantity given.  A receipt writes the fourth   *)
(* version of its order, and the outbox admits one event of a version: an  *)
(* order that an edit put back is sent again, and cannot be received again.*)
(***************************************************************************)
EXTENDS StockBooks

CONSTANTS
  SubOrders,
  Sent,          \* [material, balance, qty] rows of an order's materials
  OrderedQty,    \* of an order when it is made
  OrderedChoices, \* bound: the quantity an edit gives
  DoneAt, ScrapAt, \* balances what comes back goes to
  SubKeys, SubActors, SubRequester,
  MaxSubQty,     \* bound: what comes back at once
  NoCopy, MaxSubForms

ASSUME SubcontractAssumption ==
  /\ IsFiniteSet(SubOrders) /\ OrderedQty \in [SubOrders -> Nat] /\ OrderedChoices \subseteq Nat
  /\ \A s \in SubOrders : /\ IsFiniteSet(Sent[s])
                         /\ Sent[s] \subseteq [material : Nat, balance : Balances, qty : Nat]
  /\ MaxSubQty \in Nat /\ MaxSubForms \in Nat
  /\ NoCopy \notin [status : {"draft", "approved", "material_sent", "received", "completed"},
                   ordered : Nat, received : Nat, accepted : Nat, rejected : Nat]

VARIABLES
  sub,           \* mfg_subcontract_order
  subForm, subForms,
  backEvents,    \* evt_outbox: the orders with an event "manufacturing.subcontract.received"
  resent,        \* history: orders whose edit put back what a service had written
  subUsed        \* history: the keys of orders and their steps

subVars == <<stockVars, sub, subForm, subForms, backEvents, resent, subUsed>>

SubRows == [status : {"draft", "approved", "material_sent", "received", "completed"},
            ordered : Nat, received : Nat, accepted : Nat, rejected : Nat]
NewSub(qty) == [status |-> "draft", ordered |-> qty, received |-> 0, accepted |-> 0, rejected |-> 0]

SubcontractInit ==
  /\ sub = [s \in SubOrders |-> NewSub(OrderedQty[s])]
  /\ subForm = [s \in SubOrders |-> NoCopy] /\ subForms = 0
  /\ backEvents = {} /\ resent = {} /\ subUsed = {}

\* The requester does not approve.
ApproveSub(s, actor) ==
  /\ sub[s].status = "draft" /\ Sent[s] # {} /\ actor # SubRequester[s]
  /\ sub' = [sub EXCEPT ![s].status = "approved"]
  /\ UNCHANGED <<stockVars, subForm, subForms, backEvents, resent, subUsed>>

SentRows(s, k) ==
  {[key |-> <<k, "material", x.material>>, balance |-> x.balance, delta |-> -x.qty] : x \in Sent[s]}

SendMaterials(s, k) ==
  /\ sub[s].status = "approved"
  /\ Book(SentRows(s, k))
  /\ sub' = [sub EXCEPT ![s].status = "material_sent"]
  /\ subUsed' = subUsed \cup {<<"sent", s, k>>}
  /\ UNCHANGED <<subForm, subForms, backEvents, resent>>

BackRows(k, good, bad) ==
  {r \in {[key |-> <<k, "accepted">>, balance |-> DoneAt, delta |-> good],
          [key |-> <<k, "rejected">>, balance |-> ScrapAt, delta |-> bad]} : r.delta # 0}

\* A receipt of a part makes the order received, and nothing more can be.
Back(x, good, bad) ==
  [x EXCEPT !.received = @ + good + bad, !.accepted = @ + good, !.rejected = @ + bad,
            !.status = IF x.received + good + bad = x.ordered THEN "completed" ELSE "received"]

\* The quantities are not asked to be positive, only their sum
\* (ReceiveSerializer); CHECK mfg_subcontract_values_ck asks it of the totals.
ReceiveSub(s, k, good, bad) ==
  /\ sub[s].status \in {"material_sent", "processing"} /\ s \notin backEvents
  /\ good + bad > 0 /\ sub[s].received + good + bad <= sub[s].ordered
  /\ sub[s].accepted + good >= 0 /\ sub[s].rejected + bad >= 0
  /\ Book(BackRows(k, good, bad))
  /\ sub' = [sub EXCEPT ![s] = Back(@, good, bad)]
  /\ backEvents' = backEvents \cup {s}
  /\ subUsed' = subUsed \cup {<<"back", s, k>>}
  /\ UNCHANGED <<subForm, subForms, resent>>

OpenSubForm(s) ==
  /\ subForms < MaxSubForms /\ subForm[s] = NoCopy
  /\ subForm' = [subForm EXCEPT ![s] = sub[s]]
  /\ subForms' = subForms + 1
  /\ UNCHANGED <<stockVars, sub, backEvents, resent, subUsed>>

\* CHECK mfg_subcontract_result_ck: no less is ordered than was received.
SaveSubForm(s, ordered) ==
  /\ subForm[s] # NoCopy /\ ordered > 0 /\ ordered >= subForm[s].received
  /\ sub' = [sub EXCEPT ![s] = [subForm[s] EXCEPT !.ordered = ordered]]
  /\ subForm' = [subForm EXCEPT ![s] = NoCopy]
  /\ resent' = IF subForm[s].status = sub[s].status THEN resent ELSE resent \cup {s}
  /\ UNCHANGED <<stockVars, subForms, backEvents, subUsed>>

SubcontractNext ==
  \E s \in SubOrders :
    \/ \E actor \in SubActors : ApproveSub(s, actor)
    \/ \E k \in SubKeys : SendMaterials(s, k)
    \/ \E k \in SubKeys, good \in -1..MaxSubQty, bad \in -1..MaxSubQty : ReceiveSub(s, k, good, bad)
    \/ OpenSubForm(s)
    \/ \E ordered \in OrderedChoices : SaveSubForm(s, ordered)
-----------------------------------------------------------------------------
SubcontractTypeOK == sub \in [SubOrders -> SubRows]

\* What an order's row says was taken out of a balance, or brought into it.
TakenOut(s, b) == SumOver([x \in Sent[s] |-> x.qty], {x \in Sent[s] : x.balance = b})
RowMoved(s, b) ==
    (IF b = DoneAt THEN sub[s].accepted ELSE 0)
  + (IF b = ScrapAt THEN sub[s].rejected ELSE 0)
  - (IF sub[s].status \in {"material_sent", "received", "completed"} THEN TakenOut(s, b) ELSE 0)
SubMoved(b) == SumOver([s \in SubOrders |-> RowMoved(s, b)], SubOrders)
=============================================================================
