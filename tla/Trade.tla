--------------------------------- MODULE Trade ---------------------------------
(***************************************************************************)
(* Foreign trade: shipments (here "consignments"), the boxes packed for    *)
(* them, and their papers: trade documents, customs declarations,          *)
(* forwarder settlements and contracts (trade/services.py, trade/api.py).  *)
(*                                                                         *)
(* The services and the transitions lock what they decide on, and are one  *)
(* action each.  Edits do not: the status is looked at, if at all, in the  *)
(* copy the request read, and every column of the copy is saved, so that   *)
(* an edit is two actions.  Serial numbers in boxes are left out, and so   *)
(* are trade costs: their transition asks PostgreSQL to lock the nullable  *)
(* side of an outer join (service_party), which it refuses.                *)
(***************************************************************************)
EXTENDS Totals, FiniteSets

CONSTANTS
  Consignments,  \* trd_shipment
  Boxes,         \* trd_package
  TradeLines,    \* order lines, each of an order of its own with trade details
  OrderedQty,    \* ordered_qty of a line
  Papers, KindOf,   \* documents, customs declarations, settlements and contracts
  Author, Signers,  \* created_by of a paper; users who issue and approve
  PackQty, MaxTradeEdits, MaxMoves,   \* bounds
  Nothing        \* no row, no request

ASSUME TradeAssumption ==
  /\ IsFiniteSet(Boxes) /\ OrderedQty \in [TradeLines -> Nat] /\ PackQty \subseteq Nat
  /\ KindOf \in [Papers -> {"document", "customs", "settlement", "contract"}]
  /\ Papers \cap Boxes = {} /\ Papers \cap Consignments = {} /\ Boxes \cap Consignments = {}

VARIABLES
  consignment,   \* [status, lines, count] of a shipment
  box,           \* [of, status, items] of a package, or Nothing
  cancelled,     \* order lines that were cancelled
  paper,         \* [status, text] of a paper
  request,       \* the edit at work: [what, copy], or Nothing
  tradeEdits, moves,   \* bounds: edits begun, moves on the way of a shipment or a paper
  sent,          \* history: [box, items] of every box that left
  given,         \* history: [paper, text, by] of every paper that was given out
  overwritten    \* history: what an edit saved over a later state, or moved

tradeVars == <<consignment, box, cancelled, paper, request, tradeEdits, moves, sent, given, overwritten>>

ConsignmentRow == [status : {"planned", "arranging", "confirmed", "packing", "documents", "dispatch_ready",
  "dispatched", "in_transit", "arrived", "delivered", "completed", "exception"},
  lines : SUBSET TradeLines, count : 0..Cardinality(Boxes)]
BoxRow == [of : Consignments, status : {"draft", "packing", "review", "sealed", "dispatched"},
  items : [TradeLines -> Nat]]
ASSUME NoBoxAssumption == Nothing \notin BoxRow
PaperRow == [status : {"draft", "generated", "issued", "void", "submitted", "cleared", "rejected",
  "cancelled", "confirmed", "paid", "reconciled", "approved"}, text : Nat]

TradeInit ==
  /\ consignment = [s \in Consignments |-> [status |-> "planned", lines |-> {}, count |-> 0]]
  /\ box = [b \in Boxes |-> Nothing] /\ cancelled = {}
  /\ paper = [p \in Papers |-> [status |-> "draft", text |-> 0]]
  /\ request = Nothing /\ tradeEdits = 0 /\ moves = 0 /\ sent = {} /\ given = {} /\ overwritten = {}

papersUnchanged == UNCHANGED <<paper, request, tradeEdits, given, overwritten>>
-----------------------------------------------------------------------------
\* add_order, of an order that is not cancelled.
AddOrder(s, l) ==
  /\ consignment[s].status \in {"planned", "arranging"} /\ l \notin cancelled
  /\ consignment' = [consignment EXCEPT ![s].lines = @ \cup {l}]
  /\ papersUnchanged /\ UNCHANGED <<box, cancelled, moves, sent>>

\* The order of a line is cancelled; trade is not asked.
CancelOrder(l) ==
  /\ l \notin cancelled /\ cancelled' = cancelled \cup {l}
  /\ papersUnchanged /\ UNCHANGED <<consignment, box, moves, sent>>

SetBox(b, row) ==
  /\ box' = [box EXCEPT ![b] = row]
  /\ papersUnchanged /\ UNCHANGED <<consignment, cancelled, moves, sent>>

\* The endpoint creates a package for a shipment in any status.
CreateBox(b, s) ==
  /\ box[b] = Nothing
  /\ SetBox(b, [of |-> s, status |-> "draft", items |-> [l \in TradeLines |-> 0]])

BoxesOf(s) == {b \in Boxes : box[b] # Nothing /\ box[b].of = s}
Items(l) == [b \in Boxes |-> IF box[b] = Nothing THEN 0 ELSE box[b].items[l]]
Packed(s, l) == SumOver(Items(l), BoxesOf(s))

Fits(b, l, n) == Packed(box[b].of, l) + n <= IF l \in cancelled THEN 0 ELSE OrderedQty[l]

\* A fault: a sealed box can be packed.
Packable_Sealed(b) == box[b] # Nothing /\ box[b].status \in {"draft", "packing", "sealed", "dispatched"}
Packable(b) == box[b] # Nothing /\ box[b].status \in {"draft", "packing"}

\* pack_items: it locks the shipment with the box, and looks at what is packed
\* for this shipment alone.
Pack(b, l, n) ==
  /\ Packable(b) /\ l \in consignment[box[b].of].lines /\ Fits(b, l, n)
  /\ SetBox(b, [of |-> box[b].of, status |-> "packing", items |-> [box[b].items EXCEPT ![l] = @ + n]])

\* submit_package, review_package and open_package.
SubmitBox(b) ==
  /\ box[b] # Nothing /\ box[b].status = "packing" /\ \E l \in TradeLines : box[b].items[l] > 0
  /\ SetBox(b, [box[b] EXCEPT !.status = "review"])
ReviewBox(b, approved) ==
  /\ box[b] # Nothing /\ box[b].status = "review"
  /\ SetBox(b, [box[b] EXCEPT !.status = IF approved THEN "sealed" ELSE "packing"])
OpenBox(b) ==
  /\ box[b] # Nothing /\ box[b].status = "sealed"
  /\ SetBox(b, [box[b] EXCEPT !.status = "packing"])
-----------------------------------------------------------------------------
Way == {<<"planned", "arranging">>, <<"arranging", "confirmed">>, <<"confirmed", "packing">>,
        <<"packing", "documents">>, <<"documents", "dispatch_ready">>, <<"dispatched", "in_transit">>,
        <<"in_transit", "arrived">>, <<"arrived", "delivered">>, <<"delivered", "completed">>}

AllSealed(s) == BoxesOf(s) # {} /\ \A b \in BoxesOf(s) : box[b].status = "sealed"

SetConsignment(s, status, count) ==
  /\ consignment' = [consignment EXCEPT ![s].status = status, ![s].count = count]
  /\ papersUnchanged /\ UNCHANGED cancelled

\* transition_shipment.
MoveOn(s, step) ==
  /\ moves < MaxMoves /\ moves' = moves + 1
  /\ step \in Way /\ consignment[s].status = step[1]
  /\ step[2] = "documents" => AllSealed(s)
  /\ SetConsignment(s, step[2], consignment[s].count) /\ UNCHANGED <<box, sent>>

\* dispatch_shipment: the boxes leave as they are.
Dispatch(s) ==
  /\ consignment[s].status = "dispatch_ready" /\ AllSealed(s)
  /\ SetConsignment(s, "dispatched", Cardinality(BoxesOf(s)))
  /\ box' = [b \in Boxes |-> IF b \in BoxesOf(s) THEN [box[b] EXCEPT !.status = "dispatched"] ELSE box[b]]
  /\ sent' = sent \cup {[box |-> b, items |-> box[b].items] : b \in BoxesOf(s)}
  /\ UNCHANGED moves

\* record_exception; no transition leads out of an exception.
RecordException(s) ==
  /\ consignment[s].status # "completed"
  /\ SetConsignment(s, "exception", consignment[s].count) /\ UNCHANGED <<box, moves, sent>>
-----------------------------------------------------------------------------
\* The moves of the papers: TradeDocumentViewSet, the transitions of
\* CustomsDeclarationViewSet and ForwarderSettlementViewSet, approve_contract.
PaperWay == [document |-> {<<"draft", "generated">>, <<"generated", "issued">>, <<"draft", "void">>,
               <<"generated", "void">>, <<"issued", "void">>},
             customs |-> {<<"draft", "submitted">>, <<"draft", "cancelled">>, <<"submitted", "cleared">>,
               <<"submitted", "rejected">>, <<"submitted", "cancelled">>, <<"rejected", "draft">>,
               <<"rejected", "cancelled">>},
             settlement |-> {<<"draft", "confirmed">>, <<"confirmed", "paid">>, <<"paid", "reconciled">>},
             contract |-> {<<"draft", "approved">>}]
GivenOut == {"generated", "issued", "cleared", "confirmed", "approved"}

MovePaper(p, step, actor) ==
  /\ moves < MaxMoves /\ moves' = moves + 1
  /\ step \in PaperWay[KindOf[p]] /\ paper[p].status = step[1]
  /\ step[2] \in {"issued", "approved"} => actor # Author[p]
  /\ paper' = [paper EXCEPT ![p].status = step[2]]
  /\ given' = IF step[2] \in GivenOut
              THEN given \cup {[paper |-> p, text |-> paper[p].text, by |-> actor, as |-> step[2]]}
              ELSE given
  /\ UNCHANGED <<consignment, box, cancelled, request, tradeEdits, sent, overwritten>>

\* What can be edited: a contract always, the others as drafts.  A fault edits
\* what was generated.
Editable_Generated(p) == KindOf[p] = "contract" \/ paper[p].status \in {"draft", "generated"}
Editable(p) == KindOf[p] = "contract" \/ paper[p].status = "draft"

Row(x) == IF x \in Papers THEN paper[x] ELSE IF x \in Boxes THEN box[x] ELSE consignment[x]

OpenTradeEdit(x) ==
  /\ request = Nothing /\ tradeEdits < MaxTradeEdits /\ Row(x) # Nothing
  /\ x \in Papers => Editable(x)
  /\ request' = [what |-> x, copy |-> Row(x)] /\ tradeEdits' = tradeEdits + 1
  /\ UNCHANGED <<consignment, box, cancelled, paper, moves, sent, given, overwritten>>

\* The edit of a paper writes a new text; a box keeps its items, which have
\* rows of their own, and may go to another shipment; a shipment its lines.
SaveTradeEdit(s) ==
  LET x == request.what IN
  /\ request # Nothing
  /\ CASE x \in Papers -> /\ paper' = [paper EXCEPT ![x] = [request.copy EXCEPT !.text = tradeEdits]]
                          /\ UNCHANGED <<box, consignment>>
       [] x \in Boxes -> /\ box' = [box EXCEPT ![x] = [request.copy EXCEPT !.items = box[x].items, !.of = s]]
                         /\ UNCHANGED <<paper, consignment>>
       [] OTHER -> /\ consignment' = [consignment EXCEPT ![x] =
                                        [request.copy EXCEPT !.lines = consignment[x].lines]]
                   /\ UNCHANGED <<paper, box>>
  /\ overwritten' = IF Row(x) = request.copy /\ (x \in Boxes => s = box[x].of) THEN overwritten
                    ELSE overwritten \cup {x}
  /\ request' = Nothing
  /\ UNCHANGED <<cancelled, tradeEdits, moves, sent, given>>

BoxesNext ==
  \/ \E l \in TradeLines : CancelOrder(l) \/ \E s \in Consignments : AddOrder(s, l)
  \/ \E b \in Boxes : SubmitBox(b) \/ OpenBox(b)
       \/ \E approved \in BOOLEAN : ReviewBox(b, approved)
       \/ \E s \in Consignments : CreateBox(b, s)
       \/ \E l \in TradeLines, n \in PackQty : Pack(b, l, n)
  \/ \E s \in Consignments : Dispatch(s) \/ RecordException(s) \/ SaveTradeEdit(s)
       \/ \E step \in Way : MoveOn(s, step)
  \/ \E x \in Boxes \cup Consignments : OpenTradeEdit(x)

PapersNext ==
  \/ \E p \in Papers, actor \in Signers : \E step \in PaperWay[KindOf[p]] : MovePaper(p, step, actor)
  \/ \E p \in Papers : OpenTradeEdit(p)
  \/ \E s \in Consignments : SaveTradeEdit(s)

TradeNext == BoxesNext \/ PapersNext
TradeSpec == TradeInit /\ [][TradeNext]_tradeVars
-----------------------------------------------------------------------------
TradeTypeOK ==
  /\ consignment \in [Consignments -> ConsignmentRow]
  /\ \A b \in Boxes : box[b] = Nothing \/ box[b] \in BoxRow
  /\ paper \in [Papers -> PaperRow]

\* What left in a sealed box is what was reviewed, for good: nothing is added to
\* it, it is not opened, and no shipment holds more of an order line than was
\* ordered (pack_items, open_package, dispatch_shipment).
SentBoxesStand ==
  /\ \A x \in sent : x.box \in overwritten \/
       (box[x.box].items = x.items /\ box[x.box].status = "dispatched")
  /\ \A s \in Consignments, l \in TradeLines :
       BoxesOf(s) \cap overwritten = {} => Packed(s, l) <= OrderedQty[l]

\* What a paper is when others have it; a contract is left out, for approve_contract
\* is followed by no check of its status in any edit (ContractViewSet).
OutStatus == {"generated", "issued", "cleared", "confirmed", "paid", "reconciled"}
Stands(p) == KindOf[p] # "contract"

\* A document, a declaration or a settlement that others have says what was given
\* out under its name; and what was once given out it goes on saying, also when it
\* is void, unless an edit that was opened before brought it back to a draft
\* (TradeDocumentViewSet, StateControlledViewSet).
PapersStand ==
  /\ TradeTypeOK
  /\ \A p \in Papers : Stands(p) /\ paper[p].status \in OutStatus =>
       \E x \in given : x.paper = p /\ x.text = paper[p].text
  /\ \A x \in given : Stands(x.paper) /\ x.paper \notin overwritten => paper[x.paper].text = x.text
=============================================================================
