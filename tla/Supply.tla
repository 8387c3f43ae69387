--------------------------------- MODULE Supply ---------------------------------
(***************************************************************************)
(* Sourcing, purchasing, production, work done outside and packing ahead   *)
(* over one stock: what each takes out of it or brings into it is in its   *)
(* own documents and in one ledger.  A purchase order is made directly, or *)
(* by the award of a quote, in the award's transaction.                    *)
(***************************************************************************)
EXTENDS Purchasing, Sourcing, Production, Subcontract, Prepack

CONSTANTS
  Direct,        \* the orders that may be made directly
  Wanted,        \* the quantities of such an order's lines, by line number
  Plants         \* bound: which of the works are at work in a behaviour

ASSUME SupplyAssumption == Direct \subseteq Orders /\ Wanted \in [Direct -> Seq(Nat)]

VARIABLE plant

ownPurchasing == <<orderVars, returnVars, sourcingVars>>
ownProduction == <<prodOrder, usage, issue, completion, suggestionVars>>
ownSub == <<sub, subForm, subForms, backEvents, resent, subUsed>>
ownPrepack == <<pack, execution, breakdown>>
supplyVars == <<stockVars, effectiveVars, ownPurchasing, ownProduction, ownSub, ownPrepack, plant>>

SupplyInit ==
  /\ plant \in Plants
  /\ PurchasingInit /\ SourcingInit
  /\ EffectiveInit /\ ProductionInit /\ SubcontractInit /\ PrepackInit

\* award_quote: the sourcing half, and the order with one line for each of the quote's.
AwardQuote(f, t, o) ==
  /\ Award(f, t)
  /\ CreateOrder(o, Quoted[t])

BuyingNext ==
  \/ "buying" \in plant /\ PurchasingNext /\ UNCHANGED sourcingVars
  \/ "buying" \in plant /\ \E o \in Direct : CreateOrder(o, Wanted[o]) /\ UNCHANGED sourcingVars
  \/ "sourcing" \in plant /\ SourcingNext /\ UNCHANGED purchasingVars
  \/ "sourcing" \in plant /\ \E f \in Rfqs, t \in Quotes, o \in Orders : AwardQuote(f, t, o)

MakingNext ==
  \/ "versions" \in plant /\ EffectiveNext
                           /\ UNCHANGED <<stockVars, ownProduction, ownSub, ownPrepack>>
  \/ /\ \/ "production" \in plant /\ WorkNext
        \/ "suggestions" \in plant /\ SuggestionNext
     /\ UNCHANGED <<effectiveVars, ownSub, ownPrepack>>
  \/ "outside" \in plant /\ SubcontractNext /\ UNCHANGED <<effectiveVars, ownProduction, ownPrepack>>
  \/ "packing" \in plant /\ PrepackNext /\ UNCHANGED <<effectiveVars, ownProduction, ownSub>>

SupplyNext ==
  /\ UNCHANGED plant
  /\ \/ BuyingNext /\ UNCHANGED <<effectiveVars, ownProduction, ownSub, ownPrepack>>
     \/ MakingNext /\ UNCHANGED ownPurchasing

SupplySpec == SupplyInit /\ [][SupplyNext]_supplyVars
-----------------------------------------------------------------------------
\* Needs are ordered as often as somebody decided it.  An approved requisition is
\* sourced by one RFQ, whatever edits point where; an RFQ makes one order at
\* most, though an edit puts it back after its award, and it was issued on an
\* approved requisition before.  A suggestion becomes one order, and another one
\* for each time an edit took its conversion back (issue_rfq, award_quote,
\* RfqViewSet, convert_suggestion, SuggestionViewSet).
NeedsAreCounted ==
  /\ SourcingTypeOK
  /\ \A q \in Requisitions : Len(sourced[q]) <= 1
  /\ \A f \in Rfqs :
       /\ awards[f] <= 1 /\ (rfq[f].status = "awarded" => awards[f] = 1)
       /\ awards[f] > 0 => \E q \in Requisitions : sourced[q] = <<f>>
  /\ \A s \in Suggestions :
       Cardinality({o \in ProdOrders : prodOrder[o].source = s})
         = reoffered[s] + IF suggestion[s].status = "converted" THEN 1 ELSE 0

\* What the documents of production and packing move on a balance.
MadeOn(k, b) == (IF b = GoodAt THEN completion[k].out.good ELSE 0)
                + (IF b = RejectAt THEN completion[k].out.rejected ELSE 0)
IssuedOn(k, b) == SumOver(issue[k].qty, {c \in Components : ComponentAt[c] = b})
ProducedOn(b) ==
    SumOver([k \in DOMAIN completion |-> MadeOn(k, b)], DOMAIN completion)
  - SumOver([k \in DOMAIN issue |-> IssuedOn(k, b)], DOMAIN issue)

Side(b, n) == (IF b = PackedAt THEN n ELSE 0) - (IF b = LooseAt THEN n ELSE 0)
PackMaterials(q, b) == SumOver(q, {i \in Items : ItemAt[i] = b})
PackedOn(b) ==
    SumOver([k \in DOMAIN execution |->
        Side(b, execution[k].qty) - PackMaterials(execution[k].used, b)], DOMAIN execution)
  - SumOver([k \in DOMAIN breakdown |->
        Side(b, breakdown[k].qty) - PackMaterials(breakdown[k].back, b)], DOMAIN breakdown)

\* A client's key that two documents used for their materials, or two receipts.
MaterialUse(k) ==
  {x \in subUsed : x[1] = "sent" /\ x[3] = k}
    \cup {<<"pack">> : x \in {k} \cap DOMAIN execution}
    \cup {<<"unpack">> : x \in {k} \cap DOMAIN breakdown}
ReceiptUse(k) == {x \in subUsed : x[1] = "back" /\ x[3] = k}
KeysAreApart ==
  \A k \in ProdKeys \cup SubKeys \cup PackKeys :
    Cardinality(MaterialUse(k)) <= 1 /\ Cardinality(ReceiptUse(k)) <= 1

\* Whatever was inspected and returned, issued, completed, sent out, brought
\* back, packed and unpacked, the stock is what the documents say, as long as no
\* client used a key for two of them and no edit put a subcontract order back
\* (complete_purchase_inspection, dispatch_purchase_return, issue_production_materials,
\* complete_production, send_subcontract_materials, receive_subcontract,
\* execute_prepack, breakdown_prepack).
StockFollowsWork ==
  SubcontractTypeOK /\
  ((resent = {} /\ KeysAreApart) =>
    \A b \in Balances : onHand[b] = OpeningStock[b] + TakenIn(b) - SentBack(b)
                                  + ProducedOn(b) + SubMoved(b) + PackedOn(b))
=============================================================================
