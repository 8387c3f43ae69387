------------------------------ MODULE Production ------------------------------
(***************************************************************************)
(* Production orders: materials issued and output booked                   *)
(* (manufacturing/services.py), and the suggestions orders are made of     *)
(* (extended_services.py).  Every service locks the order's row first, so  *)
(* that each is one action.  A suggestion can be edited: reading and       *)
(* saving it are two.  Operations are not reported: report_operation asks  *)
(* PostgreSQL to lock the nullable side of an outer join (routing), which  *)
(* it refuses.                                                             *)
(*                                                                         *)
(* Components are the materials of the BOM, numbered as their balances     *)
(* are; of each, PerUnit goes into one unit of output.  returned_qty of a  *)
(* consumption is written by nothing in the code, and left out.            *)
(***************************************************************************)
EXTENDS StockBooks, Effective, Totals, Sequences

CONSTANTS
  ProdOrders,
  BomOf, RoutingOf, Planned,
  NC, PerUnit,          \* materials of a BOM, and the standard quantity of each
  ComponentAt,          \* the balance a material is taken from
  GoodAt, RejectAt,     \* the balances output goes to
  ProdKeys,             \* the idempotency keys of issues and completions
  IssueChoices, OutputChoices, UseChoices,   \* bound: quantities
  Suggestions, Unconverted, MaxSuggestionForms

ASSUME ProductionAssumption ==
  /\ NC \in Nat /\ Planned \in [ProdOrders -> Nat \ {0}] /\ PerUnit \in [1..NC -> Nat]
  /\ Unconverted \notin Suggestions
  /\ Unconverted \notin [status : {"open", "accepted", "converted"}, order : ProdOrders \cup {Unconverted}]
  /\ IssueChoices \subseteq [1..NC -> Nat] /\ UseChoices \subseteq [1..NC -> Nat]
  /\ OutputChoices \subseteq [good : Nat, rejected : Nat]

VARIABLES
  prodOrder,     \* mfg_production_order: status, version, output so far
  usage,         \* mfg_consumption: of an order and a material
  issue,         \* mfg_material_issue, by key: order and quantities
  completion,    \* mfg_production_completion, by key
  suggestion,    \* status and order of a suggestion
  suggestionForm, suggestionForms,
  reoffered      \* history: how often an edit took the conversion of a suggestion back

productionVars == <<stockVars, prodOrder, usage, issue, completion,
                    suggestion, suggestionForm, suggestionForms, reoffered>>
suggestionVars == <<suggestion, suggestionForm, suggestionForms, reoffered>>

Components == 1..NC
ProdStatus == {"none", "draft", "approved", "released", "in_progress",
               "partially_completed", "completed", "closed"}
OrderRow == [status : ProdStatus, version : Nat, completed : Nat, accepted : Nat,
             rejected : Nat, source : Suggestions \cup {Unconverted}]
UsageRow == [seen : BOOLEAN, issued : Nat, actual : Nat, standard : Nat, loss : Nat]
IssueRow == [order : ProdOrders, qty : [Components -> Nat]]
CompletionRow == [order : ProdOrders, out : [good : Nat, rejected : Nat], used : [Components -> Nat]]
SuggestionRow == [status : {"open", "accepted", "converted"}, order : ProdOrders \cup {Unconverted}]
NoUsage == [seen |-> FALSE, issued |-> 0, actual |-> 0, standard |-> 0, loss |-> 0]
NoOrder == [status |-> "none", version |-> 1, completed |-> 0, accepted |-> 0,
            rejected |-> 0, source |-> Unconverted]

ProductionInit ==
  /\ prodOrder = [o \in ProdOrders |-> NoOrder]
  /\ usage = [o \in ProdOrders |-> [c \in Components |-> NoUsage]]
  /\ issue = <<>> /\ completion = <<>>
  /\ suggestion = [s \in Suggestions |-> [status |-> "open", order |-> Unconverted]]
  /\ suggestionForm = [s \in Suggestions |-> Unconverted]
  /\ suggestionForms = 0 /\ reoffered = [s \in Suggestions |-> 0]

\* A table keyed by the client's idempotency key.
Posted(table, k) == k \in DOMAIN table
With(table, k, row) == [x \in DOMAIN table \cup {k} |-> IF x = k THEN row ELSE table[x]]

SetOrder(o, row) == prodOrder' = [prodOrder EXCEPT ![o] = [row EXCEPT !.version = @ + 1]]
NewOrder(o, source) ==
  /\ prodOrder[o].status = "none"
  /\ prodOrder' = [prodOrder EXCEPT ![o].status = "draft", ![o].source = source]

\* ProductionOrderSerializer.create.
PlanOrder(o) ==
  /\ NewOrder(o, Unconverted)
  /\ UNCHANGED <<stockVars, usage, issue, completion, suggestionVars>>

\* transition_production_order; approval asks for a BOM in force.
ProdTarget(o, action) ==
  CASE action = "approve" /\ prodOrder[o].status = "draft"
         /\ version[BomOf[o]].status = "active" -> "approved"
    [] action = "release" /\ prodOrder[o].status = "approved" -> "released"
    [] action = "close" /\ prodOrder[o].status = "completed" -> "closed"
    [] OTHER -> "refused"

MoveOrder(o, action, expected) ==
  /\ prodOrder[o].version = expected /\ ProdTarget(o, action) # "refused"
  /\ SetOrder(o, [prodOrder[o] EXCEPT !.status = ProdTarget(o, action)])
  /\ UNCHANGED <<stockVars, usage, issue, completion, suggestionVars>>

\* What an issue and a completion may ask for.
IssueInputs == {q \in IssueChoices : \E c \in Components : q[c] > 0}
OutputInputs == {out \in OutputChoices : out.good + out.rejected > 0}

\* The ledger rows of an issue: lines are numbered in the order of their balances.
IssueRows(k, q) ==
  LET taken == {c \in Components : q[c] > 0} IN
  {[key |-> <<k, "line", Cardinality({d \in taken : d <= c})>>,
    balance |-> ComponentAt[c], delta |-> -q[c]] : c \in taken}

\* What a consumption says after q was issued; the standard is that of the whole order.
Issued(u, o, c, q) ==
  [seen |-> TRUE, issued |-> u.issued + q, actual |-> u.actual,
   standard |-> Planned[o] * PerUnit[c], loss |-> u.loss]

\* issue_production_materials.  The order is in progress again, whatever was
\* completed of it.
IssueMaterials(o, k, q) ==
  /\ ~Posted(issue, k)
  /\ prodOrder[o].status \in {"released", "in_progress", "partially_completed"}
  /\ q \in IssueInputs
  /\ Book(IssueRows(k, q))
  /\ issue' = With(issue, k, [order |-> o, qty |-> q])
  /\ usage' = [usage EXCEPT ![o] = [c \in Components |->
       IF q[c] = 0 THEN usage[o][c] ELSE Issued(usage[o][c], o, c, q[c])]]
  /\ SetOrder(o, [prodOrder[o] EXCEPT !.status = "in_progress"])
  /\ UNCHANGED <<completion, suggestionVars>>

\* The ledger rows of a completion; the fault puts all of it with the good output.
OutputRows_Good(k, out) ==
  {[key |-> <<k, "A">>, balance |-> GoodAt, delta |-> out.good + out.rejected]}
OutputRows(k, out) ==
  {r \in {[key |-> <<k, "A">>, balance |-> GoodAt, delta |-> out.good],
          [key |-> <<k, "R">>, balance |-> RejectAt, delta |-> out.rejected]} : r.delta > 0}

\* What a consumption says after used of it went into a total output of made.
Consumed(u, c, used, made) ==
  LET standard == made * PerUnit[c] IN
  [seen |-> u.seen, issued |-> u.issued, actual |-> u.actual + used, standard |-> standard,
   loss |-> IF u.actual + used > standard THEN (u.actual + used) - standard ELSE 0]

\* The status that a total output of made gives; the fault counts good output only.
OutputStatus_Good(o, made, good) ==
  IF prodOrder[o].accepted + good = Planned[o] THEN "completed" ELSE "partially_completed"
OutputStatus(o, made, good) ==
  IF made = Planned[o] THEN "completed" ELSE "partially_completed"

\* complete_production: every material was issued, and no more is used up than was.
Complete(o, k, out, used) ==
  LET made == prodOrder[o].completed + out.good + out.rejected IN
  /\ ~Posted(completion, k)
  /\ prodOrder[o].status \in {"in_progress", "partially_completed"}
  /\ out \in OutputInputs /\ made <= Planned[o]
  /\ \A c \in Components :
       usage[o][c].seen /\ usage[o][c].actual + used[c] <= usage[o][c].issued
  /\ Book(OutputRows(k, out))
  /\ completion' = With(completion, k, [order |-> o, out |-> out, used |-> used])
  /\ usage' = [usage EXCEPT ![o] = [c \in Components |-> Consumed(usage[o][c], c, used[c], made)]]
  /\ SetOrder(o, [prodOrder[o] EXCEPT !.completed = made, !.accepted = @ + out.good,
                    !.rejected = @ + out.rejected, !.status = OutputStatus(o, made, out.good)])
  /\ UNCHANGED <<issue, suggestionVars>>

\* convert_suggestion: a draft order of the suggested quantity; a routing in force.
Convert(s, o) ==
  /\ suggestion[s].status \in {"open", "accepted"}
  /\ RoutingOf[o] \in Routings => version[RoutingOf[o]].status = "active"
  /\ NewOrder(o, s)
  /\ suggestion' = [suggestion EXCEPT ![s] = [status |-> "converted", order |-> o]]
  /\ UNCHANGED <<stockVars, usage, issue, completion,
                 suggestionForm, suggestionForms, reoffered>>

\* SuggestionViewSet.partial_update.
OpenSuggestionForm(s) ==
  /\ suggestionForms < MaxSuggestionForms /\ suggestionForm[s] = Unconverted
  /\ suggestionForm' = [suggestionForm EXCEPT ![s] = suggestion[s]]
  /\ suggestionForms' = suggestionForms + 1
  /\ UNCHANGED <<stockVars, prodOrder, usage, issue, completion, suggestion, reoffered>>

SaveSuggestionForm(s) ==
  /\ suggestionForm[s] # Unconverted
  /\ suggestion' = [suggestion EXCEPT ![s] = suggestionForm[s]]
  /\ suggestionForm' = [suggestionForm EXCEPT ![s] = Unconverted]
  /\ reoffered' = [reoffered EXCEPT ![s] = @ +
       IF suggestion[s].status = "converted" /\ suggestionForm[s].status # "converted" THEN 1 ELSE 0]
  /\ UNCHANGED <<stockVars, prodOrder, usage, issue, completion, suggestionForms>>

\* Orders, their materials and their output; suggestions.
WorkNext ==
  \E o \in ProdOrders :
       \/ PlanOrder(o)
       \/ \E action \in {"approve", "release", "close"}, v \in 1..prodOrder[o].version :
            MoveOrder(o, action, v)
       \/ \E k \in ProdKeys, q \in IssueChoices : IssueMaterials(o, k, q)
       \/ \E k \in ProdKeys, out \in OutputChoices, used \in UseChoices : Complete(o, k, out, used)
SuggestionNext ==
  \E s \in Suggestions :
    OpenSuggestionForm(s) \/ SaveSuggestionForm(s) \/ \E o \in ProdOrders : Convert(s, o)
-----------------------------------------------------------------------------
ProductionTypeOK ==
  /\ prodOrder \in [ProdOrders -> OrderRow]
  /\ usage \in [ProdOrders -> [Components -> UsageRow]]
  /\ \A k \in DOMAIN issue : issue[k] \in IssueRow
  /\ \A k \in DOMAIN completion : completion[k] \in CompletionRow
  /\ suggestion \in [Suggestions -> SuggestionRow]

\* The rows of a table that are of one order.
RowsOf(table, o) == {k \in DOMAIN table : table[k].order = o}

\* The loss of a completed order is what its output used beyond the standard,
\* however its materials were issued in between (complete_production).
LossIsExact ==
  \A o \in ProdOrders : \A c \in Components :
    prodOrder[o].status \in {"completed", "closed"} =>
      LET over == usage[o][c].actual - Planned[o] * PerUnit[c]
      IN usage[o][c].loss = IF over > 0 THEN over ELSE 0

\* An order's output is what its completions add up to, never more than was
\* planned; it is complete exactly when nothing is left to make; of each material
\* no more is used up than was issued, and its loss is exact (complete_production,
\* issue_production_materials).
OutputIsCounted ==
  /\ ProductionTypeOK /\ LossIsExact
  /\ \A o \in ProdOrders :
       /\ prodOrder[o].accepted = SumOver([k \in DOMAIN completion |-> completion[k].out.good], RowsOf(completion, o))
       /\ prodOrder[o].completed = SumOver([k \in DOMAIN completion |->
              completion[k].out.good + completion[k].out.rejected], RowsOf(completion, o))
       /\ prodOrder[o].completed <= Planned[o]
       /\ prodOrder[o].status \in {"completed", "closed"} <=> prodOrder[o].completed = Planned[o]
       /\ \A c \in Components :
            /\ usage[o][c].issued = SumOver([k \in DOMAIN issue |-> issue[k].qty[c]], RowsOf(issue, o))
            /\ usage[o][c].actual = SumOver([k \in DOMAIN completion |-> completion[k].used[c]], RowsOf(completion, o))
            /\ usage[o][c].actual <= usage[o][c].issued
=============================================================================
