-------------------------------- MODULE Costs --------------------------------
(***************************************************************************)
(* What stock is worth: finance/cost_services.py.  Goods come in at their  *)
(* cost and go out at the average of their balance; a piece may have a     *)
(* cost of its own.  Amounts are in the smallest unit a column keeps, in   *)
(* the company's currency, so that an average is rounded when it is saved. *)
(*                                                                         *)
(* Both services look for the key before they hold the balance; of two     *)
(* requests that overlap, the unique key rolls the later one back, as if   *)
(* it had seen the earlier.  So a repeated key changes nothing and is left *)
(* out, and each service is one action.  Cost records are neither changed  *)
(* nor deleted (save, delete and a trigger refuse).                        *)
(***************************************************************************)
EXTENDS Totals, Sequences, FiniteSets

CONSTANTS
  CostBalances,  \* a SKU in a warehouse
  MaxCosts,      \* bound: cost records
  Purchases,     \* [qty, cost] of what comes in
  IssuedQty,     \* quantities that go out
  Pieces, PieceCosts,
  NoCost

ASSUME CostAssumption ==
  /\ MaxCosts \in Nat
  /\ Purchases \subseteq [qty : Nat \ {0}, cost : Nat \ {0}]
  /\ IssuedQty \subseteq Nat \ {0} /\ PieceCosts \subseteq Nat /\ NoCost \notin Nat

VARIABLES
  worth,         \* fin_inventory_cost_balance
  costs,         \* fin_cost_record, in the order of its ids; reverses 0: nothing
  pieceCost      \* fin_serial_cost

costVars == <<worth, costs, pieceCost>>

CostInit ==
  /\ worth = [b \in CostBalances |-> [qty |-> 0, total |-> 0, average |-> 0]]
  /\ costs = <<>>
  /\ pieceCost = [p \in Pieces |-> NoCost]

CostIds == 1..Len(costs)

AppendCost(b, qty, cost, reverses) ==
  /\ Len(costs) < MaxCosts
  /\ costs' = Append(costs, [at |-> b, qty |-> qty, cost |-> cost, reverses |-> reverses])

\* The quotient as the column keeps it.
Rounded(total, qty) == (2 * total + qty) \div (2 * qty)

\* receive_weighted_cost.
ReceiveCost(b, qty, cost) ==
  LET total == worth[b].total + cost
      n == worth[b].qty + qty IN
  /\ worth' = [worth EXCEPT ![b] = [qty |-> n, total |-> total, average |-> Rounded(total, n)]]
  /\ AppendCost(b, qty, cost, 0)
  /\ UNCHANGED pieceCost

\* What an issue leaves: the last one takes the rest of the amount.  The fault
\* leaves it there.
AfterIssue_Kept(w, qty) == [w EXCEPT !.qty = w.qty - qty, !.total = w.total - w.average * qty]
AfterIssue(w, qty) ==
  IF qty = w.qty THEN [qty |-> 0, total |-> 0, average |-> 0]
  ELSE [w EXCEPT !.qty = w.qty - qty, !.total = w.total - w.average * qty]

\* issue_weighted_cost; the tables admit no negative amount and no record of
\* nothing.
IssueCost(b, qty) ==
  /\ qty <= worth[b].qty /\ worth[b].average > 0
  /\ AfterIssue(worth[b], qty).total >= 0
  /\ worth' = [worth EXCEPT ![b] = AfterIssue(worth[b], qty)]
  /\ AppendCost(b, -qty, -worth[b].average * qty, 0)
  /\ UNCHANGED pieceCost

\* reverse_cost_record, of a reversal too, under the lock of the record.  It
\* leaves the balance alone.
ReverseCost(i) ==
  /\ \A j \in CostIds : costs[j].reverses # i
  /\ AppendCost(costs[i].at, -costs[i].qty, -costs[i].cost, i)
  /\ UNCHANGED <<worth, pieceCost>>

\* assign_serial_cost.
AssignCost(p, cost) ==
  /\ pieceCost[p] = NoCost
  /\ pieceCost' = [pieceCost EXCEPT ![p] = cost]
  /\ UNCHANGED <<worth, costs>>

CostNext ==
  \/ \E b \in CostBalances :
       \/ \E p \in Purchases : ReceiveCost(b, p.qty, p.cost)
       \/ \E qty \in IssuedQty : IssueCost(b, qty)
  \/ \E i \in CostIds : ReverseCost(i)
  \/ \E p \in Pieces, cost \in PieceCosts : AssignCost(p, cost)

CostSpec == CostInit /\ [][CostNext]_costVars
-----------------------------------------------------------------------------
WorthRow == [qty : Nat, total : Nat, average : Nat]
CostRow == [at : CostBalances, qty : Int \ {0}, cost : Int \ {0}, reverses : Nat]

CostTypeOK ==
  /\ worth \in [CostBalances -> WorthRow]
  /\ \A i \in CostIds : costs[i] \in CostRow /\ costs[i].reverses < i
  /\ pieceCost \in [Pieces -> Nat \cup {NoCost}]

\* A record that moved the balance b; what the first n of them add up to.
Moved(b, i) == costs[i].at = b /\ costs[i].reverses = 0
QtyUpTo(b, n) == Total([i \in CostIds |-> IF Moved(b, i) THEN costs[i].qty ELSE 0], n)
\* The last record after which b was empty, and the last that came in.
Emptied(b) ==
  CHOOSE n \in 0..Len(costs) :
    /\ QtyUpTo(b, n) = 0
    /\ \A m \in (n + 1)..Len(costs) : QtyUpTo(b, m) # 0
LastReceipt(b) ==
  CHOOSE n \in CostIds :
    /\ Moved(b, n) /\ costs[n].qty > 0
    /\ \A m \in (n + 1)..Len(costs) : Moved(b, m) => costs[m].qty < 0

\* A balance is what its records say since it was last empty, the reversals left
\* out, and an empty balance is worth nothing; the average is never further from
\* the amount than the rounding of the last receipt, however much is issued since
\* (receive_weighted_cost, issue_weighted_cost).  A record is reversed once, in full.
CostsAreExplained ==
  /\ CostTypeOK
  /\ \A b \in CostBalances :
       LET since == {i \in CostIds : i > Emptied(b) /\ Moved(b, i)}
           w == worth[b] IN
       /\ w.qty = QtyUpTo(b, Len(costs))
       /\ w.total = Total([i \in CostIds |-> IF i \in since THEN costs[i].cost ELSE 0], Len(costs))
       /\ w.qty > 0 =>
            LET drift == w.total - w.average * w.qty
                bound == QtyUpTo(b, LastReceipt(b)) IN
            2 * drift <= bound /\ -bound <= 2 * drift
  /\ \A i \in CostIds : costs[i].reverses # 0 =>
       /\ costs[i].qty = -costs[costs[i].reverses].qty
       /\ costs[i].cost = -costs[costs[i].reverses].cost
       /\ \A j \in CostIds \ {i} : costs[j].reverses # costs[i].reverses
=============================================================================
