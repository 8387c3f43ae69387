------------------------------- MODULE Prepack -------------------------------
(***************************************************************************)
(* Packing ahead and unpacking: prepack/services.py over the stock and the *)
(* packaging plans in force.  Each service locks the order's row first.    *)
(*                                                                         *)
(* A pack or an unpack is kept under the client's key, in a table of its   *)
(* own; but the ledger rows both write for their materials are named       *)
(* "<key>:material:<plan item>", so that a key that was used for a pack    *)
(* and for an unpack books the material only once.                         *)
(***************************************************************************)
EXTENDS StockBooks, Effective, Totals, Sequences

CONSTANTS
  Packs,         \* prepack orders
  PlanOf, PackPlanned,
  Items,         \* the materials of a plan: plan items
  ItemAt,        \* the balance a material is taken from and put back to
  Returnable,    \* items that come back when a pack is broken down
  LooseAt, PackedAt,   \* balances of the product before and after packing
  PackKeys, PackQty, UsedChoices, BackChoices   \* bounds

ASSUME PrepackAssumption ==
  /\ PackPlanned \in [Packs -> Nat] /\ PackQty \subseteq Nat
  /\ IsFiniteSet(Items) /\ UsedChoices \subseteq [Items -> Nat] /\ BackChoices \subseteq [Items -> Nat]

VARIABLES
  pack,          \* ppk_order
  execution,     \* ppk_execution and its material usages, by key
  breakdown      \* ppk_breakdown and the materials it returned, by key

prepackVars == <<stockVars, pack, execution, breakdown>>

PackRow == [status : {"draft", "approved", "partially_completed", "completed"},
            version : Nat, completed : Nat, broken : Nat]
ExecutionRow == [order : Packs, qty : Nat, used : [Items -> Nat]]
BreakdownRow == [order : Packs, qty : Nat, back : [Items -> Nat]]

PrepackInit ==
  /\ pack = [p \in Packs |-> [status |-> "draft", version |-> 1, completed |-> 0, broken |-> 0]]
  /\ execution = <<>> /\ breakdown = <<>>

In(table, k) == k \in DOMAIN table
Add(table, k, row) == [x \in DOMAIN table \cup {k} |-> IF x = k THEN row ELSE table[x]]

\* approve_prepack_order: a plan in force.
ApprovePack(p, expected) ==
  /\ pack[p].version = expected /\ pack[p].status = "draft"
  /\ version[PlanOf[p]].status = "active"
  /\ pack' = [pack EXCEPT ![p].status = "approved", ![p].version = @ + 1]
  /\ UNCHANGED <<stockVars, execution, breakdown>>

ProductRows(k, n, out, in, kinds) ==
  {[key |-> <<k, kinds[1]>>, balance |-> out, delta |-> -n],
   [key |-> <<k, kinds[2]>>, balance |-> in, delta |-> n]}
MaterialRows(k, q, sign) ==
  {[key |-> <<k, "material", i>>, balance |-> ItemAt[i], delta |-> sign * q[i]] :
     i \in {j \in Items : q[j] > 0}}

\* execute_prepack of n with used[i] of every material.
ExecutePack(p, k, n, used) ==
  /\ ~In(execution, k)
  /\ pack[p].status \in {"approved", "partially_completed"}
  /\ n > 0 /\ pack[p].completed + n <= PackPlanned[p]
  /\ \A i \in Items : used[i] > 0
  /\ Book(ProductRows(k, n, LooseAt, PackedAt, <<"product-source", "product-target">>)
          \cup MaterialRows(k, used, -1))
  /\ execution' = Add(execution, k, [order |-> p, qty |-> n, used |-> used])
  /\ pack' = [pack EXCEPT ![p] =
       [status |-> IF @.completed + n = PackPlanned[p] THEN "completed" ELSE "partially_completed",
        version |-> @.version + 1, completed |-> @.completed + n, broken |-> @.broken]]
  /\ UNCHANGED breakdown

\* The executions or the breakdowns of an order.
WorkOf(table, p) == {k \in DOMAIN table : table[k].order = p}
Used(p, i) == SumOver([k \in DOMAIN execution |-> execution[k].used[i]], WorkOf(execution, p))
PutBack(p, i) == SumOver([k \in DOMAIN breakdown |-> breakdown[k].back[i]], WorkOf(breakdown, p))

\* What may still come back of a material; the fault looks at this breakdown only.
MayReturn_Once(p, i, q) == q <= Used(p, i)
MayReturn(p, i, q) == PutBack(p, i) + q <= Used(p, i)

\* breakdown_prepack of n that puts back[i] of some materials back.
BreakDown(p, k, n, back) ==
  /\ ~In(breakdown, k)
  /\ n > 0 /\ pack[p].broken + n <= pack[p].completed
  /\ \A i \in Items : back[i] > 0 => i \in Returnable /\ MayReturn(p, i, back[i])
  /\ Book(ProductRows(k, n, PackedAt, LooseAt, <<"product-prepacked", "product-restored">>)
          \cup MaterialRows(k, back, 1))
  /\ breakdown' = Add(breakdown, k, [order |-> p, qty |-> n, back |-> back])
  /\ pack' = [pack EXCEPT ![p].version = @ + 1, ![p].broken = @ + n]
  /\ UNCHANGED execution

PrepackNext ==
  \E p \in Packs :
    \/ \E v \in 1..pack[p].version : ApprovePack(p, v)
    \/ \E k \in PackKeys, n \in PackQty :
         \/ \E used \in UsedChoices : ExecutePack(p, k, n, used)
         \/ \E back \in BackChoices : BreakDown(p, k, n, back)
-----------------------------------------------------------------------------
PrepackTypeOK ==
  /\ pack \in [Packs -> PackRow]
  /\ \A k \in DOMAIN execution : execution[k] \in ExecutionRow
  /\ \A k \in DOMAIN breakdown : breakdown[k] \in BreakdownRow

\* What is packed and what is unpacked of an order is what its executions and
\* breakdowns say; no more is packed than planned, no more unpacked than
\* packed, and no more material comes back than went in (execute_prepack,
\* breakdown_prepack).
PacksAreCounted ==
  PrepackTypeOK /\
  \A p \in Packs :
    /\ pack[p].completed = SumOver([k \in DOMAIN execution |-> execution[k].qty], WorkOf(execution, p))
    /\ pack[p].broken = SumOver([k \in DOMAIN breakdown |-> breakdown[k].qty], WorkOf(breakdown, p))
    /\ pack[p].broken <= pack[p].completed /\ pack[p].completed <= PackPlanned[p]
    /\ \A i \in Items : PutBack(p, i) <= Used(p, i)
=============================================================================
