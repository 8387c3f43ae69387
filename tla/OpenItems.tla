------------------------------ MODULE OpenItems ------------------------------
(***************************************************************************)
(* Receipts and payments (settlements) allocated to receivables and        *)
(* payables (open items): finance/services.py, and the edits of both in    *)
(* finance/api.py.                                                         *)
(*                                                                         *)
(* The services lock the settlement and the item, in this order, so each   *)
(* is one action.  An edit loads a row without a lock and later writes     *)
(* every column of its copy, the counter its serializer calls read-only    *)
(* too.  Spec has the services alone, FormSpec the edits as well.          *)
(***************************************************************************)
EXTENDS Totals

CONSTANTS
  Settlements, Items,
  Matching,      \* pairs of one company and party, receipt with receivable or
                 \* payment with payable
  Amount,        \* amount of each settlement when it is created
  Original,      \* original_amount of each item when it is created
  None,          \* no settlement and no item
  NA,            \* bound: allocation rows, numbered 1..NA
  Clerks,        \* users with an edit form open
  MaxEdits       \* bound: edits that are begun

ASSUME OpenItemAssumption ==
  /\ Matching \subseteq Settlements \X Items
  /\ Amount \in [Settlements -> Nat \ {0}] /\ Original \in [Items -> Nat \ {0}]
  /\ None \notin Settlements \cup Items
  /\ NA \in Nat /\ MaxEdits \in Nat

VARIABLES
  settlement,    \* fin_settlement: amount and allocated_amount
  item,          \* fin_open_item: original_amount, allocated_amount, status
  allocation,    \* fin_allocation; amount 0: not there yet
  form,          \* the row a clerk's edit has loaded
  edits

vars == <<settlement, item, allocation, form, edits>>
books == <<settlement, item, allocation>>

Rows == 1..NA
Absent == [of |-> None, on |-> None, amount |-> 0, reverses |-> 0]
NoForm == [of |-> "nothing"]

Init ==
  /\ settlement = [s \in Settlements |-> [amount |-> Amount[s], allocated |-> 0]]
  /\ item = [i \in Items |-> [original |-> Original[i], allocated |-> 0, status |-> "open"]]
  /\ allocation = [n \in Rows |-> Absent]
  /\ form = [c \in Clerks |-> NoForm]
  /\ edits = 0

\* A counter after a booking.  The faults leave out reversals, or
\* leave out allocations.
Counted_Kept(allocated, amount) == IF amount < 0 THEN allocated ELSE allocated + amount
Counted_Free(allocated, amount) == IF amount > 0 THEN allocated ELSE allocated + amount
Counted(allocated, amount) == allocated + amount

\* The next row of the table for the pair s, i, with both counters and the
\* item's status.
Book(n, s, i, amount, reverses, status) ==
  /\ allocation[n] = Absent /\ \A k \in 1..(n-1) : allocation[k] # Absent
  /\ allocation' = [allocation EXCEPT ![n] = [of |-> s, on |-> i, amount |-> amount,
                                              reverses |-> reverses]]
  /\ settlement' = [settlement EXCEPT ![s].allocated = Counted(@, amount)]
  /\ item' = [item EXCEPT ![i] = [item[i] EXCEPT !.allocated = Counted(@, amount), !.status = status]]
  /\ UNCHANGED <<form, edits>>

\* allocate.
Allocate(n, s, i, amount) ==
  /\ <<s, i>> \in Matching
  /\ amount > 0
  /\ settlement[s].allocated + amount <= settlement[s].amount
  /\ item[i].allocated + amount <= item[i].original
  /\ Book(n, s, i, amount, 0,
          IF item[i].allocated + amount = item[i].original THEN "settled" ELSE "partial")

\* The status reverse_allocation leaves.
StatusLeft(left) == IF left = 0 THEN "open" ELSE "partial"

\* The row that no reversal answers yet; the fault does not look.
Reversible_Again(k) == allocation[k] # Absent
Reversible(k) == allocation[k] # Absent /\ \A m \in Rows : allocation[m].reverses # k

\* reverse_allocation, of a reversal too.  It checks no amount: the constraints
\* of the tables do.
ReverseAllocation(n, k) ==
  LET row == allocation[k]
      left == item[row.on].allocated - row.amount IN
  /\ Reversible(k)
  /\ settlement[row.of].allocated - row.amount \in 0..settlement[row.of].amount
  /\ left \in 0..item[row.on].original
  /\ Book(n, row.of, row.on, -row.amount, k, StatusLeft(left))

Services ==
  \E n \in Rows :
    \/ \E s \in Settlements, i \in Items : \E amount \in 1..settlement[s].amount : Allocate(n, s, i, amount)
    \/ \E k \in Rows : ReverseAllocation(n, k)
-----------------------------------------------------------------------------
\* An edit loads its row (get_object).
Load(c, f) ==
  /\ form[c] = NoForm /\ edits < MaxEdits
  /\ form' = [form EXCEPT ![c] = f]
  /\ edits' = edits + 1
  /\ UNCHANGED books

LoadSettlement(c, s) == Load(c, [of |-> "settlement", id |-> s, copy |-> settlement[s]])
LoadItem(c, i) == Load(c, [of |-> "item", id |-> i, copy |-> item[i]])

\* It saves the copy with another amount; the constraints of the table look at
\* the copy's counter.
SaveSettlement(c, amount) ==
  /\ form[c].of = "settlement" /\ form[c].copy.allocated <= amount
  /\ settlement' = [settlement EXCEPT ![form[c].id] = [form[c].copy EXCEPT !.amount = amount]]
  /\ form' = [form EXCEPT ![c] = NoForm]
  /\ UNCHANGED <<item, allocation, edits>>

SaveItem(c, amount) ==
  /\ form[c].of = "item" /\ form[c].copy.allocated <= amount
  /\ item' = [item EXCEPT ![form[c].id] = [form[c].copy EXCEPT !.original = amount]]
  /\ form' = [form EXCEPT ![c] = NoForm]
  /\ UNCHANGED <<settlement, allocation, edits>>

\* The amounts a form may ask for: what rows were created with.
FormAmounts == {Amount[s] : s \in Settlements} \cup {Original[i] : i \in Items}

Forms ==
  \E c \in Clerks :
    \/ \E s \in Settlements : LoadSettlement(c, s)
    \/ \E i \in Items : LoadItem(c, i)
    \/ \E amount \in FormAmounts : SaveSettlement(c, amount) \/ SaveItem(c, amount)

Spec == Init /\ [][Services]_vars
FormSpec == Init /\ [][Services \/ Forms]_vars
-----------------------------------------------------------------------------
SettlementRows == [amount : Nat, allocated : Nat]
ItemRows == [original : Nat, allocated : Nat, status : {"open", "partial", "settled"}]
Allocations == [of : Settlements \cup {None}, on : Items \cup {None}, amount : Int, reverses : 0..NA]

TypeOK ==
  /\ settlement \in [Settlements -> SettlementRows]
  /\ item \in [Items -> ItemRows]
  /\ allocation \in [Rows -> Allocations]
  /\ edits \in 0..MaxEdits

Paid(s) == Total([n \in Rows |-> IF allocation[n].of = s THEN allocation[n].amount ELSE 0], NA)
Received(i) == Total([n \in Rows |-> IF allocation[n].on = i THEN allocation[n].amount ELSE 0], NA)

\* allocated_amount of either side is the sum of its allocations and their
\* reversals.
CountersAreSums ==
  /\ \A s \in Settlements : settlement[s].allocated = Paid(s)
  /\ \A i \in Items : item[i].allocated = Received(i)

\* No money is spent twice and no item is paid more than it asks for, in
\* whatever order allocations and reversals are made (allocate).
NeverOverpaid ==
  /\ \A s \in Settlements : Paid(s) \in 0..settlement[s].amount
  /\ \A i \in Items : Received(i) \in 0..item[i].original

\* A settled item is paid in full, an open one not at all.
StatusIsOutstanding ==
  \A i \in Items :
    /\ item[i].status = "settled" => Received(i) = item[i].original
    /\ item[i].status = "open" <=> Received(i) = 0

\* Between a settlement and an item, reversals take back no more than was
\* allocated there: nothing is reversed twice, although rows of other pairs
\* would cover it in the counters.
NothingTakenBackTwice ==
  \A s \in Settlements, i \in Items :
    Total([n \in Rows |-> IF allocation[n].of = s /\ allocation[n].on = i
                            THEN allocation[n].amount ELSE 0], NA) >= 0

\* The counters of settlements and items are what was allocated less what was taken
\* back, between every two of them (allocate, reverse_allocation).
CountersAreSound == CountersAreSums /\ NothingTakenBackTwice
=============================================================================
