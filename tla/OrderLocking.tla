---------------------------- MODULE OrderLocking ----------------------------
(***************************************************************************)
(* The row locks the sales and stock services take inside one transaction, *)
(* statement by statement, and whether they can wait for each other in a   *)
(* circle.                                                                 *)
(*                                                                         *)
(* select_for_update() followed by select_related() has no "of" argument,  *)
(* so PostgreSQL locks the joined rows too, for each result row in the     *)
(* order of the FROM clause: the statement that loads an order with its    *)
(* company locks the order and then the company.  Every lock is held until *)
(* the transaction ends.  No code catches a deadlock error or retries a    *)
(* command, so the victim is lost.                                         *)
(***************************************************************************)
EXTENDS Integers, FiniteSets, SequencesExt

CONSTANTS
  Txns,          \* the concurrent requests
  Kind,          \* of a transaction: "confirm", "cancel", "ship", "transition", "adjust"
  Subject,       \* the order, the shipment, or the balance it works on
  OrderOf,       \* the order of a shipment
  LinesOf,       \* the lines of an order, in id order
  Placed,        \* reservations of an order, in id order, or allocations in balance order
  ShipLines,     \* the reservations of a shipment's lines, in balance order
  LineOf,        \* the order line of a reservation or allocation
  BalanceOf,     \* the balance of a reservation or allocation
  SkuOf          \* the SKU of an order line

ASSUME OrderLockingAssumption ==
  /\ Kind \in [Txns -> {"confirm", "cancel", "ship", "transition", "adjust"}]
  /\ \A t \in Txns :
       /\ Kind[t] \in {"confirm", "cancel"} => Subject[t] \in DOMAIN LinesOf
       /\ Kind[t] \in {"ship", "transition"} => Subject[t] \in DOMAIN ShipLines
  /\ OrderOf \in [DOMAIN ShipLines -> DOMAIN LinesOf]
  /\ LineOf \in [DOMAIN LineOf -> DOMAIN SkuOf]
  /\ LinesOf \in [DOMAIN LinesOf -> Seq(DOMAIN SkuOf)]
  /\ Placed \in [DOMAIN LinesOf -> Seq(DOMAIN LineOf)]
  /\ ShipLines \in [DOMAIN ShipLines -> Seq(DOMAIN LineOf)]
  /\ \A o \in DOMAIN Placed : \A i \in 1..Len(Placed[o]) : Placed[o][i][1] = o

VARIABLES
  pos,           \* how many locks of its plan a transaction has taken
  outcome        \* "running", "committed", "aborted"

lockVars == <<pos, outcome>>

Row(table, id) == <<table, id>>
Company == Row("company", "all")

\* Concatenates the locks of a loop over s.
ForEach(s, Locks(_)) == FlattenSeq([i \in 1..Len(s) |-> Locks(s[i])])

\* Header statements: the first lock request of a service; the fault leaves out
\* the joined company.
OrderHeader_Alone(o) == <<Row("order", o)>>
OrderHeader(o) == <<Row("order", o), Company>>
ShipmentHeader(s) == <<Row("shipment", s), Company, Row("order", OrderOf[s])>>

OrderLines(o) == ForEach(LinesOf[o], LAMBDA l : <<Row("line", l)>>)

\* reserve_inventory: the line with its order, then the balance with its company.
ReserveLocks(r) ==
  <<Row("line", LineOf[r]), Row("order", r[1]), Row("balance", BalanceOf[r]), Company>>

\* release_reservation and consume_reservation take the same locks.
SettleLocks(r) ==
  <<Row("reservation", r), Company, Row("line", LineOf[r]), Row("balance", BalanceOf[r])>>

CommitCreditLocks == <<Row("account", "all"), Company>>
ReleaseCreditLocks(o) == <<Row("commitment", o), Row("account", "all"), Company>>

\* confirm_sales_order, cancel_unshipped_order, ship_sales_shipment,
\* transition_sales_shipment, adjust_on_hand: all the locks of one transaction.
ConfirmLocks(o) ==
  OrderHeader(o) \o OrderLines(o) \o ForEach(Placed[o], ReserveLocks) \o CommitCreditLocks
CancelLocks(o) ==
  OrderHeader(o) \o OrderLines(o) \o ForEach(Placed[o], SettleLocks) \o ReleaseCreditLocks(o)
ShipLocks(s) ==
  ShipmentHeader(s)
    \o ForEach(ShipLines[s], LAMBDA r : <<Row("shipment_line", r), Row("reservation", r)>>)
    \o ForEach(ShipLines[s], SettleLocks)
    \o <<Row("order", OrderOf[s])>> \o OrderLines(OrderOf[s])
TransitionLocks(s) ==
  ShipmentHeader(s)
    \o ForEach(ShipLines[s], LAMBDA r : <<Row("shipment_line", r), Row("line", LineOf[r]),
                                        Row("sku", SkuOf[LineOf[r]])>>)
    \o <<Row("order", OrderOf[s])>>
AdjustLocks(b) == <<Row("balance", b), Company>>

\* A lock that is asked for again is granted at once: nobody else holds it.
Plan == [t \in Txns |->
  CASE Kind[t] = "confirm"    -> ConfirmLocks(Subject[t])
    [] Kind[t] = "cancel"     -> CancelLocks(Subject[t])
    [] Kind[t] = "ship"       -> ShipLocks(Subject[t])
    [] Kind[t] = "transition" -> TransitionLocks(Subject[t])
    [] Kind[t] = "adjust"     -> AdjustLocks(Subject[t])]

\* The rows a transaction holds, and whether it has a next one to ask for.
Holds(t, row) == outcome[t] = "running" /\ \E i \in 1..pos[t] : Plan[t][i] = row
Wants(t) == outcome[t] = "running" /\ pos[t] < Len(Plan[t])
WaitsFor(t, u) == t # u /\ Wants(t) /\ Holds(u, Plan[t][pos[t] + 1])

\* Requests that wait in circles: each waits for one of them, and one of them
\* waits for it.
Waiting == {t \in Txns : \E u \in Txns : WaitsFor(t, u)}
Circles ==
  {c \in SUBSET Waiting :
     c # {} /\ \A t \in c : (\E u \in c : WaitsFor(t, u)) /\ (\E u \in c : WaitsFor(u, t))}

LockInit ==
  /\ pos = [t \in Txns |-> 0]
  /\ outcome = [t \in Txns |-> "running"]

\* PostgreSQL grants the next row lock.
Lock(t) ==
  /\ Wants(t)
  /\ \A u \in Txns : ~WaitsFor(t, u)
  /\ pos' = [pos EXCEPT ![t] = @ + 1]
  /\ UNCHANGED outcome

End(t, how) ==
  /\ outcome' = [outcome EXCEPT ![t] = how]
  /\ pos' = [pos EXCEPT ![t] = 0]

Commit(t) ==
  /\ outcome[t] = "running"
  /\ pos[t] = Len(Plan[t])
  /\ End(t, "committed")

\* A check of the service fails: the exception rolls the transaction back.
Rollback(t) ==
  /\ outcome[t] = "running"
  /\ pos[t] > 0
  /\ End(t, "aborted")

\* PostgreSQL's deadlock detector ends a transaction of a circle; the
\* fault swallows its error and asks again in the same transaction.
AbortVictim_Swallowed == Circles # {} /\ UNCHANGED lockVars

AbortVictim == \E t \in UNION Circles : End(t, "aborted")

LockNext == AbortVictim \/ \E t \in Txns : Lock(t) \/ Commit(t) \/ Rollback(t)

\* A request that can have its next lock goes on, one that has them all ends,
\* and PostgreSQL looks for circles now and then.
Progress == \A t \in Txns : WF_lockVars(Lock(t)) /\ WF_lockVars(Commit(t))
Detection == WF_lockVars(AbortVictim)

LockSpec == LockInit /\ [][LockNext]_lockVars /\ Progress
DetectedSpec == LockSpec /\ Detection
-----------------------------------------------------------------------------
LocksTypeOK ==
  /\ pos \in [Txns -> Nat]
  /\ outcome \in [Txns -> {"running", "committed", "aborted"}]
  /\ \A t \in Txns : pos[t] <= Len(Plan[t])
  /\ \A t \in Txns : outcome[t] # "running" => pos[t] = 0

\* Requests that do wait in a circle are a confirmation or a cancellation and the
\* warehouse's work on the same order, or have a stock adjustment among them:
\* confirmations, cancellations and shipments of different orders take the
\* balances they share behind the lock of their company.
CirclesAreKnown ==
  /\ LocksTypeOK
  /\ \A c \in Circles :
       \E t, u \in c :
         \/ Kind[t] = "adjust"
         \/ Kind[t] \in {"confirm", "cancel"} /\ Kind[u] \in {"ship", "transition"}
                                            /\ OrderOf[Subject[u]] = Subject[t]

\* Every request ends, those in a circle because the locks of its victim are
\* released, and no request needs to be sent again for another to go on.
AllEnd == \A t \in Txns : <>(outcome[t] # "running")
=============================================================================
