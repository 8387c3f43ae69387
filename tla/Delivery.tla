------------------------------- MODULE Delivery -------------------------------
(***************************************************************************)
(* Numbered goods, warehouse tasks, shipments and returns together: tasks  *)
(* move shipments on, shipments carry the pieces, and cases take back what *)
(* was shipped, over one stock.                                            *)
(***************************************************************************)
EXTENDS WarehouseTasks, AfterSales

CONSTANTS
  Halls,   \* bound: which parts are at work in a behaviour
  Made     \* the pieces in stock where none are made

\* What was made before has the numbers of its pool's rule, and no more than its
\* limit; a row names its document and the value NoRefund is no row.
ASSUME DeliveryAssumption ==
  /\ IsFiniteSet(Made) /\ Cardinality(Made) <= Limit[Maker]
  /\ Made \subseteq {<<Rule[Maker].label, i>> : i \in Free(Maker, Rule[Maker].start)}
  /\ Tasks \cap ReturnKeys = {} /\ NoRefund \notin RefundRow

VARIABLE hall

ownTasks == <<task, scan, taskForm, taskForms>>
ownAfter == <<case, receipt, refundVars>>
deliveryVars == <<serialVars, stockVars, ownTasks, ownAfter, hall>>

DeliveryInit ==
  /\ hall \in Halls
  /\ SerialsInit(IF "making" \in hall THEN {} ELSE Made) /\ StockInit /\ TasksInit /\ AfterSalesInit

DeliveryNext ==
  /\ UNCHANGED hall
  /\ \/ /\ \/ "making" \in hall /\ MakingNext
           \/ "holding" \in hall /\ HoldingNext
           \/ "shipping" \in hall /\ ShippingNext
        /\ UNCHANGED <<stockVars, ownTasks, ownAfter>>
     \/ "tasks" \in hall /\ TasksNext /\ UNCHANGED ownAfter
     \/ /\ \/ "returns" \in hall /\ ReturnsNext
           \/ "refunds" \in hall /\ RefundsNext
        /\ UNCHANGED ownTasks

DeliverySpec == DeliveryInit /\ [][DeliveryNext]_deliveryVars
=============================================================================
