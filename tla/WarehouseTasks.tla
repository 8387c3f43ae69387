---------------------------- MODULE WarehouseTasks ----------------------------
(***************************************************************************)
(* What the warehouse does under a task: putting goods away, picking and   *)
(* checking a shipment (warehouse/task_services.py), and the edits of a    *)
(* task (warehouse/task_api.py).  A task has one line here; a task that    *)
(* picks or checks is for a whole shipment and moves the shipment on.      *)
(*                                                                         *)
(* The services lock the task first.  An edit does not: it looks at the    *)
(* status of the copy get_object gave it, and saves every column of that   *)
(* copy, so that opening and saving the form are two actions.              *)
(***************************************************************************)
EXTENDS Serials, StockBooks

CONSTANTS
  Tasks,         \* wms_task
  TaskType,      \* "putaway", "pick" or "pack"
  TaskDelivery,  \* the shipment of a task that picks or checks
  FromAt, ToAt,  \* the balances a putaway moves goods between
  PutQty,        \* planned_qty of a putaway
  SkuCode,       \* what is scanned of goods that carry no number
  ScanKeys, ScanQty, MaxTaskForms,   \* bounds
  NoTask         \* no form

ASSUME TasksAssumption ==
  /\ \A t \in Tasks : TaskType[t] # "putaway" => TaskDelivery[t] \in Deliveries
  /\ PutQty \in Nat /\ ScanQty \subseteq Nat

VARIABLES
  task,          \* [status, scanned, completed] of a task
  scan,          \* wms_scan_event, by key: [task, value, qty]
  taskForm,      \* the status an edit of a task holds
  taskForms      \* edits begun

taskVars == <<task, scan, taskForm, taskForms>>

TaskRow == [status : {"draft", "released", "in_progress", "completed"}, scanned : Nat, completed : Nat]
ScanRow == [task : Tasks, value : DOMAIN serial \cup {SkuCode}, qty : Nat]

TasksInit ==
  /\ task = [t \in Tasks |-> [status |-> "draft", scanned |-> 0, completed |-> 0]]
  /\ scan = <<>> /\ taskForm = [t \in Tasks |-> NoTask] /\ taskForms = 0

PlannedQty(t) == IF TaskType[t] = "putaway" THEN PutQty ELSE DeliveredQty[TaskDelivery[t]]
OfNumbered(t) == TaskType[t] # "putaway" /\ LineOf[TaskDelivery[t]] \in Numbered

\* release_task: picking starts with the task.
ReleaseTask(t) ==
  /\ task[t].status = "draft"
  /\ IF TaskType[t] = "pick"
     THEN MoveDelivery(TaskDelivery[t], delivery[TaskDelivery[t]].version, "start_picking")
     ELSE UNCHANGED serialVars
  /\ task' = [task EXCEPT ![t].status = "released"]
  /\ UNCHANGED <<stockVars, scan, taskForm, taskForms>>

\* _scan_value_matches: a numbered piece of the shipment, or the SKU's code.
Matches(t, value) ==
  IF OfNumbered(t) THEN value \in Parcels(TaskDelivery[t]) ELSE value = SkuCode

MayScan(t, n) == task[t].scanned + n <= PlannedQty(t)

\* record_scan; a key that is known changes nothing.
RecordScan(t, k, value, n) ==
  /\ k \notin DOMAIN scan
  /\ task[t].status \in {"released", "in_progress"}
  /\ n > 0 /\ (OfNumbered(t) => n = 1)
  /\ Matches(t, value) /\ MayScan(t, n)
  /\ scan' = With(scan, k, [task |-> t, value |-> value, qty |-> n])
  /\ task' = [task EXCEPT ![t].scanned = @ + n, ![t].status = "in_progress"]
  /\ UNCHANGED <<serialVars, stockVars, taskForm, taskForms>>

\* A fault: the key names the source only, and what arrives is not booked.
PutRows_OneKey(t) == {[key |-> <<t, "out">>, balance |-> FromAt, delta |-> -PutQty]}
PutRows(t) ==
  {[key |-> <<t, "out">>, balance |-> FromAt, delta |-> -PutQty],
   [key |-> <<t, "in">>, balance |-> ToAt, delta |-> PutQty]}

\* complete_task.
CompleteTask(t) ==
  /\ task[t].status \in {"released", "in_progress"} /\ task[t].scanned = PlannedQty(t)
  /\ IF TaskType[t] = "putaway" THEN Book(PutRows(t)) /\ UNCHANGED serialVars
     ELSE /\ MoveDelivery(TaskDelivery[t], delivery[TaskDelivery[t]].version,
                          IF TaskType[t] = "pick" THEN "complete_picking" ELSE "verify")
          /\ UNCHANGED stockVars
  /\ task' = [task EXCEPT ![t].status = "completed", ![t].completed = PlannedQty(t)]
  /\ UNCHANGED <<scan, taskForm, taskForms>>

OpenTaskForm(t) ==
  /\ taskForms < MaxTaskForms /\ taskForm[t] = NoTask /\ task[t].status = "draft"
  /\ taskForm' = [taskForm EXCEPT ![t] = task[t].status] /\ taskForms' = taskForms + 1
  /\ UNCHANGED <<serialVars, stockVars, task, scan>>

\* The lines keep their scans: a line with scan events cannot be replaced.
SaveTaskForm(t) ==
  /\ taskForm[t] # NoTask
  /\ task' = [task EXCEPT ![t].status = taskForm[t]]
  /\ taskForm' = [taskForm EXCEPT ![t] = NoTask]
  /\ UNCHANGED <<serialVars, stockVars, scan, taskForms>>

TasksNext ==
  \E t \in Tasks :
    \/ ReleaseTask(t) \/ CompleteTask(t) \/ OpenTaskForm(t) \/ SaveTaskForm(t)
    \/ \E k \in ScanKeys, v \in DOMAIN serial \cup {SkuCode}, n \in ScanQty : RecordScan(t, k, v, n)
-----------------------------------------------------------------------------
TasksTypeOK ==
  /\ task \in [Tasks -> TaskRow]
  /\ \A k \in DOMAIN scan : scan[k] \in ScanRow

ScansOf(t) == {k \in DOMAIN scan : scan[k].task = t}

\* What a task counted is what its scans say and no more than was planned; what
\* it put away left one place and reached the other once, also when an edit put
\* the task back and it was completed again (record_scan, complete_task).
TasksAreDoneOnce ==
  TasksTypeOK /\
  \A t \in Tasks :
    /\ task[t].scanned = SumOver([k \in DOMAIN scan |-> scan[k].qty], ScansOf(t))
    /\ task[t].scanned <= PlannedQty(t) /\ task[t].completed \in {0, PlannedQty(t)}
    /\ TaskType[t] = "putaway" =>
         LET done == IF task[t].completed > 0 THEN PutQty ELSE 0 IN
         \A b \in Balances :
           Moved(b, {r \in booked : r.key[1] = t}) =
             (IF b = ToAt THEN done ELSE 0) - (IF b = FromAt THEN done ELSE 0)
=============================================================================
