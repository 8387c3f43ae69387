----------------------------- MODULE TaskRuntime -----------------------------
(***************************************************************************)
(* Background tasks: the broker's deliveries, the ledger of executions     *)
(* that recorded_task keeps (system/task_runtime.py), and the operators'   *)
(* retry (system/management_api.py).                                       *)
(*                                                                         *)
(* recorded_task locks the row while it marks it processing and not while  *)
(* the task runs; when the task ends it saves the whole row as it was      *)
(* loaded.  Delivery is at least once: messages are acknowledged late, and *)
(* one whose worker is lost is queued again.                               *)
(***************************************************************************)
EXTENDS Integers, FiniteSets

CONSTANTS
  Jobs,          \* exports: the message and the execution carry the job's id
  TaskWorkers,       \* worker processes
  MaxWindow,     \* bound: minutes, the keys of the scheduled task
  MaxRunAttempts,   \* max_attempts of an execution
  MaxExtra       \* bound: crashes, redeliveries and retries

ASSUME TaskAssumption ==
  MaxWindow \in Nat \ {0} /\ MaxRunAttempts \in Nat \ {0} /\ MaxExtra \in Nat

VARIABLES
  execution,     \* sys_background_task_execution, by idempotency key
  window,        \* the current minute
  inbox,         \* how often a message waits at the broker
  run,           \* what each worker is doing
  loaded,        \* executions an operator's retry has read
  extra,
  begun          \* history: how often a key's task was started

taskVars == <<execution, window, inbox, run, loaded, extra, begun>>

Scheduled == "scheduled"
Keys == Jobs \cup 1..MaxWindow
Messages == Jobs \cup {Scheduled}
Idle == [phase |-> "idle"]

\* The scheduled task computes its key, the minute, when it starts.
KeyOf(m) == IF m = Scheduled THEN window ELSE m

TaskInit ==
  /\ execution = [k \in Keys |-> [status |-> "absent", attempts |-> 0]]
  /\ window = 1
  /\ inbox = [m \in Messages |-> 1]
  /\ run = [w \in TaskWorkers |-> Idle]
  /\ loaded = {}
  /\ extra = 0
  /\ begun = [k \in Keys |-> 0]

\* The next minute: the scheduler sends the task again.
Tick ==
  /\ window < MaxWindow
  /\ window' = window + 1
  /\ inbox' = [inbox EXCEPT ![Scheduled] = @ + 1]
  /\ UNCHANGED <<execution, run, loaded, extra, begun>>

\* Whether a delivery is answered without running; the fault always runs.
AlreadyDone_Never(k) == FALSE
AlreadyDone(k) == execution[k].status = "succeeded"

\* recorded_task, up to its yield.
Begin(w, m) ==
  LET k == KeyOf(m) IN
  /\ run[w] = Idle /\ inbox[m] > 0
  /\ inbox' = [inbox EXCEPT ![m] = @ - 1]
  /\ \/ AlreadyDone(k) /\ UNCHANGED <<execution, run, begun>>
     \/ /\ ~AlreadyDone(k)
        /\ execution' = [execution EXCEPT ![k] = [status |-> "processing", attempts |-> @.attempts + 1]]
        /\ run' = [run EXCEPT ![w] = [phase |-> "working", message |-> m, key |-> k,
                                      attempts |-> execution[k].attempts + 1]]
        /\ begun' = [begun EXCEPT ![k] = @ + 1]
  /\ UNCHANGED <<window, loaded, extra>>

\* What a run that ends saves over the row.
Saved(attempts, failed) ==
  [attempts |-> attempts,
   status |-> IF ~failed THEN "succeeded" ELSE IF attempts >= MaxRunAttempts THEN "dead" ELSE "failed"]

\* The task returns or raises, and its row is saved.
Finish(w) ==
  /\ run[w] # Idle
  /\ \E failed \in BOOLEAN :
       execution' = [execution EXCEPT ![run[w].key] = Saved(run[w].attempts, failed)]
  /\ run' = [run EXCEPT ![w] = Idle]
  /\ UNCHANGED <<window, inbox, loaded, extra, begun>>

\* The worker process dies, and its message is queued again; the fault
\* acknowledged it when it was delivered.
LoseWorker_AckedEarly(w) ==
  /\ run[w] # Idle /\ extra < MaxExtra
  /\ run' = [run EXCEPT ![w] = Idle]
  /\ extra' = extra + 1
  /\ UNCHANGED <<execution, window, inbox, loaded, begun>>

LoseWorker(w) ==
  /\ run[w] # Idle /\ extra < MaxExtra
  /\ inbox' = [inbox EXCEPT ![run[w].message] = @ + 1]
  /\ run' = [run EXCEPT ![w] = Idle]
  /\ extra' = extra + 1
  /\ UNCHANGED <<execution, window, loaded, begun>>

\* The broker gives up waiting for an acknowledgement and delivers again.
Redeliver(w) ==
  /\ run[w] # Idle /\ extra < MaxExtra
  /\ inbox' = [inbox EXCEPT ![run[w].message] = @ + 1]
  /\ extra' = extra + 1
  /\ UNCHANGED <<execution, window, run, loaded, begun>>

\* An operator's retry reads an execution, then marks it pending and sends its
\* task by name alone: a scheduled task starts under the current minute's key, an
\* export's message lacks the job and fails before recorded_task.
LoadRetry(k) ==
  /\ execution[k].status \in {"failed", "dead"}
  /\ extra < MaxExtra
  /\ loaded' = loaded \cup {k}
  /\ extra' = extra + 1
  /\ UNCHANGED <<execution, window, inbox, run, begun>>

Retry(k) ==
  /\ k \in loaded
  /\ execution' = [execution EXCEPT ![k].status = "pending"]
  /\ inbox' = IF k \in Jobs THEN inbox ELSE [inbox EXCEPT ![Scheduled] = @ + 1]
  /\ loaded' = loaded \ {k}
  /\ UNCHANGED <<window, run, extra, begun>>

TaskNext ==
  \/ Tick
  \/ \E w \in TaskWorkers : Finish(w) \/ LoseWorker(w) \/ Redeliver(w) \/ \E m \in Messages : Begin(w, m)
  \/ \E k \in Keys : LoadRetry(k) \/ Retry(k)

\* TaskWorkers take every kind of message in turn, and tasks end.
TaskFairness ==
  \A w \in TaskWorkers : WF_taskVars(Finish(w)) /\ \A m \in Messages : WF_taskVars(Begin(w, m))

TaskSpec == TaskInit /\ [][TaskNext]_taskVars /\ TaskFairness
-----------------------------------------------------------------------------
Running(k) == {w \in TaskWorkers : run[w] # Idle /\ run[w].key = k}

TaskTypeOK ==
  /\ execution \in [Keys -> [status : {"absent", "pending", "processing", "succeeded",
                                       "failed", "dead"}, attempts : Nat]]
  /\ window \in 1..MaxWindow /\ inbox \in [Messages -> Nat] /\ loaded \subseteq Keys
  /\ extra \in 0..MaxExtra /\ begun \in [Keys -> Nat]
  /\ \A k \in Keys : execution[k].attempts <= begun[k]

\* With several workers, a success is overwritten only by a run that began before.
SuccessOutlivesItsRuns ==
  []TaskTypeOK /\
  [][\A k \in Keys :
       execution[k].status = "succeeded" /\ Running(k) = {} /\ k \notin loaded =>
         execution'[k] = execution[k] /\ begun'[k] = begun[k]]_taskVars

\* An export that a lost worker left behind is taken up again.
ExportsAreRecovered ==
  \A j \in Jobs : execution[j].status = "processing" ~> execution[j].status # "processing"
=============================================================================
